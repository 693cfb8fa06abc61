-------------------------- MODULE JobProofs ---------------------------------
(***************************************************************************)
(* Proofs about background jobs and about the operations on trees that     *)
(* they, and mc itself, run: for any number of jobs and questions, event   *)
(* loops nested to any depth, and any tree of files.                       *)
(*                                                                         *)
(* The invariant of the jobs follows one job at a time.  The question of a *)
(* job is in its pipe, or half of it is there and the other half was read, *)
(* or one dialog shows it, or the answer is in the other pipe: Place says  *)
(* which of these goes with which state of the job.  A job that was killed *)
(* stays where it was, in the state it was killed in; one that mc has      *)
(* dropped is not read any more.  Served relates this to the descriptors   *)
(* that the nested loops have still to serve: a loop at or above the       *)
(* dialog of a job has no bit for that job, so the bit a loop was left     *)
(* with can lead mc to read from a job that has nothing to say, and never  *)
(* from one whose question lies open below.                                *)
(*                                                                         *)
(* The invariant of an operation on a tree follows the function that runs: *)
(* CopyStops says in which function a copy can be once it was aborted, and *)
(* Stands what the functions of a delete know of the entry they work on;   *)
(* Rooted, that a path leads through directories, makes an rmdir that      *)
(* finds nothing below an entry the end of that entry.                     *)
(***************************************************************************)
EXTENDS Background, TreeOps, FiniteSetTheorems, WellFoundedInduction, SequenceTheorems,
        TLAPS

FrameSet ==
  [kind : {"panels", "program", "jobs", "error", "recursive"},
   job : Jobs \cup {NoJob}, items : Seq(Jobs), to : Jobs \cup {NoJob},
   bits : SUBSET Jobs, static : BOOLEAN]

JobsTyped ==
  /\ proc \in [Jobs -> {"unborn", "working", "asking", "waiting", "gone"}]
  /\ asked \in [Jobs -> Nat] /\ \A j \in Jobs : asked[j] <= MaxAsks[j]
  /\ req \in [Jobs -> Kinds]
  /\ all \in [Jobs -> BOOLEAN] /\ ctx \in [Jobs -> BOOLEAN]
  /\ stopped \subseteq Jobs /\ lost \subseteq Jobs /\ saidAll \subseteq Jobs
  /\ crashed \in BOOLEAN
PipesTyped ==
  /\ up \in [Jobs -> Seq(Half)]
  /\ down \in [Jobs -> Seq([all : BOOLEAN])]
ListsTyped == tasks \in Seq(Task) /\ channels \in Seq(Jobs)
LoopsTyped ==
  /\ stack \in Seq(FrameSet) /\ stack # <<>>
  /\ reading \in [job : Jobs \cup {NoJob}, part : {"head", "body"},
                  kind : Kinds]
Typed == JobsTyped /\ PipesTyped /\ ListsTyped /\ LoopsTyped

(* The head of the job's request was read, the body was not.               *)
Rd(j) == reading.job = j /\ reading.part = "body"
HalfOf(j, part) == [part |-> part, kind |-> req[j], all |-> all[j]]

(* Where the question of a job in state p is.                              *)
Quiet(j, p) ==
  /\ p \in {"unborn", "working", "gone"}
  /\ up[j] = <<>> /\ ~Rd(j) /\ Dialogs(j) = {} /\ down[j] = <<>>
InPipe(j, p) ==
  /\ Dialogs(j) = {} /\ down[j] = <<>>
  /\ Rd(j) => reading.kind = req[j]
  /\ \/ p = "asking" /\ up[j] = <<HalfOf(j, "head")>> /\ ~Rd(j)
     \/ p = "asking" /\ up[j] = <<>> /\ Rd(j)
     \/ /\ p = "waiting" /\ ~Rd(j)
        /\ up[j] = <<HalfOf(j, "head"), HalfOf(j, "body")>>
     \/ p = "waiting" /\ up[j] = <<HalfOf(j, "body")>> /\ Rd(j)
Shown(j, p) ==
  /\ p = "waiting" /\ up[j] = <<>> /\ ~Rd(j) /\ down[j] = <<>>
  /\ \E i \in DOMAIN stack : /\ Dialogs(j) = {i}
                             /\ stack[i].kind = req[j] /\ stack[i].to = j
Answered(j, p) ==
  /\ p = "waiting" /\ up[j] = <<>> /\ ~Rd(j) /\ Dialogs(j) = {}
  /\ \E v \in BOOLEAN : down[j] = <<[all |-> v]>>
Place(j, p) == Quiet(j, p) \/ InPipe(j, p) \/ Shown(j, p) \/ Answered(j, p)

Ended(j, p) == p = "waiting" /\ req[j] = "end" /\ down[j] # <<>>
Listed(j, p) ==
  /\ j \in TaskJobs => p \notin {"unborn", "gone"} /\ ~Ended(j, p)
  /\ p \notin {"unborn", "gone"} /\ ~Ended(j, p) =>
       j \in TaskJobs /\ j \in ToSet(channels)

(* The state of a job, or the one it was killed in.                        *)
Was(j, p) ==
  \/ proc[j] = p /\ j \notin lost
  \/ /\ j \in lost /\ proc[j] = "gone"
     /\ p \in {"working", "asking", "waiting"}

Dropped(j) == j \in lost /\ j \notin TaskJobs
Unheard(j) ==
  /\ proc[j] # "unborn" /\ Dialogs(j) = {} /\ ~Rd(j)
  /\ j \in ToSet(channels) \/ reading.job = j =>
       up[j] = <<>> /\ proc[j] = "gone"

States == {"unborn", "working", "asking", "waiting", "gone"}
Followed(j) ==
  IF Dropped(j) THEN Unheard(j)
  ELSE \E p \in States : Place(j, p) /\ Listed(j, p) /\ Was(j, p)

(* A job that was answered for all knows it, or will when it reads.        *)
Settled(j) ==
  j \in saidAll /\ ~Dropped(j) =>
    /\ all[j] \/ (down[j] # <<>> /\ HasCtx(req[j]))
    /\ down[j] # <<>> /\ HasCtx(req[j]) => down[j] = <<[all |-> TRUE]>>
    /\ \A i \in Dialogs(j) : stack[i].kind # "recursive"

Once ==
  /\ \A i, k \in DOMAIN tasks : tasks[i].job = tasks[k].job => i = k
  /\ \A i, k \in DOMAIN channels : channels[i] = channels[k] => i = k
  /\ \A j \in TaskJobs \cup ToSet(channels) : proc[j] # "unborn"

(* The panels, at most one program or list of jobs, and the dialogs.       *)
Shape ==
  /\ stack[1].kind = "panels"
  /\ \A i \in 2 .. Len(stack) : stack[i].kind # "panels"
  /\ \A i \in 3 .. Len(stack) : stack[i].kind \in {"error", "recursive"}
  /\ \A i \in DOMAIN stack :
       stack[i].kind \in {"error", "recursive"} => stack[i].job \in Jobs

Served(j) ==
  /\ \A k \in Dialogs(j) : \A i \in k .. Len(stack) : j \notin stack[i].bits
  /\ reading.job = j => Dialogs(j) = {}

IInv ==
  /\ Typed /\ Once /\ Shape
  /\ \A j \in Jobs : Followed(j) /\ Settled(j) /\ Served(j)

-----------------------------------------------------------------------------
(* Sequences.                                                              *)

LEMMA LeastNatural ==
  ASSUME NEW S \in SUBSET Nat, S # {}
  PROVE  \E n \in S : \A m \in S : n <= m
<1> DEFINE T == {0 .. n : n \in S}
           R == StrictSubsetOrdering(Nat)
<1>1. T \subseteq FiniteSubsetsOf(Nat) /\ T # {}
  <2>1. \A n \in S : IsFiniteSet(0 .. n) /\ 0 .. n \in SUBSET Nat
    BY FS_Interval
  <2> QED BY <2>1 DEF FiniteSubsetsOf
<1>2. IsWellFoundedOn(R, FiniteSubsetsOf(Nat))
  BY FS_StrictSubsetOrderingWellFounded
<1>3. PICK x \in T : \A y \in T : <<y, x>> \notin R
  BY <1>1, <1>2, WFMin
<1>4. PICK n \in S : x = 0 .. n
  OBVIOUS
<1>5. ASSUME NEW m \in S, m < n PROVE FALSE
  <2>1. 0 .. m \in T /\ 0 .. m \subseteq 0 .. n /\ n \notin 0 .. m
    BY <1>5
  <2>2. n \in 0 .. n /\ 0 .. m \in SUBSET Nat /\ 0 .. n \in SUBSET Nat
    OBVIOUS
  <2>3. <<0 .. m, 0 .. n>> \in R
    BY <2>1, <2>2 DEF StrictSubsetOrdering
  <2> QED BY <2>1, <2>3, <1>3, <1>4
<1> QED BY <1>5

LEMMA FirstOfIsIn ==
  ASSUME NEW S \in SUBSET Nat, S # {}
  PROVE  FirstOf(S) \in S
BY LeastNatural DEF FirstOf

(* One entry is taken out, the others keep their order.                    *)
LEMMA UnlinkedEntries ==
  ASSUME NEW T, NEW s \in Seq(T), NEW i \in DOMAIN s
  PROVE  /\ Unlinked(s, {i}) \in Seq(T)
         /\ Len(Unlinked(s, {i})) = Len(s) - 1
         /\ \A k \in 1 .. Len(s) - 1 :
              Unlinked(s, {i})[k] = IF k < i THEN s[k] ELSE s[k + 1]
<1> DEFINE a == SubSeq(s, 1, i - 1)
           b == SubSeq(s, i + 1, Len(s))
<1>1. DOMAIN s = 1 .. Len(s) /\ Len(s) \in Nat /\ i \in 1 .. Len(s)
  BY LenProperties
<1>2. FirstOf({i}) = i
  <2>1. {i} \in SUBSET Nat /\ {i} # {}
    BY <1>1
  <2> QED BY <2>1, FirstOfIsIn
<1>3. Unlinked(s, {i}) = a \o b
  BY <1>2 DEF Unlinked, RemoveAt
<1>4. /\ a \in Seq(T) /\ Len(a) = i - 1
      /\ \A k \in 1 .. i - 1 : a[k] = s[k]
  BY <1>1, SubSeqProperties
<1>5. /\ b \in Seq(T) /\ Len(b) = Len(s) - i
      /\ \A k \in 1 .. Len(s) - i : b[k] = s[i + k]
  <2>1. CASE i = Len(s)
    BY <1>1, <2>1, SubSeqProperties
  <2>2. CASE i # Len(s)
    BY <1>1, <2>2, SubSeqProperties
  <2> QED BY <2>1, <2>2
<1> HIDE DEF a, b
<1>6. /\ a \o b \in Seq(T) /\ Len(a \o b) = Len(a) + Len(b)
      /\ \A k \in 1 .. Len(a) + Len(b) :
           (a \o b)[k] = IF k <= Len(a) THEN a[k] ELSE b[k - Len(a)]
  BY <1>4, <1>5, ConcatProperties
<1>7. Len(a) + Len(b) = Len(s) - 1 /\ Len(a) = i - 1
  BY <1>1, <1>4, <1>5
<1>8. ASSUME NEW k \in 1 .. Len(s) - 1, k < i
      PROVE  (a \o b)[k] = s[k]
  <2>1. (a \o b)[k] = a[k] /\ k \in 1 .. i - 1
    BY <1>1, <1>6, <1>7, <1>8
  <2> QED BY <2>1, <1>4
<1>9. ASSUME NEW k \in 1 .. Len(s) - 1, ~(k < i)
      PROVE  (a \o b)[k] = s[k + 1]
  <2>1. (a \o b)[k] = b[k - Len(a)]
    BY <1>1, <1>6, <1>7, <1>9
  <2>2. k - Len(a) \in 1 .. Len(s) - i /\ i + (k - Len(a)) = k + 1
    BY <1>1, <1>7, <1>9
  <2>3. b[k - Len(a)] = s[i + (k - Len(a))]
    BY <1>5, <2>2
  <2> QED BY <2>1, <2>2, <2>3
<1> HIDE DEF Unlinked
<1>10. ASSUME NEW k \in 1 .. Len(s) - 1
       PROVE  Unlinked(s, {i})[k] = IF k < i THEN s[k] ELSE s[k + 1]
  BY <1>3, <1>8, <1>9
<1> QED BY <1>3, <1>6, <1>7, <1>10

(* The sequence u has the entries of s but the i-th.                       *)
AllBut(u, s, i) ==
  /\ \A k \in DOMAIN u : \E m \in DOMAIN s : m # i /\ u[k] = s[m]
  /\ \A m \in DOMAIN s : m # i => \E k \in DOMAIN u : u[k] = s[m]
  /\ \A k, l \in DOMAIN u : k # l =>
       \E m, n \in DOMAIN s : m # n /\ u[k] = s[m] /\ u[l] = s[n]

LEMMA UnlinkedImage ==
  ASSUME NEW T, NEW s \in Seq(T), NEW i \in DOMAIN s
  PROVE  /\ Unlinked(s, {i}) \in Seq(T)
         /\ AllBut(Unlinked(s, {i}), s, i)
<1> DEFINE u == Unlinked(s, {i})
<1>1. /\ u \in Seq(T) /\ Len(u) = Len(s) - 1
      /\ \A k \in 1 .. Len(s) - 1 : u[k] = IF k < i THEN s[k] ELSE s[k + 1]
  BY UnlinkedEntries
<1> HIDE DEF u
<1>2. /\ DOMAIN s = 1 .. Len(s) /\ Len(s) \in Nat /\ i \in 1 .. Len(s)
      /\ DOMAIN u = 1 .. Len(s) - 1
  BY <1>1, LenProperties
<1>3. \A k \in DOMAIN u : k < i => k \in DOMAIN s /\ k # i /\ u[k] = s[k]
  <2> SUFFICES ASSUME NEW k \in DOMAIN u, k < i
               PROVE  k \in DOMAIN s /\ k # i /\ u[k] = s[k]
    OBVIOUS
  <2>1. k \in 1 .. Len(s) - 1
    BY <1>2
  <2>2. k \in DOMAIN s /\ k # i
    BY <1>2, <2>1
  <2> QED BY <1>1, <2>1, <2>2
<1>4. \A k \in DOMAIN u :
        ~(k < i) => k + 1 \in DOMAIN s /\ k + 1 # i /\ u[k] = s[k + 1]
  <2> SUFFICES ASSUME NEW k \in DOMAIN u, ~(k < i)
               PROVE  k + 1 \in DOMAIN s /\ k + 1 # i /\ u[k] = s[k + 1]
    OBVIOUS
  <2>1. k \in 1 .. Len(s) - 1
    BY <1>2
  <2>2. k + 1 \in DOMAIN s /\ k + 1 # i
    BY <1>2, <2>1
  <2> QED BY <1>1, <2>1, <2>2
<1>5. ASSUME NEW k \in DOMAIN u
      PROVE  \E m \in DOMAIN s : m # i /\ u[k] = s[m]
  BY <1>3, <1>4
<1>6. ASSUME NEW m \in DOMAIN s, m # i
      PROVE  \E k \in DOMAIN u : u[k] = s[m]
  <2>1. CASE m < i
    <3>1. m \in DOMAIN u
      BY <1>2, <2>1
    <3> QED BY <1>3, <2>1, <3>1
  <2>2. CASE ~(m < i)
    <3>1. m - 1 \in DOMAIN u /\ ~(m - 1 < i) /\ (m - 1) + 1 = m
      BY <1>2, <1>6, <2>2
    <3>2. u[m - 1] = s[(m - 1) + 1]
      BY <1>4, <3>1
    <3> QED BY <3>1, <3>2
  <2> QED BY <2>1, <2>2
<1>7. ASSUME NEW k \in DOMAIN u, NEW l \in DOMAIN u, k # l
      PROVE  \E m, n \in DOMAIN s : m # n /\ u[k] = s[m] /\ u[l] = s[n]
  <2>1. k \in Int /\ l \in Int /\ i \in Int
    BY <1>2
  <2>2. CASE k < i /\ l < i
    BY <1>3, <1>7, <2>2
  <2>3. CASE k < i /\ ~(l < i)
    <3>1. k # l + 1
      BY <2>1, <2>3
    <3> QED BY <1>3, <1>4, <2>3, <3>1
  <2>4. CASE ~(k < i) /\ l < i
    <3>1. k + 1 # l
      BY <2>1, <2>4
    <3> QED BY <1>3, <1>4, <2>4, <3>1
  <2>5. CASE ~(k < i) /\ ~(l < i)
    <3>1. k + 1 # l + 1
      BY <1>7, <2>1
    <3> QED BY <1>4, <2>5, <3>1
  <2> QED BY <2>2, <2>3, <2>4, <2>5
<1>8. AllBut(u, s, i)
  BY <1>5, <1>6, <1>7 DEF AllBut
<1> QED BY <1>1, <1>8 DEF u

(* Taking out a job's task, or its channel, leaves all the others.         *)
LEMMA TaskTakenOut ==
  ASSUME tasks \in Seq(Task), NEW j \in TaskJobs, NEW ts, ts = TasksWithout(j),
         \A i, k \in DOMAIN tasks : tasks[i].job = tasks[k].job => i = k
  PROVE  /\ ts \in Seq(Task)
         /\ {ts[i].job : i \in DOMAIN ts} = TaskJobs \ {j}
         /\ \A i, k \in DOMAIN ts : ts[i].job = ts[k].job => i = k
<1> DEFINE S == {i \in DOMAIN tasks : tasks[i].job = j}
<1>1. PICK n \in DOMAIN tasks : tasks[n].job = j
  BY DEF TaskJobs
<1>2. S = {n}
  BY <1>1
<1>3. ts = Unlinked(tasks, {n})
  BY <1>2 DEF TasksWithout
<1> HIDE DEF S
<1>8. ts \in Seq(Task) /\ AllBut(ts, tasks, n)
  BY <1>3, UnlinkedImage
<1>4. /\ \A k \in DOMAIN ts : \E m \in DOMAIN tasks : m # n /\ ts[k] = tasks[m]
      /\ \A m \in DOMAIN tasks : m # n => \E k \in DOMAIN ts : ts[k] = tasks[m]
      /\ \A k, l \in DOMAIN ts : k # l =>
           \E m, o \in DOMAIN tasks : m # o /\ ts[k] = tasks[m] /\ ts[l] = tasks[o]
  BY <1>8 DEF AllBut
<1>5. \A x \in {ts[i].job : i \in DOMAIN ts} : x \in TaskJobs \ {j}
  BY <1>1, <1>4 DEF TaskJobs
<1>6. \A x \in TaskJobs \ {j} : x \in {ts[i].job : i \in DOMAIN ts}
  BY <1>1, <1>4 DEF TaskJobs
<1>7. ASSUME NEW i \in DOMAIN ts, NEW k \in DOMAIN ts, ts[i].job = ts[k].job, i # k
      PROVE  FALSE
  <2>1. PICK m \in DOMAIN tasks, o \in DOMAIN tasks :
          m # o /\ ts[i] = tasks[m] /\ ts[k] = tasks[o]
    BY <1>4, <1>7
  <2> QED BY <1>7, <2>1
<1> QED BY <1>8, <1>5, <1>6, <1>7

LEMMA ChannelTakenOut ==
  ASSUME channels \in Seq(Jobs), NEW j, NEW cs, cs = ChannelsWithout(j),
         \A i, k \in DOMAIN channels : channels[i] = channels[k] => i = k
  PROVE  /\ cs \in Seq(Jobs)
         /\ ToSet(cs) = ToSet(channels) \ {j}
         /\ \A i, k \in DOMAIN cs : cs[i] = cs[k] => i = k
<1> DEFINE S == {i \in DOMAIN channels : channels[i] = j}
<1>1. CASE S = {}
  <2>1. cs = channels
    BY <1>1 DEF ChannelsWithout, Unlinked
  <2>2. j \notin ToSet(channels)
    BY <1>1 DEF ToSet
  <2> QED BY <2>1, <2>2
<1>2. CASE S # {}
  <2>1. PICK n \in DOMAIN channels : channels[n] = j
    BY <1>2
  <2>2. S = {n}
    BY <2>1
  <2>3. cs = Unlinked(channels, {n})
    BY <2>2 DEF ChannelsWithout
  <2> HIDE DEF S
  <2>8. cs \in Seq(Jobs) /\ AllBut(cs, channels, n)
    BY <2>3, UnlinkedImage
  <2>4. /\ \A k \in DOMAIN cs : \E m \in DOMAIN channels : m # n /\ cs[k] = channels[m]
        /\ \A m \in DOMAIN channels : m # n => \E k \in DOMAIN cs : cs[k] = channels[m]
        /\ \A k, l \in DOMAIN cs : k # l =>
             \E m, o \in DOMAIN channels :
               m # o /\ cs[k] = channels[m] /\ cs[l] = channels[o]
    BY <2>8 DEF AllBut
  <2>5. \A x \in ToSet(cs) : x \in ToSet(channels) \ {j}
    BY <2>1, <2>4 DEF ToSet
  <2>6. \A x \in ToSet(channels) \ {j} : x \in ToSet(cs)
    BY <2>1, <2>4 DEF ToSet
  <2>7. \A i, k \in DOMAIN cs : cs[i] = cs[k] => i = k
    BY <2>4
  <2> QED BY <2>5, <2>6, <2>7, <2>8
<1> QED BY <1>1, <1>2

(* An entry put before the others.                                         *)
LEMMA Prepended ==
  ASSUME NEW T, NEW s \in Seq(T), NEW x \in T, NEW u, u = <<x>> \o s
  PROVE  /\ u \in Seq(T) /\ DOMAIN u = 1 .. Len(s) + 1 /\ u[1] = x
         /\ \A i \in DOMAIN s : u[i + 1] = s[i]
         /\ \A i \in DOMAIN u : i # 1 => i - 1 \in DOMAIN s /\ u[i] = s[i - 1]
<1>1. u \in Seq(T) /\ Len(u) = Len(s) + 1
  BY ConcatProperties
<1>2. \A i \in 1 .. Len(s) + 1 : u[i] = IF i = 1 THEN x ELSE s[i - 1]
  OBVIOUS
<1>3. DOMAIN s = 1 .. Len(s) /\ DOMAIN u = 1 .. Len(u) /\ Len(s) \in Nat
  BY <1>1, LenProperties
<1>4. \A i \in DOMAIN s : u[i + 1] = s[i]
  BY <1>2, <1>3
<1>5. \A i \in DOMAIN u : i # 1 => i - 1 \in DOMAIN s /\ u[i] = s[i - 1]
  BY <1>1, <1>2, <1>3
<1> QED BY <1>1, <1>2, <1>3, <1>4, <1>5

-----------------------------------------------------------------------------
(* The loops.                                                              *)

(* The frames stay what they are; only what they have to serve changes.    *)
SameLoops ==
  /\ DOMAIN stack' = DOMAIN stack
  /\ \A i \in DOMAIN stack : /\ stack'[i].kind = stack[i].kind
                             /\ stack'[i].job = stack[i].job
                             /\ stack'[i].to = stack[i].to
SameDialogs(j) ==
  /\ Dialogs(j)' = Dialogs(j)
  /\ \A i \in Dialogs(j) : /\ stack'[i].kind = stack[i].kind
                           /\ stack'[i].to = stack[i].to
                           /\ i \in DOMAIN stack'

LEMMA LoopsKeepDialogs ==
  ASSUME SameLoops, NEW j PROVE SameDialogs(j)
<1>1. Dialogs(j)' = Dialogs(j)
  BY DEF SameLoops, Dialogs
<1> QED BY <1>1 DEF SameLoops, SameDialogs, Dialogs

LEMMA TopIsTyped ==
  ASSUME LoopsTyped
  PROVE  /\ Len(stack) \in Nat \ {0} /\ DOMAIN stack = 1 .. Len(stack)
         /\ Top = stack[Len(stack)] /\ Top \in FrameSet
<1>1. Len(stack) \in Nat /\ DOMAIN stack = 1 .. Len(stack) /\ Len(stack) # 0
  BY LenProperties, EmptySeq DEF LoopsTyped
<1>2. Top = stack[Len(stack)]
  BY DEF Top, Last
<1> QED BY <1>1, <1>2, ElementOfSeq DEF LoopsTyped

LEMMA TopIsSet ==
  ASSUME LoopsTyped, NEW f \in FrameSet, stack' = SetTop(f),
         f.kind = Top.kind, f.job = Top.job, f.to = Top.to
  PROVE  /\ SameLoops
         /\ stack' \in Seq(FrameSet) /\ stack' # <<>> /\ Len(stack') = Len(stack)
         /\ stack'[Len(stack)] = f
         /\ \A i \in DOMAIN stack : i # Len(stack) => stack'[i] = stack[i]
<1> DEFINE n == Len(stack)
           b == SubSeq(stack, 1, n - 1)
<1>1. n \in Nat \ {0} /\ DOMAIN stack = 1 .. n /\ Top = stack[n]
  BY TopIsTyped
<1>2. b \in Seq(FrameSet) /\ Len(b) = n - 1 /\ \A i \in 1 .. n - 1 : b[i] = stack[i]
  BY <1>1, SubSeqProperties DEF LoopsTyped
<1>3. stack' = Append(b, f)
  BY DEF SetTop, Front
<1> HIDE DEF b
<1>4. /\ stack' \in Seq(FrameSet) /\ stack' # <<>> /\ Len(stack') = n
      /\ \A i \in 1 .. n - 1 : stack'[i] = b[i]
      /\ stack'[n] = f
  <2>1. (n - 1) + 1 = n
    BY <1>1
  <2>2. /\ Append(b, f) \in Seq(FrameSet) /\ Append(b, f) # <<>>
        /\ Len(Append(b, f)) = Len(b) + 1
        /\ \A i \in 1 .. Len(b) : Append(b, f)[i] = b[i]
        /\ Append(b, f)[Len(b) + 1] = f
    BY <1>2, AppendProperties
  <2> QED BY <1>2, <1>3, <2>1, <2>2
<1>5. DOMAIN stack' = 1 .. n
  BY <1>4, LenProperties
<1>6. \A i \in DOMAIN stack : i # n => stack'[i] = stack[i]
  BY <1>1, <1>2, <1>4
<1>7. SameLoops
  BY <1>1, <1>4, <1>5, <1>6 DEF SameLoops
<1> QED BY <1>4, <1>6, <1>7

LEMMA LoopIsPushed ==
  ASSUME LoopsTyped, NEW f \in FrameSet, stack' = Append(stack, f)
  PROVE  /\ stack' \in Seq(FrameSet) /\ stack' # <<>>
         /\ Len(stack') = Len(stack) + 1
         /\ stack'[Len(stack) + 1] = f
         /\ \A i \in DOMAIN stack : i \in DOMAIN stack' /\ stack'[i] = stack[i]
<1>1. Len(stack) \in Nat \ {0} /\ DOMAIN stack = 1 .. Len(stack)
  BY TopIsTyped
<1>2. /\ stack' \in Seq(FrameSet) /\ stack' # <<>>
      /\ Len(stack') = Len(stack) + 1
      /\ \A i \in 1 .. Len(stack) : stack'[i] = stack[i]
      /\ stack'[Len(stack) + 1] = f
  BY <1>1, AppendProperties DEF LoopsTyped
<1>3. DOMAIN stack' = 1 .. Len(stack) + 1
  BY <1>2, LenProperties
<1> QED BY <1>1, <1>2, <1>3

LEMMA PushedDialogs ==
  ASSUME LoopsTyped, NEW f \in FrameSet, stack' = Append(stack, f), NEW j
  PROVE  /\ (f.kind \in {"error", "recursive"} /\ f.job = j) =>
              Dialogs(j)' = Dialogs(j) \cup {Len(stack) + 1}
         /\ ~(f.kind \in {"error", "recursive"} /\ f.job = j) => SameDialogs(j)
<1>1. /\ stack' \in Seq(FrameSet) /\ Len(stack') = Len(stack) + 1
      /\ stack'[Len(stack) + 1] = f
      /\ \A i \in DOMAIN stack : i \in DOMAIN stack' /\ stack'[i] = stack[i]
  BY LoopIsPushed
<1>2. /\ Len(stack) \in Nat \ {0} /\ DOMAIN stack = 1 .. Len(stack)
      /\ DOMAIN stack' = 1 .. Len(stack) + 1
  BY <1>1, TopIsTyped, LenProperties
<1>3. \A i \in DOMAIN stack' : i \in DOMAIN stack \/ i = Len(stack) + 1
  BY <1>2
<1>4. ASSUME f.kind \in {"error", "recursive"}, f.job = j
      PROVE  Dialogs(j)' = Dialogs(j) \cup {Len(stack) + 1}
  <2>1. Len(stack) + 1 \in DOMAIN stack'
    BY <1>2
  <2> QED BY <1>1, <1>3, <1>4, <2>1 DEF Dialogs
<1>5. ASSUME ~(f.kind \in {"error", "recursive"} /\ f.job = j)
      PROVE  SameDialogs(j)
  <2>1. Dialogs(j)' = Dialogs(j)
    BY <1>1, <1>3, <1>5 DEF Dialogs
  <2> QED BY <1>1, <2>1 DEF SameDialogs, Dialogs
<1> QED BY <1>4, <1>5

LEMMA LeftFrame ==
  ASSUME NEW f \in FrameSet, NEW b \in SUBSET Jobs
  PROVE  /\ Left(f, b) \in FrameSet
         /\ Left(f, b).kind = f.kind /\ Left(f, b).job = f.job
         /\ Left(f, b).to = f.to /\ Left(f, b).bits = b
<1> DEFINE g == [f EXCEPT !.bits = b]
           s == f.static /\ b # {}
<1>1. /\ g \in FrameSet /\ g.kind = f.kind /\ g.job = f.job /\ g.to = f.to
      /\ g.bits = b /\ g.static = f.static
  BY DEF FrameSet
<1>2. s \in BOOLEAN
  BY DEF FrameSet
<1>3. Left(f, b) = [g EXCEPT !.static = s]
  BY <1>1, Zenon DEF Left
<1> HIDE DEF g, s
<1> QED BY <1>1, <1>2, <1>3 DEF FrameSet

(* The innermost loop ends.                                                *)
Closed ==
  /\ stack' \in Seq(FrameSet) /\ stack' # <<>> /\ Len(stack') = Len(stack) - 1
  /\ \A i \in DOMAIN stack : i # Len(stack) =>
       /\ i \in DOMAIN stack'
       /\ stack'[i].kind = stack[i].kind /\ stack'[i].job = stack[i].job
       /\ stack'[i].to = stack[i].to
       /\ stack'[i].bits \subseteq stack[i].bits

LEMMA FrontOfLoops ==
  ASSUME NEW s \in Seq(FrameSet), Len(s) # 0
  PROVE  /\ Front(s) \in Seq(FrameSet) /\ Len(Front(s)) = Len(s) - 1
         /\ \A i \in 1 .. Len(s) - 1 : Front(s)[i] = s[i]
<1>1. Len(s) \in Nat
  BY LenProperties
<1> QED BY <1>1, SubSeqProperties DEF Front

LEMMA LoopIsClosed ==
  ASSUME LoopsTyped, Len(stack) >= 2,
         stack' = Front(stack) \/ stack' = Popped
  PROVE  Closed
<1> DEFINE n == Len(stack)
           a == Front(stack)
           below == Last(a)
           b == IF below.static THEN {} ELSE below.bits
           c == Front(a)
           f == Left(below, b)
<1>1. n \in Nat \ {0} /\ DOMAIN stack = 1 .. n /\ n >= 2 /\ stack \in Seq(FrameSet)
  BY TopIsTyped DEF LoopsTyped
<1>2. a \in Seq(FrameSet) /\ Len(a) = n - 1 /\ \A i \in 1 .. n - 1 : a[i] = stack[i]
  BY <1>1, FrontOfLoops
<1>3. below = stack[n - 1] /\ below \in FrameSet
  <2> HIDE DEF a
  <2>1. below = a[n - 1] /\ n - 1 \in 1 .. Len(a) /\ n - 1 \in 1 .. n
    BY <1>1, <1>2 DEF Last
  <2>2. a[n - 1] = stack[n - 1]
    BY <1>1, <1>2, <2>1
  <2>3. stack[n - 1] \in FrameSet
    BY <1>1, <2>1, ElementOfSeq
  <2> HIDE DEF below
  <2> QED BY <2>1, <2>2, <2>3
<1>4. CASE stack' = Front(stack)
  <2> HIDE DEF below, b, c, f
  <2>1. /\ stack' \in Seq(FrameSet) /\ Len(stack') = n - 1
        /\ \A i \in 1 .. n - 1 : stack'[i] = stack[i]
    BY <1>2, <1>4
  <2>2. stack' # <<>> /\ DOMAIN stack' = 1 .. n - 1
    BY <1>1, <2>1, LenProperties, EmptySeq
  <2>3. \A i \in DOMAIN stack : i # n => i \in 1 .. n - 1
    BY <1>1
  <2> QED BY <2>1, <2>2, <2>3 DEF Closed
<1>5. CASE stack' = Popped
  <2>1. c \in Seq(FrameSet) /\ Len(c) = n - 2 /\ \A i \in 1 .. n - 2 : c[i] = stack[i]
    <3> HIDE DEF a
    <3>3. Len(a) # 0 /\ Len(a) - 1 = n - 2
      BY <1>1, <1>2
    <3>1. /\ c \in Seq(FrameSet) /\ Len(c) = Len(a) - 1
          /\ \A i \in 1 .. Len(a) - 1 : c[i] = a[i]
      BY <1>2, <3>3, FrontOfLoops
    <3>2. \A i \in 1 .. n - 2 : i \in 1 .. n - 1
      BY <1>1
    <3> HIDE DEF c
    <3> QED BY <3>1, <3>2, <3>3, <1>2
  <2>2. b \in SUBSET Jobs /\ b \subseteq below.bits
    BY <1>3 DEF FrameSet
  <2>3. stack' = Append(c, f)
    BY <1>5 DEF Popped
  <2> HIDE DEF a, b, c, below
  <2>4. /\ f \in FrameSet /\ f.kind = below.kind /\ f.job = below.job
        /\ f.to = below.to /\ f.bits = b
    BY <1>3, <2>2, LeftFrame
  <2> HIDE DEF f
  <2>5. (n - 2) + 1 = n - 1
    BY <1>1
  <2>6. /\ Append(c, f) \in Seq(FrameSet) /\ Append(c, f) # <<>>
        /\ Len(Append(c, f)) = Len(c) + 1
        /\ \A i \in 1 .. Len(c) : Append(c, f)[i] = c[i]
        /\ Append(c, f)[Len(c) + 1] = f
    BY <2>1, <2>4, AppendProperties
  <2>7. /\ stack' \in Seq(FrameSet) /\ stack' # <<>> /\ Len(stack') = n - 1
        /\ \A i \in 1 .. n - 2 : stack'[i] = stack[i]
        /\ stack'[n - 1] = f
    BY <2>1, <2>3, <2>5, <2>6
  <2>8. DOMAIN stack' = 1 .. n - 1
    BY <2>7, LenProperties
  <2>9. \A i \in DOMAIN stack : i # n => i \in 1 .. n - 1 /\ (i \in 1 .. n - 2 \/ i = n - 1)
    BY <1>1
  <2>10. ASSUME NEW i \in DOMAIN stack, i # n
         PROVE  /\ i \in DOMAIN stack'
                /\ stack'[i].kind = stack[i].kind /\ stack'[i].job = stack[i].job
                /\ stack'[i].to = stack[i].to
                /\ stack'[i].bits \subseteq stack[i].bits
    <3>1. CASE i \in 1 .. n - 2
      BY <2>7, <2>8, <2>9, <2>10, <3>1
    <3>2. CASE i = n - 1
      <4>1. stack'[i] = f /\ below = stack[i]
        BY <1>3, <2>7, <3>2
      <4> QED BY <2>2, <2>4, <2>8, <2>9, <2>10, <4>1
    <3> QED BY <2>9, <2>10, <3>1, <3>2
  <2> QED BY <2>7, <2>10 DEF Closed
<1> QED BY <1>4, <1>5

LEMMA ClosedDialogs ==
  ASSUME LoopsTyped, Closed, NEW j
  PROVE  /\ Dialogs(j)' = Dialogs(j) \ {Len(stack)}
         /\ Len(stack) \notin Dialogs(j) => SameDialogs(j)
<1>1. /\ Len(stack) \in Nat \ {0} /\ DOMAIN stack = 1 .. Len(stack)
      /\ DOMAIN stack' = 1 .. Len(stack) - 1
  BY TopIsTyped, LenProperties DEF Closed
<1>2. \A i \in DOMAIN stack' : i \in DOMAIN stack /\ i # Len(stack)
  BY <1>1
<1>3. Dialogs(j)' = Dialogs(j) \ {Len(stack)}
  BY <1>2 DEF Closed, Dialogs
<1>4. \A i \in Dialogs(j) : i \in DOMAIN stack
  BY DEF Dialogs
<1> QED BY <1>3, <1>4 DEF Closed, SameDialogs

-----------------------------------------------------------------------------
(* A job that a step is not about.                                         *)

Same(j) ==
  /\ proc'[j] = proc[j] /\ req'[j] = req[j] /\ all'[j] = all[j]
  /\ up'[j] = up[j] /\ down'[j] = down[j]
  /\ j \in lost' <=> j \in lost
  /\ j \in saidAll' => j \in saidAll
  /\ j \in TaskJobs' <=> j \in TaskJobs
  /\ j \in ToSet(channels)' <=> j \in ToSet(channels)
  /\ Rd(j)' <=> Rd(j)
  /\ Rd(j) => reading'.kind = reading.kind
  /\ reading'.job = j => reading.job = j \/ j \in ToSet(channels)
  /\ SameDialogs(j)

LEMMA SamePlace ==
  ASSUME NEW j, NEW p, Same(j), Place(j, p) PROVE Place(j, p)'
<1>1. CASE Quiet(j, p)
  BY <1>1 DEF Same, SameDialogs, Quiet, Place
<1>2. CASE InPipe(j, p)
  BY <1>2 DEF Same, SameDialogs, InPipe, Place, HalfOf
<1>3. CASE Shown(j, p)
  BY <1>3 DEF Same, SameDialogs, Shown, Place
<1>4. CASE Answered(j, p)
  BY <1>4 DEF Same, SameDialogs, Answered, Place
<1> QED BY <1>1, <1>2, <1>3, <1>4 DEF Place

LEMMA SameFollowed ==
  ASSUME NEW j, Same(j), Followed(j) PROVE Followed(j)'
<1>1. Dropped(j)' <=> Dropped(j)
  BY DEF Same, Dropped
<1>2. CASE Dropped(j)
  <2>1. Unheard(j)
    BY <1>2 DEF Followed
  <2>2. Unheard(j)'
    BY <2>1 DEF Unheard, Same, SameDialogs
  <2> QED BY <1>1, <1>2, <2>2 DEF Followed
<1>3. CASE ~Dropped(j)
  <2>1. PICK p \in States : Place(j, p) /\ Listed(j, p) /\ Was(j, p)
    BY <1>3 DEF Followed
  <2>2. Place(j, p)'
    BY <2>1, SamePlace
  <2>3. Listed(j, p)'
    BY <2>1 DEF Listed, Ended, Same
  <2>4. Was(j, p)'
    BY <2>1 DEF Was, Same
  <2> QED BY <1>1, <1>3, <2>2, <2>3, <2>4 DEF Followed
<1> QED BY <1>2, <1>3

LEMMA SameSettled ==
  ASSUME NEW j, Same(j), Settled(j) PROVE Settled(j)'
<1>1. Dropped(j)' <=> Dropped(j)
  BY DEF Same, Dropped
<1> QED BY <1>1 DEF Same, SameDialogs, Settled

-----------------------------------------------------------------------------
(* The steps of the jobs.                                                  *)

LEMMA ListedAreJobs ==
  ASSUME ListsTyped PROVE TaskJobs \subseteq Jobs /\ ToSet(channels) \subseteq Jobs
<1>1. \A i \in DOMAIN tasks : tasks[i] \in Task
  BY ElementOfSeq, LenProperties DEF ListsTyped
<1>2. \A i \in DOMAIN channels : channels[i] \in Jobs
  BY ElementOfSeq, LenProperties DEF ListsTyped
<1> QED BY <1>1, <1>2 DEF TaskJobs, Task, ToSet

LEMMA McUnmoved ==
  ASSUME IInv, UNCHANGED mc
  PROVE  /\ ListsTyped' /\ LoopsTyped' /\ Shape' /\ TaskJobs' = TaskJobs
         /\ \A x \in Jobs : /\ Served(x)' /\ SameDialogs(x)
                            /\ (Rd(x))' <=> Rd(x)
<1>1. /\ stack' = stack /\ reading' = reading /\ tasks' = tasks
      /\ channels' = channels
  BY DEF mc
<1>2. ListsTyped' /\ LoopsTyped' /\ Shape' /\ TaskJobs' = TaskJobs
  BY <1>1 DEF IInv, Typed, ListsTyped, LoopsTyped, Shape, TaskJobs
<1>3. ASSUME NEW x \in Jobs
      PROVE  Dialogs(x)' = Dialogs(x) /\ (Rd(x)' <=> Rd(x))
  BY <1>1 DEF Dialogs, Rd
<1>4. \A x \in Jobs : SameDialogs(x)
  BY <1>1, <1>3 DEF SameDialogs, Dialogs
<1>5. ASSUME NEW x \in Jobs PROVE Served(x)'
  BY <1>1, <1>3 DEF IInv, Served
<1> QED BY <1>2, <1>3, <1>4, <1>5

(* Only the job itself moves, in a pipe of its own.                        *)
Moves(j) ==
  /\ UNCHANGED mc
  /\ \A x \in Jobs : x # j =>
       /\ proc'[x] = proc[x] /\ req'[x] = req[x] /\ all'[x] = all[x]
       /\ up'[x] = up[x] /\ down'[x] = down[x]
       /\ x \in lost' <=> x \in lost
       /\ x \in saidAll' <=> x \in saidAll
  /\ proc[j] # "unborn" => proc'[j] # "unborn"
  /\ JobsTyped' /\ PipesTyped'

LEMMA JobMoves ==
  ASSUME IInv, NEW j \in Jobs, Moves(j), Followed(j)', Settled(j)'
  PROVE  IInv'
<1>1. /\ ListsTyped' /\ LoopsTyped' /\ Shape' /\ TaskJobs' = TaskJobs
      /\ \A x \in Jobs : Served(x)' /\ SameDialogs(x) /\ (Rd(x)' <=> Rd(x))
  BY McUnmoved DEF Moves
<1>2. /\ tasks' = tasks /\ channels' = channels /\ reading' = reading
      /\ ToSet(channels)' = ToSet(channels)
  BY DEF Moves, mc
<1>3. ASSUME NEW x \in Jobs, x # j PROVE Followed(x)' /\ Settled(x)'
  <2>1. Same(x)
    BY <1>1, <1>2, <1>3 DEF Moves, Same
  <2> QED BY <2>1, SameFollowed, SameSettled DEF IInv
<1>4. Once'
  <2>1. \A x \in TaskJobs \cup ToSet(channels) : x \in Jobs /\ proc[x] # "unborn"
    BY ListedAreJobs DEF IInv, Once, Typed
  <2>2. \A x \in TaskJobs \cup ToSet(channels) : proc'[x] # "unborn"
    BY <2>1 DEF Moves
  <2>3. Once
    BY DEF IInv
  <2> QED BY <1>1, <1>2, <2>2, <2>3 DEF Once
<1>5. Typed'
  BY <1>1 DEF Typed, Moves
<1> QED BY <1>1, <1>3, <1>4, <1>5 DEF IInv

LEMMA AskKeeps ==
  ASSUME IInv, NEW j \in Jobs, NEW kind \in Kinds, AskAs(j, kind),
         asked' \in [Jobs -> Nat], \A x \in Jobs : asked'[x] <= MaxAsks[x]
  PROVE  IInv'
<1> DEFINE h == [part |-> "head", kind |-> kind, all |-> all[j]]
<1>1. /\ proc \in [Jobs -> States] /\ req \in [Jobs -> Kinds]
      /\ all \in [Jobs -> BOOLEAN] /\ up \in [Jobs -> Seq(Half)]
  BY DEF IInv, Typed, JobsTyped, PipesTyped, States
<1>2. /\ proc[j] = "working" /\ proc' = [proc EXCEPT ![j] = "asking"]
      /\ req' = [req EXCEPT ![j] = kind]
      /\ up' = [up EXCEPT ![j] = Append(up[j], h)]
  BY DEF AskAs
<1>3. /\ all' = all /\ stopped' = stopped /\ down' = down /\ UNCHANGED mc
      /\ lost' = lost /\ saidAll' = saidAll
  BY DEF AskAs
<1>4. h \in Half
  BY <1>1 DEF Half
<1> HIDE DEF h
<1>5. /\ proc' \in [Jobs -> States] /\ req' \in [Jobs -> Kinds]
      /\ up' \in [Jobs -> Seq(Half)]
  BY <1>1, <1>2, <1>4 DEF States
<1>6. /\ proc'[j] = "asking" /\ req'[j] = kind /\ up'[j] = Append(up[j], h)
      /\ \A x \in Jobs : x # j =>
           proc'[x] = proc[x] /\ req'[x] = req[x] /\ up'[x] = up[x]
  BY <1>1, <1>2
<1>7. Moves(j)
  <2>1. JobsTyped' /\ PipesTyped'
    BY <1>3, <1>5 DEF IInv, Typed, JobsTyped, PipesTyped, States, mc
  <2> QED BY <1>3, <1>6, <2>1 DEF Moves
<1>8. /\ TaskJobs' = TaskJobs /\ SameDialogs(j) /\ (Rd(j)' <=> Rd(j))
      /\ reading' = reading /\ ToSet(channels)' = ToSet(channels)
  BY <1>3, McUnmoved DEF mc
<1>9. Dropped(j)' <=> Dropped(j)
  BY <1>3, <1>8 DEF Dropped
<1>10. CASE Dropped(j)
  <2>1. Unheard(j)
    BY <1>10 DEF IInv, Followed
  <2>2. Unheard(j)'
    BY <1>2, <1>6, <1>8, <2>1 DEF Unheard, SameDialogs
  <2>3. Followed(j)' /\ Settled(j)'
    BY <1>9, <1>10, <2>2 DEF Followed, Settled
  <2> QED BY <1>7, <2>3, JobMoves
<1>11. CASE ~Dropped(j)
  <2>1. PICK p \in States : Place(j, p) /\ Listed(j, p) /\ Was(j, p)
    BY <1>11 DEF IInv, Followed
  <2>2. p = "working" /\ j \notin lost
    BY <1>2, <2>1 DEF Was
  <2>3. Quiet(j, p)
    BY <2>1, <2>2 DEF Place, InPipe, Shown, Answered
  <2>4. up'[j] = <<h>>
    BY <1>6, <2>3 DEF Quiet
  <2>5. h = HalfOf(j, "head")'
    BY <1>3, <1>6 DEF HalfOf, h
  <2>6. InPipe(j, "asking")'
    <3>1. /\ Dialogs(j)' = {} /\ down'[j] = <<>> /\ ~Rd(j)'
          /\ up'[j] = <<HalfOf(j, "head")'>>
      BY <1>3, <1>8, <2>3, <2>4, <2>5 DEF Quiet, SameDialogs
    <3> QED BY <3>1 DEF InPipe
  <2>7. Listed(j, "asking")'
    BY <1>8, <2>1, <2>2 DEF Listed, Ended
  <2>8. Was(j, "asking")'
    BY <1>3, <1>6, <2>2 DEF Was
  <2>9. Followed(j)'
    BY <1>9, <1>11, <2>6, <2>7, <2>8 DEF Followed, Place, States
  <2>10. Settled(j)'
    <3>1. j \in saidAll => all[j]
      BY <1>11, <2>3 DEF IInv, Settled, Quiet
    <3> QED BY <1>3, <1>8, <2>3, <3>1 DEF Settled, Quiet, SameDialogs
  <2> QED BY <1>7, <2>9, <2>10, JobMoves
<1> QED BY <1>10, <1>11

LEMMA TwoHalves ==
  ASSUME NEW a, NEW b
  PROVE  Append(<<a>>, b) = <<a, b>> /\ Append(<<>>, b) = <<b>>
<1> DEFINE T == {a, b}
           s == Append(<<a>>, b)
<1>1. <<a>> \in Seq(T) /\ <<a, b>> \in Seq(T) /\ a \in T /\ b \in T
  OBVIOUS
<1>2. Len(<<a>>) = 1 /\ Len(<<a, b>>) = 2
  OBVIOUS
<1>3. s \in Seq(T) /\ Len(s) = 2 /\ s[2] = b /\ s[1] = <<a>>[1]
  BY <1>1, <1>2, AppendProperties
<1>4. \A i \in 1 .. 2 : s[i] = <<a, b>>[i]
  <2> HIDE DEF s
  <2>1. s[1] = <<a, b>>[1] /\ s[2] = <<a, b>>[2]
    BY <1>3
  <2>2. \A i \in 1 .. 2 : i = 1 \/ i = 2
    OBVIOUS
  <2> QED BY <2>1, <2>2
<1>5. s = <<a, b>>
  <2> HIDE DEF s, T
  <2> QED BY <1>1, <1>2, <1>3, <1>4, SeqEqual
<1>6. Append(<<>>, b) = <<b>>
  OBVIOUS
<1> QED BY <1>5, <1>6

LEMMA TwoHalvesTail ==
  ASSUME NEW a, NEW b
  PROVE  /\ Head(<<a>>) = a /\ Head(<<a, b>>) = a
         /\ Tail(<<a>>) = <<>> /\ Tail(<<a, b>>) = <<b>>
OBVIOUS

LEMMA WriteRestKeeps ==
  ASSUME IInv, NEW j \in Jobs, WriteRest(j)
  PROVE  IInv'
<1> DEFINE h == [part |-> "body", kind |-> req[j], all |-> all[j]]
<1>1. /\ proc \in [Jobs -> States] /\ req \in [Jobs -> Kinds]
      /\ all \in [Jobs -> BOOLEAN] /\ up \in [Jobs -> Seq(Half)]
  BY DEF IInv, Typed, JobsTyped, PipesTyped, States
<1>2. /\ proc[j] = "asking" /\ proc' = [proc EXCEPT ![j] = "waiting"]
      /\ up' = [up EXCEPT ![j] = Append(up[j], h)]
  BY DEF WriteRest
<1>3. /\ all' = all /\ stopped' = stopped /\ down' = down /\ UNCHANGED mc
      /\ lost' = lost /\ saidAll' = saidAll /\ asked' = asked /\ req' = req
  BY DEF WriteRest
<1>4. h \in Half
  BY <1>1 DEF Half
<1> HIDE DEF h
<1>5. proc' \in [Jobs -> States] /\ up' \in [Jobs -> Seq(Half)]
  BY <1>1, <1>2, <1>4 DEF States
<1>6. /\ proc'[j] = "waiting" /\ up'[j] = Append(up[j], h)
      /\ \A x \in Jobs : x # j => proc'[x] = proc[x] /\ up'[x] = up[x]
  BY <1>1, <1>2
<1>7. Moves(j)
  <2>1. JobsTyped' /\ PipesTyped'
    BY <1>3, <1>5 DEF IInv, Typed, JobsTyped, PipesTyped, States, mc
  <2> QED BY <1>3, <1>6, <2>1 DEF Moves
<1>8. /\ TaskJobs' = TaskJobs /\ SameDialogs(j) /\ (Rd(j)' <=> Rd(j))
      /\ reading' = reading /\ ToSet(channels)' = ToSet(channels)
  BY <1>3, McUnmoved DEF mc
<1>9. Dropped(j)' <=> Dropped(j)
  BY <1>3, <1>8 DEF Dropped
<1>10. Settled(j)'
  BY <1>3, <1>8, <1>9 DEF IInv, Settled, SameDialogs
<1>11. CASE Dropped(j)
  <2>1. Unheard(j)
    BY <1>11 DEF IInv, Followed
  <2>2. Unheard(j)'
    BY <1>2, <1>6, <1>8, <2>1 DEF Unheard, SameDialogs
  <2>3. Followed(j)'
    BY <1>9, <1>11, <2>2 DEF Followed
  <2> QED BY <1>7, <1>10, <2>3, JobMoves
<1>12. CASE ~Dropped(j)
  <2>1. PICK p \in States : Place(j, p) /\ Listed(j, p) /\ Was(j, p)
    BY <1>12 DEF IInv, Followed
  <2>2. p = "asking" /\ j \notin lost
    BY <1>2, <2>1 DEF Was
  <2>3. InPipe(j, p)
    BY <2>1, <2>2 DEF Place, Quiet, Shown, Answered
  <2>4. h = HalfOf(j, "body")' /\ HalfOf(j, "head")' = HalfOf(j, "head")
    BY <1>3 DEF HalfOf, h
  <2>5. \/ up[j] = <<HalfOf(j, "head")>> /\ ~Rd(j)
        \/ up[j] = <<>> /\ Rd(j)
    BY <2>2, <2>3 DEF InPipe
  <2> HIDE DEF HalfOf
  <2>6. \/ up'[j] = <<HalfOf(j, "head")', HalfOf(j, "body")'>> /\ ~Rd(j)'
        \/ up'[j] = <<HalfOf(j, "body")'>> /\ Rd(j)'
    <3> DEFINE g == HalfOf(j, "head")
    <3>1. Append(<<g>>, h) = <<g, h>> /\ Append(<<>>, h) = <<h>>
      BY TwoHalves
    <3> HIDE DEF g
    <3>2. \/ up'[j] = <<g, h>> /\ ~Rd(j)'
          \/ up'[j] = <<h>> /\ Rd(j)'
      BY <1>6, <1>8, <2>5, <3>1 DEF g
    <3> QED BY <2>4, <3>2 DEF g
  <2>7. InPipe(j, "waiting")'
    <3>1. /\ Dialogs(j)' = {} /\ down'[j] = <<>>
          /\ Rd(j)' => reading'.kind = req'[j]
      BY <1>3, <1>8, <2>3 DEF InPipe, SameDialogs
    <3> QED BY <2>6, <3>1 DEF InPipe
  <2>8. Listed(j, "waiting")'
    BY <1>3, <1>8, <2>1, <2>2, <2>3 DEF Listed, Ended, InPipe
  <2>9. Was(j, "waiting")'
    BY <1>3, <1>6, <2>2 DEF Was
  <2>10. Followed(j)'
    BY <1>9, <1>12, <2>7, <2>8, <2>9 DEF Followed, Place, States
  <2> QED BY <1>7, <1>10, <2>10, JobMoves
<1> QED BY <1>11, <1>12

LEMMA ReceiveKeeps ==
  ASSUME IInv, NEW j \in Jobs, Receive(j)
  PROVE  IInv'
<1> DEFINE next == IF req[j] = "end" THEN "gone" ELSE "working"
           known == IF HasCtx(req[j]) THEN Head(down[j]).all ELSE all[j]
<1>1. /\ proc \in [Jobs -> States] /\ req \in [Jobs -> Kinds]
      /\ all \in [Jobs -> BOOLEAN] /\ down \in [Jobs -> Seq([all : BOOLEAN])]
  BY DEF IInv, Typed, JobsTyped, PipesTyped, States
<1>2. /\ proc[j] = "waiting" /\ proc' = [proc EXCEPT ![j] = next]
      /\ down[j] # <<>> /\ down' = [down EXCEPT ![j] = Tail(down[j])]
      /\ req' = [req EXCEPT ![j] = "end"]
  BY DEF Receive
<1>3. /\ stopped' = stopped /\ up' = up /\ UNCHANGED mc
      /\ lost' = lost /\ saidAll' = saidAll /\ asked' = asked
  BY DEF Receive
<1>4. Head(down[j]) \in [all : BOOLEAN] /\ Tail(down[j]) \in Seq([all : BOOLEAN])
  BY <1>1, <1>2, HeadTailProperties
<1>5. all' = [all EXCEPT ![j] = known]
  <2>1. CASE HasCtx(req[j])
    BY <2>1 DEF Receive
  <2>2. CASE ~HasCtx(req[j])
    <3>1. all' = all
      BY <2>2 DEF Receive
    <3> QED BY <1>1, <2>2, <3>1
  <2> QED BY <2>1, <2>2
<1>6. known \in BOOLEAN /\ next \in {"gone", "working"}
  BY <1>1, <1>4
<1> HIDE DEF next, known
<1>7. /\ proc' \in [Jobs -> States] /\ down' \in [Jobs -> Seq([all : BOOLEAN])]
      /\ all' \in [Jobs -> BOOLEAN] /\ req' \in [Jobs -> Kinds]
  BY <1>1, <1>2, <1>4, <1>5, <1>6 DEF States, Kinds
<1>8. /\ proc'[j] = next /\ down'[j] = Tail(down[j])
      /\ \A x \in Jobs : x # j => /\ proc'[x] = proc[x] /\ req'[x] = req[x]
                                  /\ down'[x] = down[x]
  BY <1>1, <1>2
<1>9. (all'[j] = known) /\ \A x \in Jobs : x # j => all'[x] = all[x]
  BY <1>1, <1>5, Zenon
<1>10. Moves(j)
  <2>1. JobsTyped' /\ PipesTyped'
    BY <1>3, <1>7 DEF IInv, Typed, JobsTyped, PipesTyped, States, mc
  <2> QED BY <1>3, <1>6, <1>8, <1>9, <2>1 DEF Moves
<1>11. /\ TaskJobs' = TaskJobs /\ SameDialogs(j) /\ (Rd(j)' <=> Rd(j))
       /\ reading' = reading /\ ToSet(channels)' = ToSet(channels)
  BY <1>3, McUnmoved DEF mc
<1>12. Dropped(j)' <=> Dropped(j)
  BY <1>3, <1>11 DEF Dropped
<1>13. CASE Dropped(j)
  <2>1. Unheard(j)
    BY <1>13 DEF IInv, Followed
  <2>2. Unheard(j)'
    BY <1>2, <1>3, <1>6, <1>8, <1>11, <2>1 DEF Unheard, SameDialogs
  <2>3. Followed(j)' /\ Settled(j)'
    BY <1>12, <1>13, <2>2 DEF Followed, Settled
  <2> QED BY <1>10, <2>3, JobMoves
<1>14. CASE ~Dropped(j)
  <2>1. PICK p \in States : Place(j, p) /\ Listed(j, p) /\ Was(j, p)
    BY <1>14 DEF IInv, Followed
  <2>2. p = "waiting" /\ j \notin lost
    BY <1>2, <2>1 DEF Was
  <2>3. Answered(j, p)
    BY <1>2, <2>1 DEF Place, Quiet, InPipe, Shown
  <2>4. PICK v \in BOOLEAN : down[j] = <<[all |-> v]>>
    BY <2>3 DEF Answered
  <2>5. down'[j] = <<>>
    BY <1>8, <2>4
  <2>6. PICK n : n = next /\ n \in {"gone", "working"}
    BY <1>6
  <2>7. Quiet(j, n)'
    BY <1>3, <1>11, <2>3, <2>5, <2>6 DEF Quiet, Answered, SameDialogs
  <2>8. Listed(j, n)'
    <3>1. CASE req[j] = "end"
      <4>1. Ended(j, p) /\ n = "gone"
        BY <1>2, <2>2, <2>6, <3>1 DEF Ended, next
      <4> QED BY <1>11, <2>1, <4>1 DEF Listed
    <3>2. CASE req[j] # "end"
      <4>1. ~Ended(j, p) /\ n = "working"
        BY <2>6, <3>2 DEF Ended, next
      <4> QED BY <1>11, <2>1, <2>2, <4>1 DEF Listed, Ended
    <3> QED BY <3>1, <3>2
  <2>9. Was(j, n)'
    BY <1>3, <1>8, <2>2, <2>6 DEF Was
  <2>10. Followed(j)'
    BY <1>12, <1>14, <2>6, <2>7, <2>8, <2>9 DEF Followed, Place, States
  <2>11. Settled(j)'
    <3>1. ASSUME j \in saidAll PROVE all'[j]
      <4>1. CASE HasCtx(req[j])
        <5>1. down[j] = <<[all |-> TRUE]>>
          BY <1>2, <1>14, <3>1, <4>1 DEF IInv, Settled
        <5>2. Head(down[j]).all = TRUE
          BY <5>1
        <5>3. known = Head(down[j]).all
          BY <4>1 DEF known
        <5> QED BY <1>9, <5>2, <5>3
      <4>2. CASE ~HasCtx(req[j])
        <5>1. all[j]
          BY <1>14, <3>1, <4>2 DEF IInv, Settled
        <5>2. known = all[j]
          BY <4>2, Zenon DEF known
        <5> QED BY <1>9, <5>1, <5>2
      <4> QED BY <4>1, <4>2
    <3>2. Dialogs(j)' = {}
      BY <1>11, <2>3 DEF Answered, SameDialogs
    <3> QED BY <1>3, <2>5, <3>1, <3>2 DEF Settled
  <2> QED BY <1>10, <2>10, <2>11, JobMoves
<1> QED BY <1>13, <1>14

LEMMA DiesKeeps ==
  ASSUME IInv, NEW j \in Jobs, Dies(j)
  PROVE  IInv'
<1>1. /\ proc \in [Jobs -> States] /\ stopped \subseteq Jobs /\ lost \subseteq Jobs
  BY DEF IInv, Typed, JobsTyped, States
<1>2. /\ proc[j] \notin {"unborn", "gone"}
      /\ proc' = [proc EXCEPT ![j] = "gone"]
      /\ stopped' = stopped \ {j} /\ lost' = lost \cup {j}
  BY DEF Dies, Killed
<1>3. /\ all' = all /\ up' = up /\ down' = down /\ UNCHANGED mc
      /\ saidAll' = saidAll /\ asked' = asked /\ req' = req
  BY DEF Dies
<1>4. /\ proc' \in [Jobs -> States] /\ proc'[j] = "gone"
      /\ \A x \in Jobs : x # j => proc'[x] = proc[x]
  BY <1>1, <1>2 DEF States
<1>5. Moves(j)
  <2>1. JobsTyped' /\ PipesTyped'
    BY <1>1, <1>2, <1>3, <1>4 DEF IInv, Typed, JobsTyped, PipesTyped, States, mc
  <2> QED BY <1>2, <1>3, <1>4, <2>1 DEF Moves
<1>6. /\ TaskJobs' = TaskJobs /\ SameDialogs(j) /\ (Rd(j)' <=> Rd(j))
      /\ reading' = reading /\ ToSet(channels)' = ToSet(channels)
  BY <1>3, McUnmoved DEF mc
<1>7. Settled(j)'
  <2>1. Dropped(j) => Dropped(j)'
    BY <1>2, <1>6 DEF Dropped
  <2> QED BY <1>3, <1>6, <2>1 DEF IInv, Settled, SameDialogs
<1>8. CASE Dropped(j)
  <2>1. Unheard(j)
    BY <1>8 DEF IInv, Followed
  <2>2. Unheard(j)'
    BY <1>2, <1>3, <1>4, <1>6, <2>1 DEF Unheard, SameDialogs
  <2>3. Dropped(j)'
    BY <1>2, <1>6, <1>8 DEF Dropped
  <2> QED BY <1>5, <1>7, <2>2, <2>3, JobMoves DEF Followed
<1>9. CASE ~Dropped(j)
  <2>1. PICK p \in States : Place(j, p) /\ Listed(j, p) /\ Was(j, p)
    BY <1>9 DEF IInv, Followed
  <2>2. proc[j] = p /\ p \in {"working", "asking", "waiting"}
    BY <1>2, <2>1 DEF Was, States
  <2>3. Place(j, p)'
    <3>1. CASE Quiet(j, p)
      BY <1>3, <1>6, <3>1 DEF SameDialogs, Quiet, Place
    <3>2. CASE InPipe(j, p)
      BY <1>3, <1>6, <3>2 DEF SameDialogs, InPipe, Place, HalfOf
    <3>3. CASE Shown(j, p)
      BY <1>3, <1>6, <3>3 DEF SameDialogs, Shown, Place
    <3>4. CASE Answered(j, p)
      BY <1>3, <1>6, <3>4 DEF SameDialogs, Answered, Place
    <3> QED BY <2>1, <3>1, <3>2, <3>3, <3>4 DEF Place
  <2>4. Listed(j, p)'
    BY <1>3, <1>6, <2>1 DEF Listed, Ended
  <2>5. Was(j, p)'
    BY <1>2, <1>4, <2>2 DEF Was
  <2>6. Followed(j)'
    <3>1. CASE Dropped(j)'
      <4>1. Ended(j, p)
        BY <1>6, <2>1, <2>2, <3>1 DEF Dropped, Listed
      <4>2. Answered(j, p)
        BY <2>1, <4>1 DEF Ended, Place, Quiet, InPipe, Shown
      <4>3. Unheard(j)'
        BY <1>3, <1>4, <1>6, <4>2 DEF Unheard, Answered, SameDialogs
      <4> QED BY <3>1, <4>3 DEF Followed
    <3>2. CASE ~Dropped(j)'
      BY <2>3, <2>4, <2>5, <3>2 DEF Followed
    <3> QED BY <3>1, <3>2
  <2> QED BY <1>5, <1>7, <2>6, JobMoves
<1> QED BY <1>8, <1>9

-----------------------------------------------------------------------------
(* The loops of mc: what stays when a loop is only told what to serve.     *)

Reframed ==
  /\ SameLoops
  /\ stack' \in Seq(FrameSet) /\ stack' # <<>> /\ Len(stack') = Len(stack)

LEMMA ReframedShape ==
  ASSUME Shape, LoopsTyped, Reframed PROVE Shape'
<1>1. /\ Len(stack) \in Nat \ {0} /\ DOMAIN stack = 1 .. Len(stack)
      /\ Len(stack') = Len(stack)
  BY TopIsTyped DEF Reframed
<1>2. \A i \in DOMAIN stack : /\ stack'[i].kind = stack[i].kind
                              /\ stack'[i].job = stack[i].job
  BY DEF Reframed, SameLoops
<1>3. stack'[1].kind = "panels"
  BY <1>1, <1>2 DEF Shape
<1>4. \A i \in 2 .. Len(stack') : stack'[i].kind # "panels"
  BY <1>1, <1>2 DEF Shape
<1>5. \A i \in 3 .. Len(stack') : stack'[i].kind \in {"error", "recursive"}
  BY <1>1, <1>2 DEF Shape
<1>6. \A i \in DOMAIN stack' :
        stack'[i].kind \in {"error", "recursive"} => stack'[i].job \in Jobs
  BY <1>2 DEF Shape, Reframed, SameLoops
<1> QED BY <1>3, <1>4, <1>5, <1>6 DEF Shape

LEMMA ReframedServed ==
  ASSUME Reframed, NEW x, Served(x),
         \A i \in DOMAIN stack :
           x \in stack'[i].bits => x \in stack[i].bits \/ Dialogs(x) = {},
         reading'.job = x => Dialogs(x) = {}
  PROVE  Served(x)'
<1>1. Dialogs(x)' = Dialogs(x) /\ Len(stack') = Len(stack)
  BY LoopsKeepDialogs DEF Reframed, SameDialogs
<1>2. ASSUME NEW k \in Dialogs(x), NEW i \in k .. Len(stack), x \in stack'[i].bits,
             i \in DOMAIN stack
      PROVE  FALSE
  BY <1>2 DEF Served
<1>3. ASSUME NEW k \in Dialogs(x), NEW i \in k .. Len(stack) PROVE i \in DOMAIN stack
  <2>1. k \in DOMAIN stack
    BY DEF Dialogs
  <2>2. DOMAIN stack = DOMAIN stack' /\ DOMAIN stack' = 1 .. Len(stack')
    BY LenProperties DEF Reframed, SameLoops
  <2>3. Len(stack') \in Nat
    BY LenProperties DEF Reframed
  <2> QED BY <1>1, <2>1, <2>2, <2>3
<1> QED BY <1>1, <1>2, <1>3 DEF Served

(* A dialog is open for a job that waits, and has the only trace of its    *)
(* question.                                                               *)
LEMMA DialogMeans ==
  ASSUME IInv, NEW x \in Jobs, Dialogs(x) # {}
  PROVE  /\ ~Dropped(x) /\ Shown(x, "waiting") /\ Listed(x, "waiting")
         /\ Was(x, "waiting")
<1>1. ~Dropped(x)
  BY DEF IInv, Followed, Unheard
<1>2. PICK p \in States : Place(x, p) /\ Listed(x, p) /\ Was(x, p)
  BY <1>1 DEF IInv, Followed
<1>3. Shown(x, p)
  BY <1>2 DEF Place, Quiet, InPipe, Answered
<1>4. p = "waiting"
  BY <1>3 DEF Shown
<1> QED BY <1>1, <1>2, <1>3, <1>4

LEMMA SelectKeeps ==
  ASSUME IInv, Select
  PROVE  IInv'
<1>1. PICK static \in BOOLEAN :
        stack' = SetTop([Top EXCEPT !.bits = Readable, !.static = static])
  BY DEF Select
<1>2. /\ UNCHANGED <<children, stopped, up, down, tasks, channels, ctx>>
      /\ UNCHANGED <<reading, crashed, lost, saidAll>>
      /\ reading = NotReading
  BY DEF Select, InLoop, Idle
<1> DEFINE g == [Top EXCEPT !.bits = Readable]
           f == [Top EXCEPT !.bits = Readable, !.static = static]
<1>3. Readable \in SUBSET Jobs
  BY ListedAreJobs DEF Readable, IInv, Typed
<1>4. LoopsTyped
  BY DEF IInv, Typed
<1>5. Len(stack) \in Nat \ {0} /\ Top = stack[Len(stack)] /\ Top \in FrameSet
  BY <1>4, TopIsTyped
<1>6. /\ f \in FrameSet /\ f.kind = Top.kind /\ f.job = Top.job /\ f.to = Top.to
      /\ f.bits = Readable
  BY <1>3, <1>5 DEF FrameSet
<1> HIDE DEF f, g
<1>7. stack' = SetTop(f)
  BY <1>1 DEF f
<1>8. /\ Reframed /\ stack'[Len(stack)] = f
      /\ \A i \in DOMAIN stack : i # Len(stack) => stack'[i] = stack[i]
  BY <1>4, <1>6, <1>7, TopIsSet DEF Reframed
<1>9. Typed'
  BY <1>2, <1>8 DEF IInv, Typed, JobsTyped, PipesTyped, ListsTyped, LoopsTyped,
                    children, Reframed
<1>10. Once'
  BY <1>2 DEF IInv, Once, TaskJobs, children
<1>11. Shape'
  BY <1>4, <1>8, ReframedShape DEF IInv
<1>12. ASSUME NEW x \in Jobs PROVE Followed(x)' /\ Settled(x)'
  <2>1. SameDialogs(x)
    BY <1>8, LoopsKeepDialogs DEF Reframed
  <2>2. Same(x)
    BY <1>2, <2>1 DEF Same, TaskJobs, Rd, children
  <2> QED BY <2>2, SameFollowed, SameSettled DEF IInv
<1>13. ASSUME NEW x \in Jobs PROVE Served(x)'
  <2>1. reading'.job # x
    BY <1>2, BackgroundAssumption DEF NotReading
  <2>2. ASSUME x \in Readable PROVE Dialogs(x) = {}
    <3>1. up[x] # <<>>
      BY <2>2 DEF Readable
    <3> QED BY <3>1, DialogMeans DEF Shown
  <2>3. \A i \in DOMAIN stack :
          x \in stack'[i].bits => x \in stack[i].bits \/ Dialogs(x) = {}
    BY <1>6, <1>8, <2>2
  <2> QED BY <1>8, <2>1, <2>3, ReframedServed DEF IInv
<1> QED BY <1>9, <1>10, <1>11, <1>12, <1>13 DEF IInv

LEMMA CheckSelectsKeeps ==
  ASSUME IInv, CheckSelects
  PROVE  IInv'
<1> DEFINE Set == {i \in DOMAIN channels : channels[i] \in Top.bits}
<1>1. /\ UNCHANGED <<children, stopped, up, down, tasks, channels, ctx>>
      /\ UNCHANGED <<crashed, lost, saidAll>>
      /\ reading = NotReading
  BY DEF CheckSelects
<1>2. LoopsTyped
  BY DEF IInv, Typed
<1>3. /\ Len(stack) \in Nat \ {0} /\ Top = stack[Len(stack)] /\ Top \in FrameSet
      /\ DOMAIN stack = 1 .. Len(stack)
  BY <1>2, TopIsTyped
<1>4. PICK b \in SUBSET Top.bits :
        /\ stack' = SetTop(Left(Top, b))
        /\ \/ reading' = reading
           \/ \E j \in Top.bits : /\ j \in ToSet(channels)
                                  /\ reading' = [NotReading EXCEPT !.job = j]
  <2>1. CASE Set = {}
    <3>1. stack' = SetTop(Left(Top, {})) /\ reading' = reading
      BY <2>1 DEF CheckSelects
    <3> QED BY <3>1
  <2>2. CASE Set # {}
    <3> DEFINE j == channels[FirstOf(Set)]
    <3>1. /\ stack' = SetTop(Left(Top, Top.bits \ {j}))
          /\ reading' = [NotReading EXCEPT !.job = j]
      BY <2>2 DEF CheckSelects
    <3>2. Set \in SUBSET Nat
      BY LenProperties DEF IInv, Typed, ListsTyped
    <3>3. FirstOf(Set) \in Set
      <4> HIDE DEF Set
      <4> QED BY <2>2, <3>2, FirstOfIsIn
    <3>4. j \in Top.bits /\ j \in ToSet(channels)
      BY <3>3 DEF ToSet
    <3> HIDE DEF j
    <3>5. Top.bits \ {j} \in SUBSET Top.bits
      OBVIOUS
    <3> QED BY <3>1, <3>4, <3>5
  <2> QED BY <2>1, <2>2
<1> HIDE DEF Set
<1>5. b \in SUBSET Jobs
  BY <1>3 DEF FrameSet
<1> DEFINE f == Left(Top, b)
<1>6. /\ f \in FrameSet /\ f.kind = Top.kind /\ f.job = Top.job /\ f.to = Top.to
      /\ f.bits = b
  BY <1>3, <1>5, LeftFrame
<1>7. stack' = SetTop(f)
  BY <1>4
<1> HIDE DEF f
<1>8. /\ Reframed /\ stack'[Len(stack)] = f
      /\ \A i \in DOMAIN stack : i # Len(stack) => stack'[i] = stack[i]
  BY <1>2, <1>6, <1>7, TopIsSet DEF Reframed
<1>9. /\ reading' \in [job : Jobs \cup {NoJob}, part : {"head", "body"}, kind : Kinds]
      /\ reading'.part = "head"
      /\ \A x \in Jobs : reading'.job = x => x \in ToSet(channels) /\ x \in Top.bits
  <2>1. CASE reading' = reading
    BY <1>1, <1>2, <2>1, BackgroundAssumption DEF LoopsTyped, NotReading
  <2>2. ASSUME NEW j \in Top.bits, j \in ToSet(channels),
               reading' = [NotReading EXCEPT !.job = j]
        PROVE  /\ reading' \in [job : Jobs \cup {NoJob}, part : {"head", "body"},
                               kind : Kinds]
               /\ reading'.part = "head"
               /\ reading'.job = j
    <3>1. j \in Jobs
      BY <1>3, <2>2 DEF FrameSet
    <3>2. reading' = [job |-> j, part |-> "head", kind |-> "end"]
      BY <2>2 DEF NotReading
    <3>3. "end" \in Kinds
      BY DEF Kinds
    <3> QED BY <3>1, <3>2, <3>3
  <2> QED BY <1>4, <2>1, <2>2, Zenon
<1>10. Typed'
  BY <1>1, <1>8, <1>9 DEF IInv, Typed, JobsTyped, PipesTyped, ListsTyped,
                          LoopsTyped, children, Reframed
<1>11. Once'
  BY <1>1 DEF IInv, Once, TaskJobs, children
<1>12. Shape'
  BY <1>2, <1>8, ReframedShape DEF IInv
<1>13. ASSUME NEW x \in Jobs PROVE Followed(x)' /\ Settled(x)'
  <2>1. SameDialogs(x)
    BY <1>8, LoopsKeepDialogs DEF Reframed
  <2>2. ~Rd(x) /\ ~Rd(x)'
    BY <1>1, <1>9 DEF Rd, NotReading
  <2>3. Same(x)
    BY <1>1, <1>9, <2>1, <2>2 DEF Same, TaskJobs, children
  <2> QED BY <2>3, SameFollowed, SameSettled DEF IInv
<1>14. ASSUME NEW x \in Jobs PROVE Served(x)'
  <2>1. Served(x)
    BY DEF IInv
  <2>2. ASSUME x \in Top.bits PROVE Dialogs(x) = {}
    <3>1. ASSUME NEW k \in Dialogs(x) PROVE FALSE
      <4>1. k \in 1 .. Len(stack)
        BY <1>3 DEF Dialogs
      <4>2. Len(stack) \in k .. Len(stack)
        BY <1>3, <4>1
      <4> QED BY <1>3, <2>1, <2>2, <4>2 DEF Served
    <3> QED BY <3>1
  <2>3. reading'.job = x => Dialogs(x) = {}
    BY <1>9, <2>2
  <2>4. \A i \in DOMAIN stack : x \in stack'[i].bits => x \in stack[i].bits
    BY <1>3, <1>6, <1>8
  <2> QED BY <1>8, <2>1, <2>3, <2>4, ReframedServed
<1> QED BY <1>10, <1>11, <1>12, <1>13, <1>14 DEF IInv

LEMMA ReadHeadKeeps ==
  ASSUME IInv, ReadHead
  PROVE  IInv'
<1> DEFINE j == reading.job
<1>1. /\ UNCHANGED <<children, stopped, down, tasks, channels, ctx, stack>>
      /\ UNCHANGED <<crashed, lost, saidAll>>
      /\ j # NoJob /\ reading.part = "head" /\ up[j] # <<>>
      /\ reading' = [reading EXCEPT !.part = "body", !.kind = Head(up[j]).kind]
      /\ up' = [up EXCEPT ![j] = Tail(up[j])]
  BY DEF ReadHead
<1>2. /\ reading \in [job : Jobs \cup {NoJob}, part : {"head", "body"}, kind : Kinds]
      /\ up \in [Jobs -> Seq(Half)]
  BY DEF IInv, Typed, LoopsTyped, PipesTyped
<1>3. j \in Jobs
  BY <1>1, <1>2
<1>4. /\ Head(up[j]) \in Half /\ Tail(up[j]) \in Seq(Half)
  BY <1>1, <1>2, <1>3, HeadTailProperties
<1>5. /\ reading' \in [job : Jobs \cup {NoJob}, part : {"head", "body"}, kind : Kinds]
      /\ reading'.job = j /\ reading'.part = "body"
      /\ reading'.kind = Head(up[j]).kind
  BY <1>1, <1>2, <1>4 DEF Half
<1>6. up' \in [Jobs -> Seq(Half)]
  BY <1>1, <1>2, <1>4
<1>7. up'[j] = Tail(up[j]) /\ \A x \in Jobs : x # j => up'[x] = up[x]
  BY <1>1, <1>2, <1>3
<1>8. PICK n \in Jobs : n = j
  BY <1>3
<1>9. /\ reading.job = n /\ reading'.job = n /\ reading'.kind = Head(up[n]).kind
      /\ up[n] # <<>> /\ up'[n] = Tail(up[n])
      /\ \A x \in Jobs : x # n => up'[x] = up[x]
  BY <1>1, <1>5, <1>7, <1>8
<1> HIDE DEF j
<1>10. Typed'
  BY <1>1, <1>5, <1>6 DEF IInv, Typed, JobsTyped, PipesTyped, ListsTyped,
                          LoopsTyped, children
<1>11. Once'
  BY <1>1 DEF IInv, Once, TaskJobs, children
<1>12. Shape'
  BY <1>1 DEF IInv, Shape
<1>13. \A x \in Jobs : Dialogs(x)' = Dialogs(x) /\ SameDialogs(x)
  BY <1>1 DEF Dialogs, SameDialogs
<1>14. ASSUME NEW x \in Jobs PROVE Served(x)'
  BY <1>1, <1>9, <1>13 DEF IInv, Served
<1>15. ASSUME NEW x \in Jobs, x # n PROVE Followed(x)' /\ Settled(x)'
  <2>1. Same(x)
    BY <1>1, <1>9, <1>13, <1>15 DEF Same, TaskJobs, Rd, children
  <2> QED BY <2>1, SameFollowed, SameSettled DEF IInv
<1>16. Dropped(n)' <=> Dropped(n)
  BY <1>1 DEF Dropped, TaskJobs
<1>17. Settled(n)'
  BY <1>1, <1>13, <1>16 DEF IInv, Settled, children, SameDialogs
<1>18. ~Rd(n) /\ Rd(n)'
  BY <1>1, <1>5, <1>9 DEF Rd
<1>19. ~Dropped(n)
  BY <1>9 DEF IInv, Followed, Unheard
<1>20. PICK p \in States : Place(n, p) /\ Listed(n, p) /\ Was(n, p)
  BY <1>19 DEF IInv, Followed
<1>21. InPipe(n, p)
  BY <1>9, <1>20 DEF Place, Quiet, Shown, Answered
<1>22. /\ HalfOf(n, "head")' = HalfOf(n, "head")
       /\ HalfOf(n, "body")' = HalfOf(n, "body")
  BY <1>1 DEF HalfOf, children
<1>23. \/ p = "asking" /\ up[n] = <<HalfOf(n, "head")>>
       \/ p = "waiting" /\ up[n] = <<HalfOf(n, "head"), HalfOf(n, "body")>>
  BY <1>9, <1>18, <1>21 DEF InPipe
<1>24. /\ Head(up[n]) = HalfOf(n, "head")
       /\ \/ p = "asking" /\ up'[n] = <<>>
          \/ p = "waiting" /\ up'[n] = <<HalfOf(n, "body")>>
  <2> DEFINE g == HalfOf(n, "head")
             h == HalfOf(n, "body")
  <2>1. /\ Head(<<g>>) = g /\ Head(<<g, h>>) = g
        /\ Tail(<<g>>) = <<>> /\ Tail(<<g, h>>) = <<h>>
    BY TwoHalvesTail
  <2> HIDE DEF g, h
  <2> QED BY <1>9, <1>23, <2>1 DEF g, h
<1>25. reading'.kind = req'[n]
  BY <1>1, <1>9, <1>24 DEF HalfOf, children
<1>26. InPipe(n, p)'
  <2>1. Dialogs(n)' = {} /\ down'[n] = <<>>
    BY <1>1, <1>13, <1>21 DEF InPipe
  <2>2. \/ p = "asking" /\ up'[n] = <<>>
        \/ p = "waiting" /\ up'[n] = <<HalfOf(n, "body")'>>
    BY <1>22, <1>24
  <2> QED BY <1>18, <1>25, <2>1, <2>2 DEF InPipe
<1>27. Listed(n, p)' /\ Was(n, p)'
  BY <1>1, <1>20 DEF Listed, Ended, Was, TaskJobs, children
<1>28. Followed(n)'
  BY <1>16, <1>19, <1>26, <1>27 DEF Followed, Place
<1> QED BY <1>10, <1>11, <1>12, <1>14, <1>15, <1>17, <1>28 DEF IInv

(* What ReadBody does to everything but the job whose request it reads.    *)
TakesRequest(j) ==
  /\ UNCHANGED <<children, stopped, crashed, lost, saidAll>>
  /\ reading' = NotReading /\ ctx' \in [Jobs -> BOOLEAN]
  /\ up' \in [Jobs -> Seq(Half)] /\ up'[j] = <<>>
  /\ down' \in [Jobs -> Seq([all : BOOLEAN])]
  /\ \A x \in Jobs : x # j => up'[x] = up[x] /\ down'[x] = down[x]

LEMMA RequestIsTaken ==
  ASSUME IInv, NEW j \in Jobs, TakesRequest(j), reading.job = j, Dialogs(j) = {},
         ListsTyped', stack' \in Seq(FrameSet), stack' # <<>>, Once', Shape',
         \A x \in Jobs : x # j => /\ SameDialogs(x) /\ Served(x)'
                                  /\ x \in TaskJobs' <=> x \in TaskJobs
                                  /\ x \in ToSet(channels)' <=> x \in ToSet(channels),
         Served(j)', Followed(j)', Settled(j)'
  PROVE  IInv'
<1>1. Typed'
  <2>1. NotReading \in [job : Jobs \cup {NoJob}, part : {"head", "body"}, kind : Kinds]
    BY DEF NotReading, Kinds
  <2> QED BY <2>1 DEF IInv, Typed, JobsTyped, PipesTyped, LoopsTyped,
                      TakesRequest, children
<1>2. ASSUME NEW x \in Jobs, x # j PROVE Followed(x)' /\ Settled(x)'
  <2>1. ~Rd(x) /\ ~Rd(x)' /\ reading'.job # x
    BY <1>2, BackgroundAssumption DEF TakesRequest, NotReading, Rd
  <2>2. Same(x)
    BY <1>2, <2>1 DEF Same, TakesRequest, children
  <2> QED BY <2>2, SameFollowed, SameSettled DEF IInv
<1> QED BY <1>1, <1>2 DEF IInv

(* The answer of mc to a request it need not ask the user about.           *)
LEMMA AnswerInPipe ==
  ASSUME NEW j \in Jobs, NEW v \in BOOLEAN, Dialogs(j)' = {}, ~Rd(j)', up'[j] = <<>>,
         down'[j] = <<[all |-> v]>>
  PROVE  Answered(j, "waiting")'
BY DEF Answered

LEMMA ReadBodyKeeps ==
  ASSUME IInv, ReadBody
  PROVE  IInv'
<1> DEFINE sent == IF HasCtx(reading.kind) THEN Head(up[reading.job]).all
                                           ELSE ctx[reading.job]
           to   == IF reading.job \in TaskJobs THEN reading.job ELSE NoJob
<1>1. /\ UNCHANGED <<children, stopped, crashed, lost, saidAll>>
      /\ reading.job # NoJob /\ reading.part = "body" /\ up[reading.job] # <<>>
      /\ reading' = NotReading
      /\ up' = [up EXCEPT ![reading.job] = Tail(up[reading.job])]
      /\ ctx' = [ctx EXCEPT ![reading.job] = sent]
  BY DEF ReadBody
<1>2. \/ /\ reading.kind = "end"
         /\ EndBgProcess(reading.job) /\ Reply(to, sent) /\ stack' = stack
      \/ /\ reading.kind = "recursive" /\ sent
         /\ Reply(to, sent)
         /\ tasks' = tasks /\ channels' = channels /\ stack' = stack
      \/ /\ reading.kind = "error" \/ (reading.kind = "recursive" /\ ~sent)
         /\ stack' = Append(stack, [Frame(reading.kind, reading.job, <<>>)
                                      EXCEPT !.to = to])
         /\ down' = down /\ tasks' = tasks /\ channels' = channels
  BY Zenon DEF ReadBody
<1>3. /\ reading \in [job : Jobs \cup {NoJob}, part : {"head", "body"}, kind : Kinds]
      /\ up \in [Jobs -> Seq(Half)] /\ down \in [Jobs -> Seq([all : BOOLEAN])]
      /\ ctx \in [Jobs -> BOOLEAN] /\ all \in [Jobs -> BOOLEAN]
      /\ LoopsTyped /\ ListsTyped
  BY DEF IInv, Typed, LoopsTyped, PipesTyped, JobsTyped
<1>4. PICK j \in Jobs : j = reading.job
  BY <1>1, <1>3
<1>5. Rd(j) /\ reading.job = j /\ up[j] # <<>>
  BY <1>1, <1>4 DEF Rd
<1>6. ~Dropped(j)
  BY <1>5 DEF IInv, Followed, Unheard
<1>7. PICK p \in States : Place(j, p) /\ Listed(j, p) /\ Was(j, p)
  BY <1>6 DEF IInv, Followed
<1>8. InPipe(j, p)
  BY <1>5, <1>7 DEF Place, Quiet, Shown, Answered
<1>9. /\ p = "waiting" /\ up[j] = <<HalfOf(j, "body")>> /\ down[j] = <<>>
      /\ Dialogs(j) = {} /\ reading.kind = req[j]
  BY <1>5, <1>8 DEF InPipe
<1>10. Tail(up[j]) = <<>> /\ Head(up[j]) = HalfOf(j, "body")
  <2> DEFINE g == HalfOf(j, "body")
  <2>1. Head(<<g>>) = g /\ Tail(<<g>>) = <<>>
    BY TwoHalvesTail
  <2> HIDE DEF g
  <2> QED BY <1>9, <2>1 DEF g
<1>11. to = j /\ j \in TaskJobs
  BY <1>4, <1>7, <1>9 DEF Listed, Ended
<1>12. sent \in BOOLEAN /\ (HasCtx(req[j]) => sent = all[j])
  <2>1. CASE HasCtx(req[j])
    <3>1. sent = Head(up[j]).all
      BY <1>4, <1>9, <2>1
    <3>2. Head(up[j]).all = all[j]
      BY <1>10 DEF HalfOf
    <3> HIDE DEF sent
    <3> QED BY <1>3, <3>1, <3>2
  <2>2. CASE ~HasCtx(req[j])
    <3>1. sent = ctx[j]
      BY <1>4, <1>9, <2>2
    <3> HIDE DEF sent
    <3> QED BY <1>3, <2>2, <3>1
  <2> QED BY <2>1, <2>2
<1>13. PICK v \in BOOLEAN : v = sent
  BY <1>12
<1>14. (HasCtx(req[j]) => v = all[j])
  BY <1>12, <1>13
<1>15. /\ up' = [up EXCEPT ![j] = <<>>] /\ ctx' = [ctx EXCEPT ![j] = v]
       /\ reading' = NotReading
  BY <1>1, <1>4, <1>10, <1>13
<1>16. Reply(to, sent) => down' = [down EXCEPT ![j] = Append(down[j], [all |-> v])]
  BY <1>11, <1>13, BackgroundAssumption DEF Reply
<1>17. Append(down[j], [all |-> v]) = <<[all |-> v]>>
  BY <1>9, TwoHalves
<1>18. \/ /\ req[j] = "end"
          /\ EndBgProcess(j) /\ down' = [down EXCEPT ![j] = <<[all |-> v]>>]
          /\ stack' = stack
       \/ /\ req[j] = "recursive" /\ v
          /\ down' = [down EXCEPT ![j] = <<[all |-> v]>>]
          /\ tasks' = tasks /\ channels' = channels /\ stack' = stack
       \/ /\ req[j] = "error" \/ (req[j] = "recursive" /\ ~v)
          /\ stack' = Append(stack, [Frame(req[j], j, <<>>) EXCEPT !.to = j])
          /\ down' = down /\ tasks' = tasks /\ channels' = channels
  <2> HIDE DEF sent, to
  <2> QED BY <1>2, <1>4, <1>9, <1>11, <1>13, <1>16, <1>17
<1> HIDE DEF sent, to
<1>19. /\ up' \in [Jobs -> Seq(Half)] /\ up'[j] = <<>>
       /\ \A x \in Jobs : x # j => up'[x] = up[x]
       /\ ctx' \in [Jobs -> BOOLEAN]
  BY <1>3, <1>15
<1>20. ~Rd(j)' /\ reading'.job = NoJob /\ NoJob # j
  BY <1>15, BackgroundAssumption DEF Rd, NotReading
<1>21. j \in saidAll => all[j]
  BY <1>6, <1>9 DEF IInv, Settled
<1>22. /\ proc' = proc /\ req' = req /\ all' = all /\ lost' = lost
       /\ saidAll' = saidAll
  BY <1>1 DEF children
<1>23. ASSUME down' = [down EXCEPT ![j] = <<[all |-> v]>>]
       PROVE  /\ down' \in [Jobs -> Seq([all : BOOLEAN])]
              /\ down'[j] = <<[all |-> v]>>
              /\ \A x \in Jobs : x # j => down'[x] = down[x]
  <2>1. <<[all |-> v]>> \in Seq([all : BOOLEAN])
    OBVIOUS
  <2> QED BY <1>3, <1>23, <2>1
<1>24. ASSUME stack' = stack
       PROVE  /\ stack' \in Seq(FrameSet) /\ stack' # <<>> /\ Shape'
              /\ \A x \in Jobs : /\ SameDialogs(x) /\ Dialogs(x)' = Dialogs(x)
                                 /\ Served(x)'
  <2>1. \A x \in Jobs : Dialogs(x)' = Dialogs(x) /\ SameDialogs(x)
    BY <1>24 DEF Dialogs, SameDialogs
  <2>2. ASSUME NEW x \in Jobs PROVE Served(x)'
    BY <1>20, <1>24, <2>1, BackgroundAssumption DEF IInv, Served
  <2>3. Shape'
    BY <1>24 DEF IInv, Shape
  <2> QED BY <1>3, <1>24, <2>1, <2>2, <2>3 DEF LoopsTyped
<1>25. CASE /\ req[j] = "recursive" /\ v
            /\ down' = [down EXCEPT ![j] = <<[all |-> v]>>]
            /\ tasks' = tasks /\ channels' = channels /\ stack' = stack
  <2>1. TakesRequest(j)
    BY <1>1, <1>15, <1>19, <1>23, <1>25 DEF TakesRequest
  <2>2. Once' /\ ListsTyped' /\ TaskJobs' = TaskJobs /\ ToSet(channels)' = ToSet(channels)
    BY <1>3, <1>22, <1>25 DEF IInv, Once, ListsTyped, TaskJobs
  <2>3. Answered(j, "waiting")'
    BY <1>9, <1>19, <1>20, <1>23, <1>24, <1>25, AnswerInPipe
  <2>4. Listed(j, "waiting")' /\ Was(j, "waiting")'
    BY <1>7, <1>9, <1>22, <1>25, <2>2 DEF Listed, Ended, Was
  <2>5. Followed(j)'
    BY <1>6, <1>22, <2>2, <2>3, <2>4 DEF Followed, Dropped, Place, States
  <2>6. Settled(j)'
    <3>1. down'[j] = <<[all |-> TRUE]>> /\ all'[j]
      BY <1>14, <1>22, <1>23, <1>25 DEF HasCtx
    <3>2. Dialogs(j)' = {}
      BY <1>9, <1>24, <1>25
    <3> QED BY <3>1, <3>2 DEF Settled
  <2> QED BY <1>5, <1>9, <1>24, <1>25, <2>1, <2>2, <2>5, <2>6, RequestIsTaken
<1>26. CASE /\ req[j] = "end"
            /\ EndBgProcess(j) /\ down' = [down EXCEPT ![j] = <<[all |-> v]>>]
            /\ stack' = stack
  <2>1. TakesRequest(j)
    BY <1>1, <1>15, <1>19, <1>23, <1>26 DEF TakesRequest
  <2>2. PICK ts : ts = TasksWithout(j)
    OBVIOUS
  <2>3. PICK cs : cs = ChannelsWithout(j)
    OBVIOUS
  <2>4. tasks' = ts /\ (channels' = channels \/ channels' = cs)
    BY <1>26, <2>2, <2>3 DEF EndBgProcess
  <2>5. /\ ts \in Seq(Task) /\ {ts[i].job : i \in DOMAIN ts} = TaskJobs \ {j}
        /\ \A i, k \in DOMAIN ts : ts[i].job = ts[k].job => i = k
    <3>1. /\ tasks \in Seq(Task)
          /\ \A i, k \in DOMAIN tasks : tasks[i].job = tasks[k].job => i = k
      BY <1>3 DEF IInv, Once, ListsTyped
    <3> QED BY <1>11, <2>2, <3>1, TaskTakenOut
  <2>6. /\ cs \in Seq(Jobs) /\ ToSet(cs) = ToSet(channels) \ {j}
        /\ \A i, k \in DOMAIN cs : cs[i] = cs[k] => i = k
    BY <1>3, <2>3, ChannelTakenOut DEF IInv, Once, ListsTyped
  <2>7. ListsTyped' /\ TaskJobs' = TaskJobs \ {j}
    <3>1. tasks' \in Seq(Task) /\ channels' \in Seq(Jobs)
      BY <1>3, <2>4, <2>5, <2>6 DEF ListsTyped
    <3>2. TaskJobs' = {ts[i].job : i \in DOMAIN ts}
      BY <2>4 DEF TaskJobs
    <3> QED BY <2>5, <3>1, <3>2 DEF ListsTyped
  <2>8. ToSet(channels)' = ToSet(channels) \/ ToSet(channels)' = ToSet(channels) \ {j}
    BY <2>4, <2>6
  <2>9. Once'
    BY <1>22, <2>4, <2>5, <2>6, <2>7, <2>8 DEF IInv, Once
  <2>10. Answered(j, "waiting")'
    BY <1>9, <1>19, <1>20, <1>23, <1>24, <1>26, AnswerInPipe
  <2>11. down'[j] # <<>>
    BY <1>23, <1>26
  <2>12. Listed(j, "waiting")' /\ Was(j, "waiting")'
    BY <1>7, <1>9, <1>22, <1>26, <2>7, <2>11 DEF Listed, Ended, Was
  <2>13. Followed(j)'
    <3>1. CASE j \in lost
      <4>1. proc[j] = "gone"
        BY <1>7, <3>1 DEF Was
      <4>2. Unheard(j)'
        BY <1>19, <1>20, <1>22, <2>10, <4>1 DEF Unheard, Answered
      <4> QED BY <1>22, <2>7, <3>1, <4>2 DEF Followed, Dropped
    <3>2. CASE j \notin lost
      BY <1>22, <2>10, <2>12, <3>2 DEF Followed, Dropped, Place, States
    <3> QED BY <3>1, <3>2
  <2>14. Settled(j)'
    <3>1. j \in saidAll => v = TRUE
      BY <1>3, <1>14, <1>21, <1>26 DEF HasCtx
    <3>2. j \in saidAll => down'[j] = <<[all |-> TRUE]>> /\ all'[j]
      BY <1>21, <1>22, <1>23, <1>26, <3>1
    <3>3. Dialogs(j)' = {}
      BY <1>9, <1>24, <1>26
    <3> QED BY <1>22, <3>2, <3>3 DEF Settled
  <2> QED BY <1>5, <1>9, <1>24, <1>26, <2>1, <2>7, <2>8, <2>9, <2>13, <2>14,
             RequestIsTaken
<1>27. CASE /\ req[j] = "error" \/ (req[j] = "recursive" /\ ~v)
            /\ stack' = Append(stack, [Frame(req[j], j, <<>>) EXCEPT !.to = j])
            /\ down' = down /\ tasks' = tasks /\ channels' = channels
  <2>1. TakesRequest(j)
    BY <1>1, <1>3, <1>15, <1>19, <1>27 DEF TakesRequest
  <2>2. Once' /\ ListsTyped' /\ TaskJobs' = TaskJobs /\ ToSet(channels)' = ToSet(channels)
    BY <1>3, <1>22, <1>27 DEF IInv, Once, ListsTyped, TaskJobs
  <2> DEFINE f == [Frame(req[j], j, <<>>) EXCEPT !.to = j]
  <2>3. f = [kind |-> req[j], job |-> j, items |-> <<>>, to |-> j,
             bits |-> {}, static |-> FALSE]
    <3> DEFINE c == Frame(req[j], j, <<>>)
    <3>1. c = [kind |-> req[j], job |-> j, items |-> <<>>, to |-> NoJob,
               bits |-> {}, static |-> FALSE]
      BY DEF Frame
    <3>2. f = [c EXCEPT !.to = j]
      OBVIOUS
    <3> HIDE DEF c, f
    <3> QED BY <3>1, <3>2
  <2>4. /\ f \in FrameSet /\ f.kind = req[j] /\ f.job = j /\ f.to = j /\ f.bits = {}
    <3> HIDE DEF f
    <3>1. <<>> \in Seq(Jobs) /\ FALSE \in BOOLEAN
      OBVIOUS
    <3>2. req[j] \in {"error", "recursive"}
      BY <1>27
    <3> QED BY <2>3, <3>1, <3>2 DEF FrameSet
  <2>5. stack' = Append(stack, f)
    BY <1>27
  <2> HIDE DEF f
  <2>6. /\ stack' \in Seq(FrameSet) /\ stack' # <<>>
        /\ Len(stack') = Len(stack) + 1 /\ stack'[Len(stack) + 1] = f
        /\ \A i \in DOMAIN stack : i \in DOMAIN stack' /\ stack'[i] = stack[i]
    BY <1>3, <2>4, <2>5, LoopIsPushed
  <2>7. /\ Len(stack) \in Nat \ {0} /\ DOMAIN stack = 1 .. Len(stack)
        /\ DOMAIN stack' = 1 .. Len(stack) + 1
    BY <1>3, <2>6, TopIsTyped, LenProperties
  <2>8. Dialogs(j)' = {Len(stack) + 1}
    BY <1>3, <1>9, <1>27, <2>4, <2>5, PushedDialogs
  <2>9. \A x \in Jobs : x # j => SameDialogs(x)
    BY <1>3, <2>4, <2>5, PushedDialogs
  <2>10. \A i \in DOMAIN stack' : i \in DOMAIN stack \/ i = Len(stack) + 1
    BY <2>7
  <2>11. Shape'
    <3>1. stack'[1].kind = "panels"
      BY <2>6, <2>7 DEF IInv, Shape
    <3>5. \A i \in 2 .. Len(stack') : i \in 2 .. Len(stack) \/ i = Len(stack) + 1
      BY <2>6, <2>7
    <3>6. \A i \in 3 .. Len(stack') : i \in 3 .. Len(stack) \/ i = Len(stack) + 1
      BY <2>6, <2>7
    <3>7. /\ \A i \in 2 .. Len(stack) : i \in DOMAIN stack
          /\ \A i \in 3 .. Len(stack) : i \in DOMAIN stack
      BY <2>7
    <3>2. \A i \in 2 .. Len(stack') : stack'[i].kind # "panels"
      BY <1>27, <2>4, <2>6, <3>5, <3>7 DEF IInv, Shape
    <3>3. \A i \in 3 .. Len(stack') : stack'[i].kind \in {"error", "recursive"}
      BY <1>27, <2>4, <2>6, <3>6, <3>7 DEF IInv, Shape
    <3>4. \A i \in DOMAIN stack' :
            stack'[i].kind \in {"error", "recursive"} => stack'[i].job \in Jobs
      BY <2>4, <2>6, <2>10 DEF IInv, Shape
    <3> QED BY <3>1, <3>2, <3>3, <3>4 DEF Shape
  <2>12. ASSUME NEW x \in Jobs, x # j PROVE Served(x)'
    <3>1. Dialogs(x)' = Dialogs(x) /\ Dialogs(x) \subseteq DOMAIN stack
      BY <2>9, <2>12 DEF SameDialogs, Dialogs
    <3>2. ASSUME NEW k \in Dialogs(x), NEW i \in k .. Len(stack')
          PROVE  x \notin stack'[i].bits
      <4>1. i = Len(stack) + 1 \/ i \in k .. Len(stack)
        <5>1. k \in 1 .. Len(stack)
          BY <2>7, <3>1
        <5>2. i \in k .. Len(stack) + 1
          BY <2>6
        <5> QED BY <2>7, <5>1, <5>2
      <4>2. i \in k .. Len(stack) => i \in DOMAIN stack
        <5>1. k \in 1 .. Len(stack)
          BY <2>7, <3>1
        <5> QED BY <2>7, <5>1
      <4> QED BY <2>4, <2>6, <4>1, <4>2 DEF IInv, Served
    <3> QED BY <1>20, <3>1, <3>2, BackgroundAssumption DEF Served
  <2>13. Served(j)'
    <3>1. \A i \in (Len(stack) + 1) .. Len(stack') : stack'[i].bits = {}
      BY <2>4, <2>6, <2>7
    <3> QED BY <1>20, <2>8, <3>1 DEF Served
  <2>14. Shown(j, "waiting")'
    <3>1. /\ Len(stack) + 1 \in DOMAIN stack'
          /\ stack'[Len(stack) + 1].kind = req'[j] /\ stack'[Len(stack) + 1].to = j
      BY <1>22, <2>4, <2>6, <2>7
    <3>2. down'[j] = <<>>
      BY <1>9, <1>27
    <3> QED BY <1>19, <1>20, <2>8, <3>1, <3>2 DEF Shown
  <2>15. Listed(j, "waiting")' /\ Was(j, "waiting")'
    BY <1>7, <1>9, <1>22, <1>27, <2>2 DEF Listed, Ended, Was
  <2>16. Followed(j)'
    BY <1>6, <1>22, <2>2, <2>14, <2>15 DEF Followed, Dropped, Place, States
  <2>17. Settled(j)'
    <3>1. j \in saidAll => req[j] # "recursive"
      BY <1>14, <1>21, <1>27 DEF HasCtx
    <3>2. \A i \in Dialogs(j)' : stack'[i].kind = req[j]
      BY <2>4, <2>6, <2>8
    <3> QED BY <1>9, <1>21, <1>22, <1>27, <3>1, <3>2 DEF Settled
  <2> QED BY <1>5, <1>9, <2>1, <2>2, <2>6, <2>9, <2>11, <2>12, <2>13, <2>16, <2>17,
             RequestIsTaken
<1> QED BY <1>18, <1>25, <1>26, <1>27

-----------------------------------------------------------------------------
(* The user.                                                               *)

LEMMA ClosedShape ==
  ASSUME Shape, LoopsTyped, Closed PROVE Shape'
<1>1. /\ Len(stack) \in Nat \ {0} /\ DOMAIN stack = 1 .. Len(stack)
      /\ Len(stack') = Len(stack) - 1 /\ DOMAIN stack' = 1 .. Len(stack')
      /\ Len(stack') # 0
  BY TopIsTyped, LenProperties, EmptySeq DEF Closed
<1>2. \A i \in DOMAIN stack' : i \in DOMAIN stack /\ i # Len(stack)
  BY <1>1
<1>3. \A i \in DOMAIN stack' : /\ stack'[i].kind = stack[i].kind
                               /\ stack'[i].job = stack[i].job
  BY <1>2 DEF Closed
<1>4. stack'[1].kind = "panels"
  BY <1>1, <1>3 DEF Shape
<1>5. \A i \in 2 .. Len(stack') : stack'[i].kind # "panels"
  BY <1>1, <1>3 DEF Shape
<1>6. \A i \in 3 .. Len(stack') : stack'[i].kind \in {"error", "recursive"}
  BY <1>1, <1>3 DEF Shape
<1>7. \A i \in DOMAIN stack' :
        stack'[i].kind \in {"error", "recursive"} => stack'[i].job \in Jobs
  BY <1>2, <1>3 DEF Shape
<1> QED BY <1>4, <1>5, <1>6, <1>7 DEF Shape

LEMMA ClosedServed ==
  ASSUME LoopsTyped, Closed, NEW x, Served(x), reading'.job # x
  PROVE  Served(x)'
<1>1. /\ Len(stack) \in Nat \ {0} /\ DOMAIN stack = 1 .. Len(stack)
      /\ Len(stack') = Len(stack) - 1
  BY TopIsTyped DEF Closed
<1>2. Dialogs(x)' \subseteq Dialogs(x)
  BY ClosedDialogs
<1>3. ASSUME NEW k \in Dialogs(x)', NEW i \in k .. Len(stack')
      PROVE  x \notin stack'[i].bits
  <2>1. k \in Dialogs(x) /\ k \in 1 .. Len(stack)
    BY <1>1, <1>2 DEF Dialogs
  <2>4. i \in k .. Len(stack) - 1
    BY <1>1
  <2>2. i \in k .. Len(stack) /\ i \in DOMAIN stack /\ i # Len(stack)
    <3>1. k \in Int /\ 1 <= k /\ i \in Int /\ k <= i /\ i <= Len(stack) - 1
      BY <1>1, <2>1, <2>4
    <3>2. Len(stack) \in Int
      BY <1>1
    <3>3. i \in k .. Len(stack) /\ i # Len(stack)
      BY <3>1, <3>2
    <3>4. i \in 1 .. Len(stack)
      BY <3>1, <3>2
    <3> QED BY <1>1, <3>3, <3>4
  <2>3. x \notin stack[i].bits
    BY <2>1, <2>2 DEF Served
  <2> QED BY <2>2, <2>3 DEF Closed
<1> QED BY <1>3 DEF Served

(* A loop that is no dialog of a job ends.                                 *)
LEMMA ClosedKeeps ==
  ASSUME IInv, Closed, Top.kind \notin {"error", "recursive"}, reading = NotReading,
         UNCHANGED <<children, stopped, up, down, tasks, channels, ctx>>,
         UNCHANGED <<reading, crashed, lost, saidAll>>
  PROVE  IInv'
<1>1. LoopsTyped
  BY DEF IInv, Typed
<1>2. Len(stack) \in DOMAIN stack /\ Top = stack[Len(stack)]
  BY <1>1, TopIsTyped
<1>3. Typed'
  BY DEF IInv, Typed, JobsTyped, PipesTyped, ListsTyped, LoopsTyped, children, Closed
<1>4. Once'
  BY DEF IInv, Once, TaskJobs, children
<1>5. Shape'
  BY <1>1, ClosedShape DEF IInv
<1>6. ASSUME NEW x \in Jobs PROVE Followed(x)' /\ Settled(x)' /\ Served(x)'
  <2>1. Len(stack) \notin Dialogs(x)
    BY <1>2 DEF Dialogs
  <2>2. SameDialogs(x)
    BY <1>1, <2>1, ClosedDialogs
  <2>3. Same(x)
    BY <2>2 DEF Same, TaskJobs, Rd, children
  <2>4. reading'.job # x
    BY BackgroundAssumption DEF NotReading
  <2> QED BY <1>1, <2>3, <2>4, SameFollowed, SameSettled, ClosedServed DEF IInv
<1> QED BY <1>3, <1>4, <1>5, <1>6 DEF IInv

(* The panels are the outermost loop: something is left when another ends. *)
LEMMA NotOutermost ==
  ASSUME Shape, LoopsTyped, Top.kind # "panels" PROVE Len(stack) >= 2
<1>1. Len(stack) \in Nat \ {0} /\ Top = stack[Len(stack)]
  BY TopIsTyped
<1>2. Len(stack) # 1
  BY <1>1 DEF Shape
<1> QED BY <1>1, <1>2

LEMMA ProgramEndsKeeps ==
  ASSUME IInv, ProgramEnds PROVE IInv'
<1>1. /\ Top.kind = "program" /\ reading = NotReading /\ stack' = Front(stack)
      /\ UNCHANGED <<children, stopped, up, down, tasks, channels, ctx>>
      /\ UNCHANGED <<reading, crashed, lost, saidAll>>
  BY DEF ProgramEnds, Idle
<1>2. Len(stack) >= 2
  BY <1>1, NotOutermost DEF IInv, Typed
<1>3. Closed
  BY <1>1, <1>2, LoopIsClosed DEF IInv, Typed
<1> QED BY <1>1, <1>3, ClosedKeeps

LEMMA JobsOkKeeps ==
  ASSUME IInv, JobsOk PROVE IInv'
<1>1. /\ Top.kind = "jobs" /\ reading = NotReading /\ stack' = Popped
      /\ UNCHANGED <<children, stopped, up, down, tasks, channels, ctx>>
      /\ UNCHANGED <<reading, crashed, lost, saidAll>>
  BY DEF JobsOk, InLoop, Idle
<1>2. Len(stack) >= 2
  BY <1>1, NotOutermost DEF IInv, Typed
<1>3. Closed
  BY <1>1, <1>2, LoopIsClosed DEF IInv, Typed
<1> QED BY <1>1, <1>3, ClosedKeeps

LEMMA AnswerKeeps ==
  ASSUME IInv, Answer PROVE IInv'
<1>1. /\ Top.kind \in {"error", "recursive"} /\ reading = NotReading
      /\ stack' = Popped
      /\ UNCHANGED <<children, stopped, up, tasks, channels>>
      /\ UNCHANGED <<reading, crashed, lost>>
  BY DEF Answer, InLoop, Idle
<1>2. PICK value \in IF Top.kind = "recursive" THEN BOOLEAN ELSE {ctx[Top.job]} :
        /\ ctx' = [ctx EXCEPT ![Top.job] = value]
        /\ Reply(Top.to, value)
        /\ saidAll' = IF value /\ Top.kind = "recursive"
                      THEN saidAll \cup {Top.job} ELSE saidAll
  BY Zenon DEF Answer
<1>3. /\ LoopsTyped /\ ctx \in [Jobs -> BOOLEAN]
      /\ down \in [Jobs -> Seq([all : BOOLEAN])] /\ saidAll \subseteq Jobs
  BY DEF IInv, Typed, JobsTyped, PipesTyped
<1>4. /\ Len(stack) \in Nat \ {0} /\ DOMAIN stack = 1 .. Len(stack)
      /\ Top = stack[Len(stack)] /\ Len(stack) \in DOMAIN stack
  BY <1>3, TopIsTyped
<1>5. PICK j \in Jobs : j = Top.job
  BY <1>1, <1>4 DEF IInv, Shape
<1>6. Len(stack) \in Dialogs(j)
  BY <1>1, <1>4, <1>5 DEF Dialogs
<1>7. ~Dropped(j) /\ Shown(j, "waiting") /\ Listed(j, "waiting") /\ Was(j, "waiting")
  BY <1>6, DialogMeans
<1>8. /\ Dialogs(j) = {Len(stack)} /\ Top.kind = req[j] /\ Top.to = j
      /\ up[j] = <<>> /\ down[j] = <<>> /\ ~Rd(j)
  BY <1>4, <1>6, <1>7 DEF Shown
<1>9. value \in BOOLEAN
  BY <1>2, <1>3, <1>5
<1>10. down' = [down EXCEPT ![j] = <<[all |-> value]>>]
  <2>1. Append(down[j], [all |-> value]) = <<[all |-> value]>>
    BY <1>8, TwoHalves
  <2>2. down' = [down EXCEPT ![j] = Append(down[j], [all |-> value])]
    BY <1>2, <1>8, BackgroundAssumption DEF Reply
  <2> QED BY <2>1, <2>2
<1>11. /\ down' \in [Jobs -> Seq([all : BOOLEAN])]
       /\ down'[j] = <<[all |-> value]>>
       /\ \A x \in Jobs : x # j => down'[x] = down[x]
  <2>1. <<[all |-> value]>> \in Seq([all : BOOLEAN])
    BY <1>9
  <2> QED BY <1>3, <1>10, <2>1
<1>12. ctx' \in [Jobs -> BOOLEAN]
  BY <1>2, <1>3, <1>5, <1>9
<1>13. /\ saidAll' \subseteq Jobs /\ \A x \in Jobs : x # j => (x \in saidAll' => x \in saidAll)
       /\ j \in saidAll' => j \in saidAll \/ (value /\ req[j] = "recursive")
  BY <1>2, <1>3, <1>5, <1>8
<1>14. Closed
  <2>1. Len(stack) >= 2
    BY <1>1, <1>3, NotOutermost DEF IInv
  <2> QED BY <1>1, <1>3, <2>1, LoopIsClosed
<1>15. Typed'
  BY <1>1, <1>11, <1>12, <1>13, <1>14
     DEF IInv, Typed, JobsTyped, PipesTyped, ListsTyped, LoopsTyped, children, Closed
<1>16. Once'
  BY <1>1 DEF IInv, Once, TaskJobs, children
<1>17. Shape'
  BY <1>3, <1>14, ClosedShape DEF IInv
<1>18. \A x \in Jobs : ~Rd(x) /\ ~Rd(x)' /\ reading'.job # x
  BY <1>1, BackgroundAssumption DEF NotReading, Rd
<1>19. ASSUME NEW x \in Jobs PROVE Served(x)'
  BY <1>3, <1>14, <1>18, ClosedServed DEF IInv
<1>20. ASSUME NEW x \in Jobs, x # j PROVE Followed(x)' /\ Settled(x)'
  <2>1. Len(stack) \notin Dialogs(x)
    BY <1>4, <1>5, <1>20 DEF Dialogs
  <2>2. SameDialogs(x)
    BY <1>3, <1>14, <2>1, ClosedDialogs
  <2>3. Same(x)
    BY <1>1, <1>11, <1>13, <1>18, <1>20, <2>2 DEF Same, TaskJobs, children
  <2> QED BY <2>3, SameFollowed, SameSettled DEF IInv
<1>21. Dialogs(j)' = {}
  BY <1>3, <1>8, <1>14, ClosedDialogs
<1>22. /\ proc' = proc /\ req' = req /\ all' = all /\ lost' = lost /\ up' = up
       /\ TaskJobs' = TaskJobs /\ ToSet(channels)' = ToSet(channels)
  BY <1>1 DEF children, TaskJobs
<1>23. Followed(j)'
  <2>1. Answered(j, "waiting")'
    BY <1>8, <1>9, <1>11, <1>18, <1>21, <1>22, AnswerInPipe
  <2>2. Listed(j, "waiting")' /\ Was(j, "waiting")'
    BY <1>1, <1>7, <1>8, <1>22 DEF Listed, Ended, Was
  <2> QED BY <1>7, <1>22, <2>1, <2>2 DEF Followed, Dropped, Place, States
<1>24. Settled(j)'
  <2>1. CASE value /\ req[j] = "recursive"
    <3>1. down'[j] = <<[all |-> TRUE]>> /\ HasCtx(req'[j])
      BY <1>11, <1>22, <2>1 DEF HasCtx
    <3>2. down'[j] # <<>>
      BY <1>11
    <3> QED BY <1>21, <3>1, <3>2 DEF Settled
  <2>2. CASE ~(value /\ req[j] = "recursive")
    <3>1. ASSUME j \in saidAll' PROVE all[j] /\ ~HasCtx(req[j])
      <4>1. j \in saidAll
        BY <1>13, <2>2, <3>1
      <4>2. req[j] # "recursive"
        BY <1>4, <1>6, <1>7, <1>8, <4>1 DEF IInv, Settled
      <4>3. req[j] = "error"
        BY <1>1, <1>8, <4>2
      <4> QED BY <1>7, <1>8, <4>1, <4>3 DEF IInv, Settled, HasCtx
    <3> QED BY <1>21, <1>22, <3>1 DEF Settled
  <2> QED BY <2>1, <2>2
<1> QED BY <1>15, <1>16, <1>17, <1>19, <1>20, <1>23, <1>24 DEF IInv

(* A loop without a job begins over the panels.                            *)
LEMMA PushedKeeps ==
  ASSUME IInv, NEW f \in FrameSet, stack' = Append(stack, f),
         f.kind \in {"program", "jobs"}, f.bits = {},
         AtPanels,
         UNCHANGED <<children, stopped, up, down, tasks, channels, ctx>>,
         UNCHANGED <<reading, crashed, lost, saidAll>>
  PROVE  IInv'
<1>1. LoopsTyped
  BY DEF IInv, Typed
<1>2. /\ Len(stack) \in Nat \ {0} /\ DOMAIN stack = 1 .. Len(stack)
      /\ Top = stack[Len(stack)]
  BY <1>1, TopIsTyped
<1>3. Len(stack) = 1
  <2>1. Top.kind = "panels"
    BY DEF AtPanels
  <2>2. Len(stack) \notin 2 .. Len(stack)
    BY <1>2, <2>1 DEF IInv, Shape
  <2> QED BY <1>2, <2>2
<1>4. /\ stack' \in Seq(FrameSet) /\ stack' # <<>> /\ Len(stack') = 2
      /\ stack'[2] = f
      /\ \A i \in DOMAIN stack : i \in DOMAIN stack' /\ stack'[i] = stack[i]
  <2>1. 1 + 1 = 2
    OBVIOUS
  <2> QED BY <1>1, <1>3, <2>1, LoopIsPushed
<1>5. DOMAIN stack = {1} /\ DOMAIN stack' = {1, 2}
  <2>1. DOMAIN stack' = 1 .. 2
    BY <1>4, LenProperties
  <2>2. 1 .. 1 = {1} /\ 1 .. 2 = {1, 2}
    OBVIOUS
  <2> QED BY <1>2, <1>3, <2>1, <2>2
<1>6. Typed'
  BY <1>4 DEF IInv, Typed, JobsTyped, PipesTyped, ListsTyped, LoopsTyped, children
<1>7. Once'
  BY DEF IInv, Once, TaskJobs, children
<1>8. Shape'
  <2>1. stack'[1].kind = "panels" /\ stack'[2].kind \notin {"panels", "error", "recursive"}
    BY <1>4, <1>5 DEF IInv, Shape
  <2>2. \A i \in 2 .. Len(stack') : i = 2
    BY <1>4
  <2>3. 3 .. Len(stack') = {}
    BY <1>4
  <2> QED BY <1>5, <2>1, <2>2, <2>3 DEF Shape
<1>9. reading = NotReading
  BY DEF AtPanels, InLoop, Idle
<1>10. ASSUME NEW x \in Jobs PROVE Followed(x)' /\ Settled(x)' /\ Served(x)'
  <2>1. SameDialogs(x)
    BY <1>1, PushedDialogs
  <2>2. Same(x)
    BY <2>1 DEF Same, TaskJobs, Rd, children
  <2>3. Dialogs(x)' = {}
    <3>1. Dialogs(x) = {}
      BY <1>5 DEF IInv, Shape, Dialogs
    <3> QED BY <2>1, <3>1 DEF SameDialogs
  <2>4. Served(x)'
    BY <2>3 DEF Served
  <2> QED BY <2>2, <2>4, SameFollowed, SameSettled DEF IInv
<1> QED BY <1>6, <1>7, <1>8, <1>10 DEF IInv

LEMMA RunProgramKeeps ==
  ASSUME IInv, RunProgram PROVE IInv'
<1> DEFINE f == Frame("program", NoJob, <<>>)
<1>1. /\ AtPanels /\ stack' = Append(stack, f)
      /\ UNCHANGED <<children, stopped, up, down, tasks, channels, ctx>>
      /\ UNCHANGED <<reading, crashed, lost, saidAll>>
  BY DEF RunProgram
<1>2. f \in FrameSet /\ f.kind = "program" /\ f.bits = {}
  <2>1. <<>> \in Seq(Jobs)
    OBVIOUS
  <2> QED BY <2>1 DEF Frame, FrameSet
<1> HIDE DEF f
<1> QED BY <1>1, <1>2, PushedKeeps

LEMMA ItemsAreJobs ==
  ASSUME NEW ts \in Seq(Task)
  PROVE  Items(ts) \in Seq(Jobs)
<1>1. DOMAIN ts = 1 .. Len(ts) /\ Len(ts) \in Nat
  BY LenProperties
<1>2. \A i \in 1 .. Len(ts) : ts[i].job \in Jobs
  <2>1. \A i \in 1 .. Len(ts) : ts[i] \in Task
    BY ElementOfSeq
  <2> QED BY <2>1 DEF Task
<1>3. Items(ts) \in [1 .. Len(ts) -> Jobs]
  BY <1>1, <1>2 DEF Items
<1> QED BY <1>1, <1>3, SeqDef

LEMMA JobsCmdKeeps ==
  ASSUME IInv, JobsCmd PROVE IInv'
<1> DEFINE ts == Items(tasks)
           f == Frame("jobs", NoJob, ts)
<1>1. /\ AtPanels /\ stack' = Append(stack, f)
      /\ UNCHANGED <<children, stopped, up, down, tasks, channels, ctx>>
      /\ UNCHANGED <<reading, crashed, lost, saidAll>>
  BY DEF JobsCmd
<1>2. ts \in Seq(Jobs)
  BY ItemsAreJobs DEF IInv, Typed, ListsTyped
<1> HIDE DEF ts
<1>3. f \in FrameSet /\ f.kind = "jobs" /\ f.bits = {}
  BY <1>2 DEF Frame, FrameSet
<1> HIDE DEF f
<1> QED BY <1>1, <1>3, PushedKeeps

LEMMA StartJobKeeps ==
  ASSUME IInv, NEW j \in Jobs, StartJob(j) PROVE IInv'
<1> DEFINE t == [job |-> j, state |-> "running"]
<1>1. /\ proc[j] = "unborn" /\ proc' = [proc EXCEPT ![j] = "working"]
      /\ tasks' = <<t>> \o tasks /\ channels' = <<j>> \o channels
      /\ UNCHANGED <<asked, req, all, stopped, up, down, ctx, stack>>
      /\ UNCHANGED <<reading, crashed, lost, saidAll>>
  BY DEF StartJob
<1>2. reading = NotReading
  BY DEF StartJob, AtPanels, InLoop, Idle
<1>3. /\ proc \in [Jobs -> States] /\ tasks \in Seq(Task) /\ channels \in Seq(Jobs)
  BY DEF IInv, Typed, JobsTyped, ListsTyped, States
<1>4. t \in Task /\ t.job = j
  BY DEF Task
<1> HIDE DEF t
<1>5. /\ proc' \in [Jobs -> States] /\ proc'[j] = "working"
      /\ \A x \in Jobs : x # j => proc'[x] = proc[x]
  BY <1>1, <1>3 DEF States
<1>6. /\ tasks' \in Seq(Task) /\ DOMAIN tasks' = 1 .. Len(tasks) + 1 /\ tasks'[1] = t
      /\ \A i \in DOMAIN tasks : tasks'[i + 1] = tasks[i]
      /\ \A i \in DOMAIN tasks' :
           i # 1 => i - 1 \in DOMAIN tasks /\ tasks'[i] = tasks[i - 1]
  BY <1>1, <1>3, <1>4, Prepended
<1>7. /\ channels' \in Seq(Jobs) /\ DOMAIN channels' = 1 .. Len(channels) + 1
      /\ channels'[1] = j
      /\ \A i \in DOMAIN channels : channels'[i + 1] = channels[i]
      /\ \A i \in DOMAIN channels' :
           i # 1 => i - 1 \in DOMAIN channels /\ channels'[i] = channels[i - 1]
  BY <1>1, <1>3, Prepended
<1>8. /\ DOMAIN tasks = 1 .. Len(tasks) /\ Len(tasks) \in Nat
      /\ DOMAIN channels = 1 .. Len(channels) /\ Len(channels) \in Nat
  BY <1>3, LenProperties
<1>9. /\ 1 \in DOMAIN tasks' /\ 1 \in DOMAIN channels'
      /\ \A i \in DOMAIN tasks : i + 1 \in DOMAIN tasks'
      /\ \A i \in DOMAIN channels : i + 1 \in DOMAIN channels'
  BY <1>6, <1>7, <1>8
<1>10. j \notin TaskJobs /\ j \notin ToSet(channels)
  BY <1>1 DEF IInv, Once
<1>11. TaskJobs' = TaskJobs \cup {j}
  <2>1. \A x \in TaskJobs' : x \in TaskJobs \cup {j}
    BY <1>4, <1>6 DEF TaskJobs
  <2>2. \A x \in TaskJobs \cup {j} : x \in TaskJobs'
    BY <1>4, <1>6, <1>9 DEF TaskJobs
  <2> QED BY <2>1, <2>2
<1>12. ToSet(channels)' = ToSet(channels) \cup {j}
  <2>1. \A x \in ToSet(channels') : x \in ToSet(channels) \cup {j}
    BY <1>7 DEF ToSet
  <2>2. \A x \in ToSet(channels) \cup {j} : x \in ToSet(channels')
    BY <1>7, <1>9 DEF ToSet
  <2> QED BY <2>1, <2>2
<1>13. \A i, k \in DOMAIN tasks' : tasks'[i].job = tasks'[k].job => i = k
  <2> SUFFICES ASSUME NEW i \in DOMAIN tasks', NEW k \in DOMAIN tasks',
                      tasks'[i].job = tasks'[k].job
               PROVE  i = k
    OBVIOUS
  <2>1. i \in Int /\ k \in Int
    BY <1>6, <1>8
  <2>2. CASE i # 1 /\ k # 1
    <3>1. /\ i - 1 \in DOMAIN tasks /\ k - 1 \in DOMAIN tasks
          /\ tasks[i - 1].job = tasks[k - 1].job
      BY <1>6, <2>2
    <3>2. i - 1 = k - 1
      BY <3>1 DEF IInv, Once
    <3> QED BY <2>1, <3>2
  <2>3. ASSUME NEW m \in DOMAIN tasks', m # 1, tasks'[m].job = j PROVE FALSE
    <3>1. m - 1 \in DOMAIN tasks /\ tasks[m - 1].job = j
      BY <1>6, <2>3
    <3> QED BY <1>10, <3>1 DEF TaskJobs
  <2> QED BY <1>4, <1>6, <2>2, <2>3
<1>14. \A i, k \in DOMAIN channels' : channels'[i] = channels'[k] => i = k
  <2> SUFFICES ASSUME NEW i \in DOMAIN channels', NEW k \in DOMAIN channels',
                      channels'[i] = channels'[k]
               PROVE  i = k
    OBVIOUS
  <2>1. i \in Int /\ k \in Int
    BY <1>7, <1>8
  <2>2. CASE i # 1 /\ k # 1
    <3>1. /\ i - 1 \in DOMAIN channels /\ k - 1 \in DOMAIN channels
          /\ channels[i - 1] = channels[k - 1]
      BY <1>7, <2>2
    <3>2. i - 1 = k - 1
      BY <3>1 DEF IInv, Once
    <3> QED BY <2>1, <3>2
  <2>3. ASSUME NEW m \in DOMAIN channels', m # 1, channels'[m] = j PROVE FALSE
    <3>1. m - 1 \in DOMAIN channels /\ channels[m - 1] = j
      BY <1>7, <2>3
    <3> QED BY <1>10, <3>1 DEF ToSet
  <2> QED BY <1>7, <2>2, <2>3
<1>15. Once'
  <2>1. \A x \in TaskJobs \cup ToSet(channels) : x \in Jobs /\ proc[x] # "unborn"
    BY ListedAreJobs DEF IInv, Once, Typed
  <2>2. \A x \in TaskJobs' \cup ToSet(channels)' : proc'[x] # "unborn"
    BY <1>5, <1>11, <1>12, <2>1
  <2> QED BY <1>13, <1>14, <2>2 DEF Once
<1>16. Typed'
  BY <1>1, <1>5, <1>6, <1>7 DEF IInv, Typed, JobsTyped, PipesTyped, ListsTyped,
                                LoopsTyped, States
<1>17. Shape'
  BY <1>1 DEF IInv, Shape
<1>18. \A x \in Jobs : Dialogs(x)' = Dialogs(x) /\ SameDialogs(x)
  BY <1>1 DEF Dialogs, SameDialogs
<1>19. ASSUME NEW x \in Jobs PROVE Served(x)'
  BY <1>1, <1>18 DEF IInv, Served
<1>20. ASSUME NEW x \in Jobs, x # j PROVE Followed(x)' /\ Settled(x)'
  <2>1. Same(x)
    BY <1>1, <1>5, <1>11, <1>12, <1>18, <1>20 DEF Same, Rd
  <2> QED BY <2>1, SameFollowed, SameSettled DEF IInv
<1>21. ~Dropped(j)
  BY <1>1 DEF IInv, Followed, Unheard
<1>22. PICK p \in States : Place(j, p) /\ Listed(j, p) /\ Was(j, p)
  BY <1>21 DEF IInv, Followed
<1>23. p = "unborn" /\ j \notin lost
  BY <1>1, <1>22 DEF Was
<1>24. Quiet(j, p)
  BY <1>22, <1>23 DEF Place, InPipe, Shown, Answered
<1>25. Quiet(j, "working")'
  BY <1>1, <1>18, <1>24 DEF Quiet, Rd
<1>26. Listed(j, "working")' /\ Was(j, "working")'
  BY <1>1, <1>5, <1>11, <1>12, <1>23 DEF Listed, Ended, Was
<1>27. Followed(j)'
  BY <1>1, <1>23, <1>25, <1>26 DEF Followed, Dropped, Place, States
<1>28. Settled(j)'
  BY <1>1, <1>18, <1>21 DEF IInv, Settled
<1> QED BY <1>15, <1>16, <1>17, <1>19, <1>20, <1>27, <1>28 DEF IInv

(* The list of jobs is shown over the panels alone: no dialog is open.     *)
LEMMA ListIsOverPanels ==
  ASSUME Shape, LoopsTyped, Top.kind = "jobs", NEW x
  PROVE  Dialogs(x) = {}
<1>1. /\ Len(stack) \in Nat \ {0} /\ DOMAIN stack = 1 .. Len(stack)
      /\ Top = stack[Len(stack)]
  BY TopIsTyped
<1>2. Len(stack) = 2
  <2>1. Len(stack) # 1
    BY <1>1 DEF Shape
  <2>2. Len(stack) \notin 3 .. Len(stack)
    BY <1>1 DEF Shape
  <2> QED BY <1>1, <2>1, <2>2
<1>3. \A i \in DOMAIN stack : i = 1 \/ i = 2
  BY <1>1, <1>2
<1>4. stack[1].kind = "panels" /\ stack[2].kind = "jobs"
  BY <1>1, <1>2 DEF Shape
<1> QED BY <1>3, <1>4 DEF Dialogs

LEMMA TaskCbKeeps ==
  ASSUME IInv, NEW j \in Jobs, TaskCb(j) PROVE IInv'
<1>1. /\ Top.kind = "jobs" /\ reading = NotReading
      /\ UNCHANGED <<asked, req, all, up, down, ctx, reading, saidAll>>
  BY DEF TaskCb, InLoop, Idle
<1>2. /\ LoopsTyped /\ tasks \in Seq(Task) /\ channels \in Seq(Jobs)
      /\ proc \in [Jobs -> States] /\ stopped \subseteq Jobs /\ lost \subseteq Jobs
  BY DEF IInv, Typed, ListsTyped, JobsTyped, States
<1>3. \A x \in Jobs : Dialogs(x) = {}
  BY <1>1, <1>2, ListIsOverPanels DEF IInv
<1>4. \/ /\ j \notin TaskJobs
         /\ Refill(tasks)
         /\ crashed' \in BOOLEAN
         /\ UNCHANGED <<proc, stopped, tasks, channels, lost>>
      \/ \E state \in {"running", "stopped"} :
           /\ j \in TaskJobs /\ crashed' = crashed
           /\ tasks' = SetState(j, state) /\ Refill(tasks')
           /\ stopped' \subseteq stopped \cup {j}
           /\ UNCHANGED <<proc, channels, lost>>
      \/ /\ j \in TaskJobs /\ crashed' = crashed
         /\ tasks' = TasksWithout(j) /\ Refill(tasks')
         /\ channels' = ChannelsWithout(j)
         /\ Killed(j) \/ (lost' = lost \cup {j} /\ UNCHANGED <<proc, stopped>>)
  <2>1. CASE j \notin TaskJobs
    BY <2>1, Zenon DEF TaskCb
  <2>2. CASE j \in TaskJobs
    <3>1. crashed' = crashed
      BY <2>2, Zenon DEF TaskCb
    <3>2. \/ /\ tasks' = SetState(j, "stopped") /\ Refill(tasks')
             /\ stopped' = IF proc[j] = "gone" THEN stopped ELSE stopped \cup {j}
             /\ UNCHANGED <<proc, channels, lost>>
          \/ /\ tasks' = SetState(j, "running") /\ Refill(tasks')
             /\ stopped' = stopped \ {j}
             /\ UNCHANGED <<proc, channels, lost>>
          \/ /\ tasks' = TasksWithout(j) /\ Refill(tasks')
             /\ channels' = ChannelsWithout(j)
             /\ Killed(j) \/ (lost' = lost \cup {j} /\ UNCHANGED <<proc, stopped>>)
      BY <2>2, Zenon DEF TaskCb
    <3>3. CASE /\ tasks' = SetState(j, "stopped") /\ Refill(tasks')
               /\ stopped' = IF proc[j] = "gone" THEN stopped ELSE stopped \cup {j}
               /\ UNCHANGED <<proc, channels, lost>>
      <4>1. stopped' \subseteq stopped \cup {j}
        BY <3>3
      <4> QED BY <2>2, <3>1, <3>3, <4>1, Zenon
    <3>4. CASE /\ tasks' = SetState(j, "running") /\ Refill(tasks')
               /\ stopped' = stopped \ {j}
               /\ UNCHANGED <<proc, channels, lost>>
      <4>1. stopped' \subseteq stopped \cup {j}
        BY <3>4
      <4> QED BY <2>2, <3>1, <3>4, <4>1, Zenon
    <3> QED BY <2>2, <3>1, <3>2, <3>3, <3>4, Zenon
  <2> QED BY <2>1, <2>2
<1>5. /\ reading' = NotReading
      /\ \A x \in Jobs : ~Rd(x) /\ ~Rd(x)' /\ reading'.job # x
  BY <1>1, BackgroundAssumption DEF NotReading, Rd
<1>6. ASSUME NEW ts \in Seq(Task), stack' = SetTop([Top EXCEPT !.items = Items(ts)])
      PROVE  /\ Reframed /\ Shape' /\ LoopsTyped'
             /\ \A x \in Jobs : SameDialogs(x) /\ Served(x)'
  <2> DEFINE s == Items(ts)
             f == [Top EXCEPT !.items = s]
  <2>1. s \in Seq(Jobs)
    BY ItemsAreJobs
  <2> HIDE DEF s
  <2>2. Top \in FrameSet
    BY <1>2, TopIsTyped
  <2>3. f \in FrameSet /\ f.kind = Top.kind /\ f.job = Top.job /\ f.to = Top.to
    BY <2>1, <2>2 DEF FrameSet
  <2>4. stack' = SetTop(f)
    BY <1>6 DEF s
  <2> HIDE DEF f
  <2>5. Reframed
    BY <1>2, <2>3, <2>4, TopIsSet DEF Reframed
  <2>6. \A x \in Jobs : SameDialogs(x)
    BY <2>5, LoopsKeepDialogs DEF Reframed
  <2>7. \A x \in Jobs : Dialogs(x)' = {}
    BY <1>3, <2>6 DEF SameDialogs
  <2>8. \A x \in Jobs : Served(x)'
    BY <2>7 DEF Served
  <2>9. Shape'
    BY <1>2, <2>5, ReframedShape DEF IInv
  <2>10. LoopsTyped'
    BY <1>1, <1>2, <2>5 DEF LoopsTyped, Reframed
  <2> QED BY <2>5, <2>6, <2>8, <2>9, <2>10
<1>7. CASE /\ Refill(tasks) /\ crashed' \in BOOLEAN
           /\ UNCHANGED <<proc, stopped, tasks, channels, lost>>
  <2>1. /\ Shape' /\ LoopsTyped' /\ \A x \in Jobs : SameDialogs(x) /\ Served(x)'
    BY <1>2, <1>6, <1>7 DEF Refill
  <2>2. Typed' /\ Once'
    BY <1>1, <1>7, <2>1 DEF IInv, Typed, JobsTyped, PipesTyped, ListsTyped, Once,
                            TaskJobs
  <2>3. ASSUME NEW x \in Jobs PROVE Followed(x)' /\ Settled(x)'
    <3>1. Same(x)
      BY <1>1, <1>5, <1>7, <2>1 DEF Same, TaskJobs
    <3> QED BY <3>1, SameFollowed, SameSettled DEF IInv
  <2> QED BY <2>1, <2>2, <2>3 DEF IInv
<1>8. ASSUME NEW state \in {"running", "stopped"},
             tasks' = SetState(j, state), Refill(tasks'), crashed' = crashed,
             stopped' \subseteq stopped \cup {j}, UNCHANGED <<proc, channels, lost>>
      PROVE  IInv'
  <2>1. DOMAIN tasks = 1 .. Len(tasks) /\ Len(tasks) \in Nat
    BY <1>2, LenProperties
  <2>2. DOMAIN tasks' = DOMAIN tasks
    BY <1>8 DEF SetState
  <2>3. ASSUME NEW i \in DOMAIN tasks
        PROVE  tasks'[i] \in Task /\ tasks'[i].job = tasks[i].job
    <3>1. tasks[i] \in Task
      BY <1>2, <2>1, ElementOfSeq
    <3>2. tasks'[i] = IF tasks[i].job = j THEN [tasks[i] EXCEPT !.state = state]
                                         ELSE tasks[i]
      BY <1>8 DEF SetState
    <3> QED BY <1>8, <3>1, <3>2 DEF Task
  <2>4. tasks' \in Seq(Task)
    <3>1. tasks' \in [1 .. Len(tasks) -> Task]
      BY <1>8, <2>1, <2>3 DEF SetState
    <3> QED BY <2>1, <3>1, SeqDef
  <2>5. TaskJobs' = TaskJobs
    BY <2>2, <2>3 DEF TaskJobs
  <2>6. /\ Shape' /\ LoopsTyped' /\ \A x \in Jobs : SameDialogs(x) /\ Served(x)'
    BY <1>6, <1>8, <2>4 DEF Refill
  <2>7. Typed'
    BY <1>1, <1>8, <2>4, <2>6 DEF IInv, Typed, JobsTyped, PipesTyped, ListsTyped
  <2>8. Once'
    <3>1. ToSet(channels)' = ToSet(channels)
      BY <1>8
    <3> QED BY <1>8, <2>2, <2>3, <2>5, <3>1 DEF IInv, Once
  <2>9. ASSUME NEW x \in Jobs PROVE Followed(x)' /\ Settled(x)'
    <3>1. Same(x)
      BY <1>1, <1>5, <1>8, <2>5, <2>6 DEF Same
    <3> QED BY <3>1, SameFollowed, SameSettled DEF IInv
  <2> QED BY <2>6, <2>7, <2>8, <2>9 DEF IInv
<1>9. CASE /\ j \in TaskJobs /\ crashed' = crashed
           /\ tasks' = TasksWithout(j) /\ Refill(tasks')
           /\ channels' = ChannelsWithout(j)
           /\ Killed(j) \/ (lost' = lost \cup {j} /\ UNCHANGED <<proc, stopped>>)
  <2>1. PICK ts : ts = TasksWithout(j)
    OBVIOUS
  <2>2. PICK cs : cs = ChannelsWithout(j)
    OBVIOUS
  <2>3. tasks' = ts /\ channels' = cs
    BY <1>9, <2>1, <2>2
  <2>4. /\ ts \in Seq(Task) /\ {ts[i].job : i \in DOMAIN ts} = TaskJobs \ {j}
        /\ \A i, k \in DOMAIN ts : ts[i].job = ts[k].job => i = k
    <3>1. \A i, k \in DOMAIN tasks : tasks[i].job = tasks[k].job => i = k
      BY DEF IInv, Once
    <3> QED BY <1>2, <1>9, <2>1, <3>1, TaskTakenOut
  <2>5. /\ cs \in Seq(Jobs) /\ ToSet(cs) = ToSet(channels) \ {j}
        /\ \A i, k \in DOMAIN cs : cs[i] = cs[k] => i = k
    BY <1>2, <2>2, ChannelTakenOut DEF IInv, Once
  <2>6. TaskJobs' = TaskJobs \ {j} /\ ToSet(channels)' = ToSet(channels) \ {j}
    <3>1. TaskJobs' = {ts[i].job : i \in DOMAIN ts}
      BY <2>3 DEF TaskJobs
    <3> QED BY <2>3, <2>4, <2>5, <3>1
  <2>7. /\ lost' = lost \cup {j} /\ stopped' \subseteq Jobs
        /\ proc' \in [Jobs -> States] /\ proc'[j] # "unborn"
        /\ \A x \in Jobs : x # j => proc'[x] = proc[x]
    <3>1. proc[j] # "unborn"
      BY <1>9 DEF IInv, Once
    <3>2. CASE Killed(j)
      <4>1. /\ proc' = [proc EXCEPT ![j] = "gone"] /\ stopped' = stopped \ {j}
            /\ lost' = lost \cup {j}
        BY <3>2 DEF Killed
      <4> QED BY <1>2, <4>1 DEF States
    <3>3. CASE lost' = lost \cup {j} /\ UNCHANGED <<proc, stopped>>
      BY <1>2, <3>1, <3>3
    <3> QED BY <1>9, <3>2, <3>3
  <2>8. /\ Shape' /\ LoopsTyped' /\ \A x \in Jobs : SameDialogs(x) /\ Served(x)'
    BY <1>6, <1>9, <2>3, <2>4 DEF Refill
  <2>9. Typed'
    BY <1>1, <1>2, <1>9, <2>3, <2>4, <2>5, <2>7, <2>8
       DEF IInv, Typed, JobsTyped, PipesTyped, ListsTyped, States
  <2>10. Once'
    <3>1. \A x \in TaskJobs \cup ToSet(channels) : x \in Jobs /\ proc[x] # "unborn"
      BY ListedAreJobs DEF IInv, Once, Typed
    <3>2. \A x \in TaskJobs' \cup ToSet(channels)' : proc'[x] # "unborn"
      BY <2>6, <2>7, <3>1
    <3> QED BY <2>3, <2>4, <2>5, <3>2 DEF Once
  <2>11. ASSUME NEW x \in Jobs, x # j PROVE Followed(x)' /\ Settled(x)'
    <3>1. Same(x)
      BY <1>1, <1>5, <2>6, <2>7, <2>8, <2>11 DEF Same
    <3> QED BY <3>1, SameFollowed, SameSettled DEF IInv
  <2>12. Dropped(j)'
    BY <2>6, <2>7 DEF Dropped
  <2>13. Unheard(j)'
    BY <1>3, <1>5, <2>6, <2>7, <2>8 DEF Unheard, SameDialogs
  <2>14. Followed(j)' /\ Settled(j)'
    BY <2>12, <2>13 DEF Followed, Settled
  <2> QED BY <2>8, <2>9, <2>10, <2>11, <2>14 DEF IInv
<1> QED BY <1>4, <1>7, <1>8, <1>9

-----------------------------------------------------------------------------
(* The invariant holds at first and after every step.                      *)

LEMMA InitInvariant ==
  ASSUME Init PROVE IInv
<1> DEFINE f == Frame("panels", NoJob, <<>>)
<1>1. f \in FrameSet /\ f.kind = "panels"
  <2>1. <<>> \in Seq(Jobs)
    OBVIOUS
  <2> QED BY <2>1 DEF Frame, FrameSet
<1>2. stack = <<f>>
  BY DEF Init
<1> HIDE DEF f
<1>3. /\ stack \in Seq(FrameSet) /\ stack # <<>> /\ Len(stack) = 1
      /\ DOMAIN stack = {1} /\ stack[1] = f
  BY <1>1, <1>2
<1>4. Typed
  <2>1. JobsTyped
    <3>1. asked = [j \in Jobs |-> 0] /\ \A j \in Jobs : MaxAsks[j] \in Nat
      BY BackgroundAssumption DEF Init
    <3>2. asked \in [Jobs -> Nat] /\ \A j \in Jobs : asked[j] <= MaxAsks[j]
      BY <3>1
    <3>3. /\ proc \in [Jobs -> {"unborn", "working", "asking", "waiting", "gone"}]
          /\ req \in [Jobs -> Kinds]
      BY DEF Init, Kinds
    <3>4. /\ all \in [Jobs -> BOOLEAN] /\ ctx \in [Jobs -> BOOLEAN]
          /\ stopped \subseteq Jobs /\ lost \subseteq Jobs /\ saidAll \subseteq Jobs
          /\ crashed \in BOOLEAN
      BY DEF Init
    <3> QED BY <3>2, <3>3, <3>4 DEF JobsTyped
  <2>2. PipesTyped /\ ListsTyped
    BY DEF Init, PipesTyped, ListsTyped
  <2>3. LoopsTyped
    BY <1>3 DEF Init, LoopsTyped, NotReading, Kinds
  <2> QED BY <2>1, <2>2, <2>3 DEF Typed
<1>5. TaskJobs = {} /\ ToSet(channels) = {}
  BY DEF Init, TaskJobs, ToSet
<1>6. Once
  BY <1>5 DEF Init, Once
<1>7. Shape
  <2>1. \A i \in 2 .. Len(stack) : FALSE
    BY <1>3
  <2>2. \A i \in 3 .. Len(stack) : FALSE
    BY <1>3
  <2> QED BY <1>1, <1>3, <2>1, <2>2 DEF Shape
<1>8. ASSUME NEW j \in Jobs PROVE Followed(j) /\ Settled(j) /\ Served(j)
  <2>1. Dialogs(j) = {}
    BY <1>1, <1>3 DEF Dialogs
  <2>2. /\ proc[j] = "unborn" /\ up[j] = <<>> /\ down[j] = <<>> /\ j \notin lost
        /\ j \notin saidAll
    BY DEF Init
  <2>3. reading.job # j
    BY BackgroundAssumption DEF Init, NotReading
  <2>4. Quiet(j, "unborn") /\ Listed(j, "unborn") /\ Was(j, "unborn")
    BY <1>5, <2>1, <2>2, <2>3 DEF Quiet, Rd, Listed, Was
  <2>5. Followed(j)
    BY <2>2, <2>4 DEF Followed, Dropped, Place, States
  <2> QED BY <2>1, <2>2, <2>3, <2>5 DEF Settled, Served
<1> QED BY <1>4, <1>6, <1>7, <1>8 DEF IInv

LEMMA StutterKeeps ==
  ASSUME IInv, UNCHANGED vars PROVE IInv'
<1>1. /\ UNCHANGED mc /\ up' = up /\ down' = down /\ stopped' = stopped
      /\ proc' = proc /\ asked' = asked /\ req' = req /\ all' = all
      /\ lost' = lost /\ saidAll' = saidAll
  BY DEF vars, children
<1>2. /\ ListsTyped' /\ LoopsTyped' /\ Shape' /\ TaskJobs' = TaskJobs
      /\ \A x \in Jobs : Served(x)' /\ SameDialogs(x) /\ (Rd(x)' <=> Rd(x))
  BY <1>1, McUnmoved
<1>3. tasks' = tasks /\ channels' = channels /\ reading' = reading /\ crashed' = crashed
  BY <1>1 DEF mc
<1>4. Typed'
  BY <1>1, <1>2, <1>3 DEF IInv, Typed, JobsTyped, PipesTyped, mc
<1>5. Once'
  BY <1>1, <1>2, <1>3 DEF IInv, Once
<1>6. ASSUME NEW x \in Jobs PROVE Followed(x)' /\ Settled(x)'
  <2>1. Same(x)
    BY <1>1, <1>2, <1>3 DEF Same
  <2> QED BY <2>1, SameFollowed, SameSettled DEF IInv
<1> QED BY <1>2, <1>4, <1>5, <1>6 DEF IInv

LEMMA NextKeeps ==
  ASSUME IInv, [Next]_vars PROVE IInv'
<1>1. ASSUME NEW j \in Jobs, Ask(j) PROVE IInv'
  <2>1. PICK kind \in {"error", "recursive"} : AskAs(j, kind)
    BY <1>1 DEF Ask
  <2>2. /\ asked' = [asked EXCEPT ![j] = asked[j] + 1] /\ asked[j] < MaxAsks[j]
        /\ asked \in [Jobs -> Nat] /\ \A x \in Jobs : asked[x] <= MaxAsks[x]
    BY <1>1 DEF Ask, IInv, Typed, JobsTyped
  <2>3. \A x \in Jobs : MaxAsks[x] \in Nat
    BY BackgroundAssumption
  <2>4. asked' \in [Jobs -> Nat] /\ \A x \in Jobs : asked'[x] <= MaxAsks[x]
    BY <2>2, <2>3
  <2>5. kind \in Kinds
    BY DEF Kinds
  <2> QED BY <2>1, <2>4, <2>5, AskKeeps
<1>2. ASSUME NEW j \in Jobs, Leave(j) PROVE IInv'
  <2>1. AskAs(j, "end") /\ asked' = asked /\ "end" \in Kinds
    BY <1>2 DEF Leave, Kinds
  <2>2. asked' \in [Jobs -> Nat] /\ \A x \in Jobs : asked'[x] <= MaxAsks[x]
    BY <2>1 DEF IInv, Typed, JobsTyped
  <2> QED BY <2>1, <2>2, AskKeeps
<1>3. ASSUME NEW j \in Jobs, JobStep(j) \/ Dies(j) \/ StartJob(j) \/ TaskCb(j)
      PROVE  IInv'
  BY <1>1, <1>2, <1>3, WriteRestKeeps, ReceiveKeeps, DiesKeeps, StartJobKeeps,
     TaskCbKeeps DEF JobStep
<1>4. ASSUME Select \/ Serve \/ User PROVE IInv'
  BY <1>4, SelectKeeps, CheckSelectsKeeps, ReadHeadKeeps, ReadBodyKeeps, AnswerKeeps,
     RunProgramKeeps, ProgramEndsKeeps, JobsCmdKeeps, JobsOkKeeps DEF Serve, User
<1> QED BY <1>3, <1>4, StutterKeeps DEF Next

LEMMA Invariant == Spec => []IInv
<1>1. Init => IInv
  BY InitInvariant
<1>2. IInv /\ [Next]_vars => IInv'
  BY NextKeeps
<1> QED BY <1>1, <1>2, PTL DEF Spec

-----------------------------------------------------------------------------
(* What the invariant gives.                                               *)

LEMMA InvariantTypes == ASSUME IInv PROVE TypeOK
<1>1. JobsTyped /\ PipesTyped /\ ListsTyped /\ LoopsTyped
  BY DEF IInv, Typed
<1>2. \A j \in Jobs : asked[j] \in 0 .. MaxAsks[j]
  BY <1>1, BackgroundAssumption DEF JobsTyped
<1>3. \A i \in DOMAIN stack : stack[i] \in FrameSet
  BY <1>1, ElementOfSeq, LenProperties DEF LoopsTyped
<1>4. \A i \in DOMAIN stack :
        /\ stack[i].kind \in {"panels", "program", "jobs", "error", "recursive"}
        /\ stack[i].job \in Jobs \cup {NoJob} /\ stack[i].to \in Jobs \cup {NoJob}
        /\ stack[i].bits \subseteq Jobs /\ stack[i].static \in BOOLEAN
        /\ stack[i].items \in Seq(Jobs)
  BY <1>3 DEF FrameSet
<1> QED BY <1>1, <1>2, <1>4
        DEF TypeOK, JobsTyped, PipesTyped, ListsTyped, LoopsTyped

(* A job that was not lost is followed in the state it is in.              *)
LEMMA JobIsFollowed ==
  ASSUME IInv, NEW j \in Jobs \ lost
  PROVE  Place(j, proc[j]) /\ Listed(j, proc[j])
BY DEF IInv, Followed, Dropped, Was

LEMMA InvariantPlaces == ASSUME IInv PROVE QuestionInOnePlace
<1> SUFFICES ASSUME NEW j \in Jobs \ lost
             PROVE  /\ (IF OnItsWay(j) THEN 1 ELSE 0) + Cardinality(Dialogs(j))
                         + Len(down[j])
                         = IF proc[j] \in {"asking", "waiting"} THEN 1 ELSE 0
                    /\ \A i \in Dialogs(j) : stack[i].kind = req[j] /\ stack[i].to = j
  BY DEF QuestionInOnePlace
<1>1. Place(j, proc[j])
  BY JobIsFollowed
<1>2. OnItsWay(j) <=> up[j] # <<>> \/ Rd(j)
  BY DEF OnItsWay, Rd
<1>3. Cardinality({}) = 0 /\ \A i : Cardinality({i}) = 1
  BY FS_EmptySet, FS_Singleton
<1>4. Len(<<>>) = 0 /\ \A v \in BOOLEAN : Len(<<[all |-> v]>>) = 1
  OBVIOUS
<1>5. CASE Quiet(j, proc[j])
  <2>1. Cardinality(Dialogs(j)) = 0 /\ Len(down[j]) = 0 /\ ~OnItsWay(j)
    BY <1>2, <1>3, <1>4, <1>5 DEF Quiet
  <2> QED BY <1>5, <2>1 DEF Quiet
<1>6. CASE InPipe(j, proc[j])
  <2>1. Cardinality(Dialogs(j)) = 0 /\ Len(down[j]) = 0
    BY <1>3, <1>4, <1>6 DEF InPipe
  <2>2. OnItsWay(j) /\ proc[j] \in {"asking", "waiting"}
    BY <1>2, <1>6 DEF InPipe
  <2> QED BY <1>6, <2>1, <2>2 DEF InPipe
<1>7. CASE Shown(j, proc[j])
  <2>1. Cardinality(Dialogs(j)) = 1 /\ Len(down[j]) = 0 /\ ~OnItsWay(j)
    BY <1>2, <1>3, <1>4, <1>7 DEF Shown
  <2> QED BY <1>7, <2>1 DEF Shown
<1>8. CASE Answered(j, proc[j])
  <2>1. Cardinality(Dialogs(j)) = 0 /\ Len(down[j]) = 1 /\ ~OnItsWay(j)
    BY <1>2, <1>3, <1>4, <1>8 DEF Answered
  <2> QED BY <1>8, <2>1 DEF Answered
<1> QED BY <1>1, <1>5, <1>6, <1>7, <1>8 DEF Place

LEMMA InvariantLists == ASSUME IInv PROVE JobsAreListed
<1> SUFFICES ASSUME NEW j \in Jobs \ lost
             PROVE  /\ Cardinality({i \in DOMAIN tasks : tasks[i].job = j})
                         = IF /\ proc[j] \notin {"unborn", "gone"}
                              /\ ~(proc[j] = "waiting" /\ req[j] = "end"
                                     /\ down[j] # <<>>)
                           THEN 1 ELSE 0
                    /\ proc[j] \notin {"unborn", "gone"} =>
                         \/ proc[j] = "waiting" /\ req[j] = "end" /\ down[j] # <<>>
                         \/ j \in ToSet(channels)
  BY DEF JobsAreListed
<1> DEFINE S == {i \in DOMAIN tasks : tasks[i].job = j}
<1>1. Listed(j, proc[j])
  BY JobIsFollowed
<1>2. j \in TaskJobs => \E i : S = {i}
  <2> SUFFICES ASSUME j \in TaskJobs PROVE \E i : S = {i}
    OBVIOUS
  <2>1. PICK i \in DOMAIN tasks : tasks[i].job = j
    BY DEF TaskJobs
  <2>2. \A k \in DOMAIN tasks : tasks[k].job = j => k = i
    BY <2>1 DEF IInv, Once
  <2>3. S = {i}
    BY <2>1, <2>2
  <2> QED BY <2>3
<1>3. j \notin TaskJobs => S = {}
  BY DEF TaskJobs
<1> HIDE DEF S
<1>4. Cardinality(S) = IF j \in TaskJobs THEN 1 ELSE 0
  BY <1>2, <1>3, FS_EmptySet, FS_Singleton
<1> QED BY <1>1, <1>4 DEF Listed, Ended, S

LEMMA InvariantRemembers == ASSUME IInv PROVE AllIsRemembered
<1> SUFFICES ASSUME NEW i \in DOMAIN stack, stack[i].kind = "recursive",
                    stack[i].job \in saidAll
             PROVE  FALSE
  BY DEF AllIsRemembered
<1>1. PICK j \in Jobs : stack[i].job = j
  BY DEF IInv, Shape
<1>2. i \in Dialogs(j)
  BY <1>1 DEF Dialogs
<1>3. ~Dropped(j)
  BY <1>2, DialogMeans
<1> QED BY <1>1, <1>2, <1>3 DEF IInv, Settled

LEMMA InvariantWaits == ASSUME IInv PROVE NoCircularWait
<1> SUFFICES ASSUME reading.job \in Jobs \ lost, up[reading.job] = <<>>,
                    proc[reading.job] = "waiting", down[reading.job] = <<>>
             PROVE  FALSE
  BY DEF NoCircularWait
<1>1. PICK j \in Jobs \ lost : j = reading.job
  OBVIOUS
<1>2. Place(j, "waiting")
  BY <1>1, JobIsFollowed
<1>3. Shown(j, "waiting")
  <2>1. up[j] = <<>> /\ down[j] = <<>>
    BY <1>1
  <2>2. ~Quiet(j, "waiting") /\ ~InPipe(j, "waiting")
    BY <2>1 DEF Quiet, InPipe
  <2>3. ~Answered(j, "waiting")
    BY <2>1 DEF Answered
  <2> QED BY <1>2, <2>2, <2>3 DEF Place
<1>4. Dialogs(j) # {}
  BY <1>3 DEF Shown
<1> QED BY <1>1, <1>4 DEF IInv, Served

(* The question of a job is in exactly one place, is shown as it was asked *)
(* and is answered to the job that asked; a running job is listed once and *)
(* heard; an answer for all is not asked for again: whatever loops of mc   *)
(* are nested, and whichever jobs are stopped, killed or dropped.          *)
THEOREM QuestionsAreAccounted == Spec => []QuestionsAccounted
<1>1. IInv => QuestionsAccounted
  BY InvariantTypes, InvariantPlaces, InvariantLists, InvariantRemembers
     DEF QuestionsAccounted
<1> QED BY <1>1, Invariant, PTL

(* mc never stands in the read of a job that waits for mc.                 *)
THEOREM McAndJobsDoNotWaitInACircle == Spec => []NoCircularWait
<1>1. IInv => NoCircularWait
  BY InvariantWaits
<1> QED BY <1>1, Invariant, PTL

-----------------------------------------------------------------------------
(***************************************************************************)
(* The operations on trees.                                                *)
(***************************************************************************)

(* The records of TreeOps.                                                 *)

OpFields == {"operation", "to", "dive", "i", "follow_links", "linklist", "fn",
             "pc", "stack", "st", "erase_list", "dest_dirs", "path",
             "recursive_result", "errors"}
PastFields == {"aborted", "left_out", "dirs", "files", "broken", "born"}
IsOp(o) == o = [x \in OpFields |-> o[x]]
IsPast == past = [x \in PastFields |-> past[x]] /\ past.aborted \in BOOLEAN

(* What no function of an entry changes.                                   *)
Remains(o, r) ==
  /\ IsOp(r) /\ r.operation = o.operation /\ r.follow_links = o.follow_links
  /\ r.i = o.i

(* Where a copy is, and that it is over when it was aborted.               *)
Stops(o, aborted) ==
  /\ o.fn \in {"panel_operate", "copy_dir_dir"}
  /\ aborted =>
       \/ o.fn = "panel_operate" /\ o.pc = "end"
       \/ o.fn = "panel_operate" /\ o.pc = "value" /\ o.st = ABORT
       \/ o.fn = "copy_dir_dir" /\ o.pc = "read" /\ o.st = ABORT
CopyStops == Stops(op, past.aborted)

(* Every path leads from a directory to a directory or a file.             *)
TreeOf(D, F) ==
  /\ D \subseteq Dirs /\ F \subseteq Files \cup NewFiles
  /\ \A p \in D \cup F : p # << >> => Front(p) \in D
Rooted == TreeOf(dirs, DOMAIN files)

GoneFrom(D, F, s) == \A p \in D \cup F : ~Under(s, p)
Gone(s) == GoneFrom(dirs, DOMAIN files, s)

Paths == Dirs \cup Files \cup NewFiles
Activations == [s : Dirs, dest : Paths, toplevel : BOOLEAN, seen : {{}},
                must : SUBSET Paths]

(* Where a delete is, and that an entry whose deletion is reported is gone.*)
StandsIn(D, F, o) ==
  \/ o.fn = "panel_operate" /\ o.pc \in {"loop", "end"}
  \/ /\ o.i # 0
     /\ \/ o.fn = "panel_operate" /\ o.pc = "file" /\ Tagged[o.i] \notin D
        \/ o.fn = "panel_operate" /\ o.pc = "value" /\ (o.st = CONT => GoneFrom(D, F, Tagged[o.i]))
        \/ o.fn = "erase_dir" /\ o.pc \in {"check", "rmdir"} /\ Tagged[o.i] \in Dirs
        \/ /\ o.fn = "recursive_erase" /\ o.pc \in {"opendir", "read", "rmdir"}
           /\ o.stack \in Seq(Activations) /\ o.stack # << >>
           /\ o.stack[Len(o.stack)].s = Tagged[o.i]
Stands == StandsIn(dirs, DOMAIN files, op)
DeleteErases ==
  /\ op.follow_links = FALSE /\ op.i \in 0 .. Len(Tagged)
  /\ Range(Tagged) \cap Files \subseteq past.born
  /\ Rooted /\ Stands

-----------------------------------------------------------------------------
(* What a step of TreeOps leaves alone.                                    *)

LEMMA ValueIs ==
  ASSUME NEW o, IsOp(o), NEW st
  PROVE  /\ Remains(o, Value(o, st))
         /\ Value(o, st).fn = "panel_operate" /\ Value(o, st).pc = "value"
         /\ Value(o, st).st = st
BY DEF IsOp, Remains, Value, Call, OpFields

LEMMA EntryDoneIs ==
  ASSUME NEW o, IsOp(o), NEW p, NEW st
  PROVE  /\ Remains(o, EntryDone(o, p, st))
         /\ EntryDone(o, p, st).fn = o.fn /\ EntryDone(o, p, st).pc = "read"
         /\ EntryDone(o, p, st).st = st
BY DEF IsOp, Remains, EntryDone, OpFields

LEMMA CopyReturnsIs ==
  ASSUME NEW o, IsOp(o), NEW st
  PROVE  /\ Remains(o, CopyReturns(o, st))
         /\ o.operation = "copy" =>
              /\ CopyReturns(o, st).st = st
              /\ \/ CopyReturns(o, st).fn = "panel_operate" /\ CopyReturns(o, st).pc = "value"
                 \/ CopyReturns(o, st).fn = o.fn /\ CopyReturns(o, st).pc = "read"
<1> DEFINE popped == [o EXCEPT !.stack = Tail(@)]
           moved == [Call(o, "move_dir_dir", "copied") EXCEPT !.st = st, !.stack = << >>]
<1>1. Remains(o, popped) /\ popped.fn = o.fn
  BY DEF IsOp, Remains, OpFields
<1>2. Remains(o, moved)
  BY DEF IsOp, Remains, OpFields, Call
<1> HIDE DEF popped, moved
<1>3. /\ Remains(o, EntryDone(popped, Head(o.stack).s, st))
      /\ EntryDone(popped, Head(o.stack).s, st).fn = o.fn
      /\ EntryDone(popped, Head(o.stack).s, st).pc = "read"
      /\ EntryDone(popped, Head(o.stack).s, st).st = st
  BY <1>1, EntryDoneIs DEF Remains
<1>4. CopyReturns(o, st) = CASE Len(o.stack) > 1 -> EntryDone(popped, Head(o.stack).s, st)
                             [] o.operation = "move" /\ st = CONT -> moved
                             [] OTHER -> Value(o, st)
  BY DEF CopyReturns, popped, moved
<1>5. CASE Len(o.stack) > 1
  <2>1. CopyReturns(o, st) \in {EntryDone(popped, Head(o.stack).s, st), moved}
        /\ (o.operation = "copy" => CopyReturns(o, st) = EntryDone(popped, Head(o.stack).s, st))
    BY <1>4, <1>5
  <2> QED BY <2>1, <1>2, <1>3
<1>6. CASE ~(Len(o.stack) > 1)
  <2>1. CopyReturns(o, st) \in {Value(o, st), moved}
        /\ (o.operation = "copy" => CopyReturns(o, st) = Value(o, st))
    BY <1>4, <1>6
  <2> QED BY <2>1, <1>2, ValueIs
<1> QED BY <1>5, <1>6

LEMMA ListedDoneIs ==
  ASSUME NEW o, IsOp(o), NEW st
  PROVE  Remains(o, ListedDone(o, st))
BY DEF IsOp, Remains, ListedDone, Call, OpFields

LEMMA RecursiveReturnsIs ==
  ASSUME NEW o, IsOp(o), NEW st
  PROVE  /\ Remains(o, RecursiveReturns(o, st))
         /\ \/ /\ Len(o.stack) > 1 /\ st = CONT
               /\ RecursiveReturns(o, st) = [o EXCEPT !.stack = Tail(@), !.pc = "read"]
            \/ Len(o.stack) > 1 /\ st # CONT /\ RecursiveReturns(o, st) = Value(o, RETRY)
            \/ ~(Len(o.stack) > 1) /\ RecursiveReturns(o, st) = Value(o, st)
<1>1. Remains(o, [o EXCEPT !.stack = Tail(@), !.pc = "read"])
  BY DEF IsOp, Remains, OpFields
<1>2. Remains(o, Value(o, RETRY)) /\ Remains(o, Value(o, st))
  BY ValueIs
<1> QED BY <1>1, <1>2 DEF RecursiveReturns

LEMMA ReturnIs ==
  ASSUME IsOp(op), NEW st
  PROVE  /\ Remains(op, Return(st))
         /\ op.operation = "copy" /\ op.fn \in {"panel_operate", "copy_dir_dir"} =>
              /\ Return(st).st = st
              /\ \/ Return(st).fn = "panel_operate" /\ Return(st).pc = "value"
                 \/ Return(st).fn = "copy_dir_dir" /\ Return(st).pc = "read"
<1>1. /\ Remains(op, CopyReturns(op, st)) /\ Remains(op, RecursiveReturns(op, st))
      /\ Remains(op, ListedDone(op, st)) /\ Remains(op, Value(op, st))
      /\ Remains(op, Value(op, op.st))
  BY CopyReturnsIs, RecursiveReturnsIs, ListedDoneIs, ValueIs
<1>2. Remains(op, IffEmptyReturns(op, st))
  BY <1>1 DEF IffEmptyReturns
<1>3. Remains(op, Return(st))
  BY <1>1, <1>2 DEF Return
<1>4. op.fn = "copy_dir_dir" => Return(st) = CopyReturns(op, st)
  BY DEF Return, At
<1>5. op.fn = "panel_operate" => Return(st) = Value(op, st)
  BY DEF Return, At
<1> QED BY <1>3, <1>4, <1>5, CopyReturnsIs, ValueIs

-----------------------------------------------------------------------------
(* What a step of TreeOps leaves alone, and what an Abort does to a copy.  *)

StepRemains ==
  /\ IsOp(op)' /\ op'.operation = op.operation /\ op'.follow_links = op.follow_links
  /\ IsPast'
  /\ op.operation = "copy" /\ CopyStops => CopyStops'

LEMMA SpendIs ==
  ASSUME NEW o, IsOp(o), NEW cause
  PROVE  /\ Remains(o, Spend(o, cause))
         /\ Spend(o, cause) = [Spend(o, cause) EXCEPT !.errors = @]
         /\ Spend(o, cause).fn = o.fn /\ Spend(o, cause).pc = o.pc
         /\ Spend(o, cause).st = o.st /\ Spend(o, cause).stack = o.stack
BY DEF IsOp, Remains, Spend, OpFields

LEMMA NoteIs ==
  ASSUME IsPast, NEW abort \in BOOLEAN, NEW left_out, Note(abort, left_out)
  PROVE  IsPast' /\ past'.aborted = (past.aborted \/ abort) /\ past'.born = past.born
BY DEF IsPast, Note, PastFields

LEMMA GoesRemains ==
  ASSUME IsOp(op), IsPast, NEW o, Remains(op, o), Goes(o),
         op.operation = "copy" /\ CopyStops => Stops(o, past.aborted)
  PROVE  StepRemains /\ Remains(op, op')
BY DEF Goes, StepRemains, Remains, IsPast, CopyStops

(* Where an Abort was not given yet.                                       *)
Working == op.operation = "copy" /\ CopyStops => ~past.aborted

LEMMA FailsRemains ==
  ASSUME IsOp(op), IsPast, Working, NEW cause, Fails(cause)
  PROVE  StepRemains /\ Remains(op, op')
<1>1. PICK a \in {SKIP, RETRY, ABORT} :
         /\ op' = Spend(IF a # RETRY THEN Return(a)
                        ELSE [op EXCEPT !.st = IF op.fn = "copy_dir_dir" THEN RETRY
                                               ELSE @], cause)
         /\ Note(a = ABORT, a = SKIP)
  BY DEF Fails
<1>2. IsPast' /\ past'.aborted = (past.aborted \/ a = ABORT)
  BY <1>1, NoteIs
<1>3. CASE a # RETRY
  <2>1. op' = Spend(Return(a), cause)
    BY <1>1, <1>3
  <2>2. Remains(op, op') /\ op'.fn = Return(a).fn /\ op'.pc = Return(a).pc /\ op'.st = Return(a).st
    BY <2>1, ReturnIs, SpendIs DEF Remains
  <2> QED BY <1>2, <2>2, ReturnIs DEF StepRemains, Remains, Working, CopyStops, Stops
<1>4. CASE a = RETRY
  <2> DEFINE o == [op EXCEPT !.st = IF op.fn = "copy_dir_dir" THEN RETRY ELSE @]
  <2>1. Remains(op, o) /\ o.fn = op.fn /\ o.pc = op.pc
    BY DEF Remains, IsOp, OpFields
  <2>2. op' = Spend(o, cause)
    BY <1>1, <1>4
  <2> HIDE DEF o
  <2>3. Remains(op, op') /\ op'.fn = op.fn
    BY <2>1, <2>2, SpendIs DEF Remains
  <2>4. a # ABORT
    BY <1>4 DEF RETRY, ABORT
  <2> QED BY <1>2, <2>3, <2>4 DEF StepRemains, Remains, Working, CopyStops, Stops
<1> QED BY <1>3, <1>4

LEMMA FailsSilentlyRemains ==
  ASSUME IsOp(op), IsPast, Working, NEW o, Remains(op, o), FailsSilently(o),
         op.operation = "copy" /\ CopyStops => Stops(o, FALSE)
  PROVE  StepRemains /\ Remains(op, op')
<1>1. op' = Spend(o, FALSE) /\ Note(FALSE, op.fn = "copy_dir_dir")
  BY DEF FailsSilently
<1>2. IsPast' /\ past'.aborted = past.aborted
  BY <1>1, NoteIs DEF IsPast
<1>3. Remains(op, op') /\ op'.fn = o.fn /\ op'.pc = o.pc /\ op'.st = o.st
  BY <1>1, SpendIs DEF Remains
<1> QED BY <1>2, <1>3 DEF StepRemains, Remains, Working, CopyStops, Stops

(* A dialog that returns: to the code that asked, with a status.           *)
LEMMA ReturnRemains ==
  ASSUME IsOp(op), IsPast, Working, NEW a, op' = Return(a),
         NEW left_out, Note(a = ABORT, left_out)
  PROVE  StepRemains /\ Remains(op, op')
<1>1. IsPast' /\ past'.aborted = (past.aborted \/ a = ABORT)
  BY NoteIs
<1> QED BY <1>1, ReturnIs DEF StepRemains, Remains, Working, CopyStops, Stops

LEMMA ProgressAbortRemains ==
  ASSUME IsOp(op), IsPast, Working, ProgressAbort
  PROVE  StepRemains /\ Remains(op, op')
<1>1. op' = Return(ABORT) /\ Note(ABORT = ABORT, FALSE)
  BY DEF ProgressAbort
<1> QED BY <1>1, ReturnRemains

LEMMA ProgressShownRemains ==
  ASSUME IsOp(op), IsPast, Working, NEW o, Remains(op, o), ProgressShown(o),
         op.operation = "copy" /\ CopyStops => Stops(o, FALSE)
  PROVE  StepRemains /\ Remains(op, op')
<1>1. CASE Goes(o)
  BY <1>1, GoesRemains DEF Goes, Working, CopyStops, Stops, StepRemains, IsPast, Remains
<1>2. CASE \E a \in {SKIP, ABORT} : op' = Return(a) /\ Note(a = ABORT, a = SKIP)
  BY <1>2, ReturnRemains
<1> QED BY <1>1, <1>2 DEF ProgressShown

LEMMA FileDoneIs ==
  ASSUME NEW o, IsOp(o), NEW p, NEW st
  PROVE  /\ Remains(o, FileDone(o, p, st))
         /\ FileDone(o, p, st).st = st
         /\ \/ FileDone(o, p, st).fn = "panel_operate" /\ FileDone(o, p, st).pc = "value"
            \/ o.fn = "copy_dir_dir" /\ FileDone(o, p, st).fn = o.fn /\ FileDone(o, p, st).pc = "read"
BY EntryDoneIs, ValueIs DEF FileDone

LEMMA RememberedIs ==
  ASSUME NEW o, IsOp(o), NEW p, NEW q
  PROVE  Remains(o, Remembered(o, p, q)) /\ Remembered(o, p, q).fn = o.fn
<1> DEFINE l == With(o.linklist, files[p].ino, [name |-> p, dest |-> q])
<1>1. Remains(o, [o EXCEPT !.linklist = l]) /\ [o EXCEPT !.linklist = l].fn = o.fn
  BY DEF Remains, IsOp, OpFields
<1> HIDE DEF l
<1>2. Remembered(o, p, q) \in {o, [o EXCEPT !.linklist = l]}
  BY DEF Remembered, l
<1>3. Remains(o, o)
  BY DEF Remains
<1> QED BY <1>1, <1>2, <1>3

(* A file is done with a status.                                           *)
LEMMA DoneRemains ==
  ASSUME IsOp(op), IsPast, Working, NEW o, Remains(op, o), NEW p, NEW st, NEW cause,
         op' = Spend(FileDone(o, p, st), cause), IsPast',
         past'.aborted = (past.aborted \/ st = ABORT)
  PROVE  StepRemains /\ Remains(op, op')
<1> DEFINE r == FileDone(o, p, st)
<1>1. /\ Remains(op, r) /\ r.st = st
      /\ \/ r.fn = "panel_operate" /\ r.pc = "value"
         \/ r.fn = "copy_dir_dir" /\ r.pc = "read"
  <2>1. IsOp(o)
    BY DEF Remains
  <2>2. Remains(o, r) /\ r.st = st
        /\ \/ r.fn = "panel_operate" /\ r.pc = "value"
           \/ o.fn = "copy_dir_dir" /\ r.fn = o.fn /\ r.pc = "read"
    BY <2>1, FileDoneIs
  <2> QED BY <2>2 DEF Remains
<1> HIDE DEF r
<1>2. Remains(op, op') /\ op'.fn = r.fn /\ op'.pc = r.pc /\ op'.st = r.st
  BY <1>1, SpendIs DEF Remains, r
<1> QED BY <1>1, <1>2 DEF StepRemains, Remains, Working, CopyStops, Stops

LEMMA CopyFileRemains ==
  ASSUME IsOp(op), IsPast, Working, NEW o, Remains(op, o), NEW p, NEW q, CopyFile(o, p, q)
  PROVE  StepRemains /\ Remains(op, op')
<1>s. \A r : IsOp(r) => Spend(r, TRUE) = r
  BY DEF IsOp, Spend, OpFields
<1>o. IsOp(o)
  BY DEF Remains
<1>1. CASE RefusesFile(o, p, q)
  <2> DEFINE cause == q \in dirs \/ SameFile(p, q) \/ (o.follow_links /\ p \in DOMAIN Links)
  <2>1. PICK a \in {SKIP, ABORT} : op' = Spend(FileDone(o, p, a), cause)
                                   /\ Note(a = ABORT, a = SKIP)
    BY <1>1 DEF RefusesFile
  <2> HIDE DEF cause
  <2>2. IsPast' /\ past'.aborted = (past.aborted \/ a = ABORT)
    BY <2>1, NoteIs
  <2> QED BY <2>1, <2>2, DoneRemains
<1>2. CASE LinkFile(o, p, q)
  <2>1. op' = FileDone(o, p, CONT) /\ past' = past
    BY <1>2 DEF LinkFile
  <2>2. IsOp(FileDone(o, p, CONT))
    BY <1>o, FileDoneIs DEF Remains
  <2>3. op' = Spend(FileDone(o, p, CONT), TRUE)
    BY <2>1, <2>2, <1>s
  <2>4. IsPast' /\ past'.aborted = (past.aborted \/ CONT = ABORT)
    BY <2>1 DEF IsPast, CONT, ABORT
  <2> QED BY <2>3, <2>4, DoneRemains
<1>3. CASE CopyContents(o, p, q)
  <2> DEFINE o2 == Remembered(o, p, q)
  <2>1. Remains(op, o2)
    BY <1>o, RememberedIs DEF Remains
  <2> HIDE DEF o2
  <2>2. \/ past' = past /\ \E free : op' = Spend(FileDone(o2, p, CONT), free)
        \/ \E a \in {SKIP, ABORT} :
             /\ op' = Spend(FileDone(o2, p, a), FALSE)
             /\ past' = [past EXCEPT !.aborted = @ \/ a = ABORT,
                                     !.left_out = @ \/ a = SKIP,
                                     !.broken = @ \cup {files[p].ino}]
    BY <1>3 DEF CopyContents, o2
  <2>3. CASE past' = past /\ \E free : op' = Spend(FileDone(o2, p, CONT), free)
    <3>1. PICK free : op' = Spend(FileDone(o2, p, CONT), free)
      BY <2>3
    <3>2. IsPast' /\ past'.aborted = (past.aborted \/ CONT = ABORT)
      BY <2>3 DEF IsPast, CONT, ABORT
    <3> QED BY <2>1, <3>1, <3>2, DoneRemains
  <2>4. ASSUME NEW a \in {SKIP, ABORT}, op' = Spend(FileDone(o2, p, a), FALSE),
               past' = [past EXCEPT !.aborted = @ \/ a = ABORT, !.left_out = @ \/ a = SKIP,
                                    !.broken = @ \cup {files[p].ino}]
        PROVE  StepRemains /\ Remains(op, op')
    <3>1. IsPast' /\ past'.aborted = (past.aborted \/ a = ABORT)
      BY <2>4 DEF IsPast, PastFields
    <3> QED BY <2>1, <2>4, <3>1, DoneRemains
  <2> QED BY <2>2, <2>3, <2>4
<1> QED BY <1>1, <1>2, <1>3 DEF CopyFile

-----------------------------------------------------------------------------
(* The steps: what remains.                                                *)

LEMMA NextEntryRemains ==
  ASSUME IsOp(op), IsPast, NextEntry
  PROVE  StepRemains
<1>a. op.fn = "panel_operate" /\ op.pc = "loop"
  BY DEF NextEntry, At
<1>1. CASE op.i = Len(Tagged)
  <2> DEFINE o == [op EXCEPT !.pc = "end"]
  <2>1. Goes(o)
    BY <1>1 DEF NextEntry
  <2>2. Remains(op, o) /\ o.fn = op.fn /\ o.pc = "end"
    BY DEF Remains, IsOp, OpFields
  <2> HIDE DEF o
  <2> QED BY <1>a, <2>1, <2>2, GoesRemains DEF Stops, CopyStops
<1>2. CASE op.i # Len(Tagged)
  <2> DEFINE o == [op EXCEPT !.i = @ + 1, !.st = CONT,
                             !.dest_dirs = IF op.operation = "copy" THEN {} ELSE @]
             s == Real(Tagged[o.i])
             f == << Activation(s, Append(op.to, Last(Tagged[o.i])), TRUE) >>
             copied == [Call(o, "copy_dir_dir", "stat") EXCEPT !.stack = f]
  <2>1. /\ op' = CASE s \notin dirs -> Call(o, "panel_operate", "file")
                   [] o.operation = "copy" -> copied
                   [] o.operation = "move" -> Call(o, "move_dir_dir", "stat")
                   [] OTHER -> Call(o, "erase_dir", "check")
        /\ past' = [past EXCEPT !.left_out = FALSE, !.dirs = dirs, !.files = DOMAIN files]
    BY <1>2 DEF NextEntry
  <2>2. IsOp(o) /\ o.operation = op.operation /\ o.follow_links = op.follow_links
    BY DEF IsOp, OpFields
  <2> HIDE DEF o
  <2>3. \A fn, pc : /\ Remains(o, Call(o, fn, pc)) /\ Call(o, fn, pc).fn = fn
                    /\ Call(o, fn, pc).pc = pc
    BY <2>2 DEF Remains, IsOp, OpFields, Call
  <2> HIDE DEF f, s
  <2>4. Remains(o, copied) /\ copied.fn = "copy_dir_dir"
    BY <2>2 DEF Remains, IsOp, OpFields, Call
  <2> HIDE DEF copied
  <2>5. /\ Remains(o, op')
        /\ op.operation = "copy" => op'.fn \in {"panel_operate", "copy_dir_dir"}
    BY <2>1, <2>2, <2>3, <2>4
  <2>6. IsPast' /\ past'.aborted = past.aborted
    BY <2>1 DEF IsPast, PastFields
  <2> QED BY <1>a, <2>2, <2>5, <2>6 DEF StepRemains, Remains, CopyStops, Stops
<1> QED BY <1>1, <1>2

LEMMA EntryReturnsRemains ==
  ASSUME IsOp(op), IsPast, EntryReturns
  PROVE  StepRemains /\ Remains(op, op')
<1>a. op.fn = "panel_operate" /\ op.pc = "value"
  BY DEF EntryReturns, At
<1>1. CASE op' = [op EXCEPT !.pc = IF op.st = ABORT THEN "end" ELSE "loop"] /\ past' = past
  <2>1. Remains(op, op') /\ op'.fn = op.fn /\ (op.st = ABORT => op'.pc = "end")
    BY <1>1 DEF Remains, IsOp, OpFields
  <2> QED BY <1>1, <1>a, <2>1 DEF StepRemains, Remains, IsPast, CopyStops, Stops
<1>2. CASE op' = [op EXCEPT !.pc = "end"] /\ Note(TRUE, FALSE)
  <2>1. Remains(op, op') /\ op'.fn = op.fn /\ op'.pc = "end"
    BY <1>2 DEF Remains, IsOp, OpFields
  <2>2. IsPast'
    BY <1>2, NoteIs
  <2> QED BY <1>a, <2>1, <2>2 DEF StepRemains, Remains, CopyStops, Stops
<1> QED BY <1>1, <1>2 DEF EntryReturns

LEMMA TaggedFileRemains ==
  ASSUME IsOp(op), IsPast, TaggedFile
  PROVE  StepRemains /\ Remains(op, op')
<1>a. op.fn = "panel_operate" /\ op.pc = "file"
  BY DEF TaggedFile, At
<1>w. Working
  BY <1>a DEF Working, CopyStops, Stops
<1>r. Remains(op, op)
  BY DEF Remains
<1>v. Remains(op, Value(op, CONT)) /\ Stops(Value(op, CONT), FALSE)
  BY ValueIs DEF Stops
<1>1. CASE CopyFile(op, Src, Dst)
  BY <1>1, <1>w, <1>r, CopyFileRemains
<1>2. CASE ProgressShown(Value(op, CONT))
  BY <1>2, <1>w, <1>v, ProgressShownRemains
<1>3. CASE ProgressAbort
  BY <1>3, <1>w, ProgressAbortRemains
<1>4. CASE Fails(FALSE)
  BY <1>4, <1>w, FailsRemains
<1> QED BY <1>1, <1>2, <1>3, <1>4 DEF TaggedFile

LEMMA CopyDirRemains ==
  ASSUME IsOp(op), IsPast, CopyDirDir
  PROVE  StepRemains /\ Remains(op, op')
<1> DEFINE In(o) == Remains(op, o) /\ o.fn = "copy_dir_dir"
<1>f. op.fn = "copy_dir_dir"
  BY DEF CopyDirDir, StatSource, StatDest, Mkdir, Chown, Opendir, ReadEntry,
         CopyDirEnds, At
<1>p. \A pc : In([op EXCEPT !.pc = pc])
  BY <1>f DEF Remains, IsOp, OpFields
<1>q. \A f, pc : In([InFrame(op, f) EXCEPT !.pc = pc])
  BY <1>f DEF Remains, IsOp, OpFields, InFrame
<1>r. \A st : Remains(op, Return(st)) /\ (op.operation = "copy" => Stops(Return(st), st = ABORT))
  BY <1>f, ReturnIs DEF Stops
<1>s. \A o : In(o) => Stops(o, FALSE)
  BY DEF Stops
<1>t. \A st : op.operation = "copy" => Stops(Return(st), FALSE)
  BY <1>f, ReturnIs DEF Stops
<1> HIDE DEF In
<1>g. ASSUME Working, NEW o, In(o) \/ \E st : o = Return(st), Goes(o)
      PROVE  StepRemains /\ Remains(op, op')
  <2>1. Remains(op, o)
    BY <1>g, <1>r DEF In
  <2>2. op.operation = "copy" /\ CopyStops => Stops(o, past.aborted)
    BY <1>g, <1>s, <1>t DEF Working, IsPast
  <2> QED BY <1>g, <2>1, <2>2, GoesRemains
<1>w. (At("copy_dir_dir", "read") /\ op.st = ABORT) \/ Working
  BY <1>f DEF Working, CopyStops, Stops, At
<1>1. CASE StatSource
  <2>1. Working
    BY <1>1, <1>w DEF StatSource, At
  <2>2. CASE Fails(FALSE)
    BY <2>1, <2>2, FailsRemains
  <2>3. CASE ~Fails(FALSE)
    <3> DEFINE o == CASE TopCall.s \in op.dest_dirs -> Return(CONT)
                      [] \E f \in Range(Tail(op.stack)) : f.s = TopCall.s -> Return(SKIP)
                      [] OTHER -> [op EXCEPT !.pc = "stat_dst"]
    <3>1. Goes(o)
      BY <1>1, <2>3 DEF StatSource
    <3>2. \/ o = Return(CONT) \/ o = Return(SKIP) \/ o = [op EXCEPT !.pc = "stat_dst"]
      OBVIOUS
    <3> HIDE DEF o
    <3> QED BY <2>1, <3>1, <3>2, <1>g, <1>p
  <2> QED BY <2>2, <2>3
<1>2. CASE StatDest
  <2>1. Working
    BY <1>2, <1>w DEF StatDest, At
  <2> DEFINE d == TopCall.dest
             dived == [TopCall EXCEPT !.dest = Append(d, Last(TopCall.s))]
  <2>2. \/ Goes([op EXCEPT !.pc = "mkdir"]) \/ Fails(TRUE)
        \/ Goes([InFrame(op, dived) EXCEPT !.pc = "mkdir"])
        \/ Goes([op EXCEPT !.pc = "opendir"])
    BY <1>2 DEF StatDest
  <2> HIDE DEF dived
  <2> QED BY <2>1, <2>2, <1>g, <1>p, <1>q, FailsRemains
<1>3. CASE Mkdir
  <2>1. Working
    BY <1>3, <1>w DEF Mkdir, At
  <2>2. CASE Fails(Exists(TopCall.dest))
    BY <2>1, <2>2, FailsRemains
  <2>3. CASE Goes([op EXCEPT !.pc = "chown", !.dest_dirs = @ \cup {TopCall.dest}])
    <3> DEFINE o == [op EXCEPT !.pc = "chown", !.dest_dirs = @ \cup {TopCall.dest}]
    <3>1. In(o)
      BY <1>f DEF Remains, IsOp, OpFields, In
    <3> HIDE DEF o
    <3> QED BY <2>1, <2>3, <3>1, <1>g DEF o
  <2> QED BY <1>3, <2>2, <2>3 DEF Mkdir
<1>4. CASE Chown
  <2>1. Working
    BY <1>4, <1>w DEF Chown, At
  <2> QED BY <1>4, <2>1, <1>g, <1>p, FailsRemains DEF Chown
<1>5. CASE Opendir
  <2>1. Working
    BY <1>5, <1>w DEF Opendir, At
  <2>2. CASE FailsSilently(Return(op.st))
    BY <2>1, <2>2, <1>r, <1>t, FailsSilentlyRemains
  <2>3. CASE ~FailsSilently(Return(op.st))
    <3>1. Goes([InFrame(op, [TopCall EXCEPT !.must = Children(TopCall.s)]) EXCEPT !.pc = "read"])
      BY <1>5, <2>3 DEF Opendir
    <3> QED BY <2>1, <3>1, <1>g, <1>q
  <2> QED BY <2>2, <2>3
<1>6. CASE ReadEntry
  <2>1. Working
    BY <1>6, <1>w DEF ReadEntry, At
  <2>2. PICK p \in Children(TopCall.s) \ TopCall.seen :
          LET q == Append(TopCall.dest, Last(p))
              o == InFrame(op, [TopCall EXCEPT !.seen = @ \cup {p}])
          IN \/ Goes([o EXCEPT !.pc = "stat", !.st = CONT,
                               !.stack = << Activation(Real(p), q, FALSE) >> \o @])
             \/ CopyFile(o, p, q)
    BY <1>6 DEF ReadEntry
  <2> DEFINE q == Append(TopCall.dest, Last(p))
             f == [TopCall EXCEPT !.seen = @ \cup {p}]
             o == InFrame(op, f)
             a == Activation(Real(p), q, FALSE)
             n == [o EXCEPT !.pc = "stat", !.st = CONT, !.stack = << a >> \o @]
  <2>3. Goes(n) \/ CopyFile(o, p, q)
    BY <2>2
  <2> HIDE DEF q, f, a
  <2>4. In(o) /\ IsOp(o)
    BY <1>f DEF Remains, IsOp, OpFields, InFrame, In
  <2> HIDE DEF o
  <2>5. In(n)
    BY <2>4 DEF Remains, IsOp, OpFields, In
  <2> HIDE DEF n
  <2> QED BY <2>1, <2>3, <2>4, <2>5, <1>g, CopyFileRemains DEF In
<1>7. CASE CopyDirEnds
  <2>1. Goes(Return(op.st)) /\ At("copy_dir_dir", "read")
    BY <1>7 DEF CopyDirEnds
  <2>2. op.operation = "copy" /\ CopyStops => Stops(Return(op.st), past.aborted)
    BY <1>f, <1>r, <1>t DEF CopyStops, Stops, IsPast
  <2> QED BY <2>1, <2>2, <1>r, GoesRemains
<1> QED BY <1>1, <1>2, <1>3, <1>4, <1>5, <1>6, <1>7 DEF CopyDirDir

(* The other functions are not called by a copy.                           *)
LEMMA MoveRemains ==
  ASSUME IsOp(op), IsPast, MoveDirDir
  PROVE  StepRemains /\ Remains(op, op')
<1>f. op.fn = "move_dir_dir"
  BY DEF MoveDirDir, MoveStat, MoveRename, MoveCopied, MoveErases, At
<1>w. Working /\ ~(op.operation = "copy" /\ CopyStops)
  BY <1>f DEF Working, CopyStops, Stops
<1>g. ASSUME NEW o, Remains(op, o), Goes(o) PROVE StepRemains /\ Remains(op, op')
  BY <1>g, <1>w, GoesRemains
<1>p. \A pc : Remains(op, [op EXCEPT !.pc = pc])
  BY DEF Remains, IsOp, OpFields
<1>c. Remains(op, MoveCopies)
  BY DEF MoveCopies, Remains, IsOp, OpFields, Call
<1>e. \A p : Remains(op, EraseIffEmpty(p))
  BY DEF EraseIffEmpty, Remains, IsOp, OpFields, Call
<1>r. ASSUME NEW a \in {SKIP, ABORT}, op' = Return(a), Note(a = ABORT, a = SKIP)
      PROVE  StepRemains /\ Remains(op, op')
  BY <1>r, <1>w, ReturnRemains
<1>1. CASE MoveStat
  BY <1>1, <1>w, <1>g, <1>p, <1>c, <1>r, FailsRemains, ProgressAbortRemains DEF MoveStat
<1>2. CASE MoveRename
  BY <1>2, <1>w, <1>g, <1>c, ValueIs, FailsRemains DEF MoveRename
<1>3. CASE MoveCopied
  BY <1>3, <1>g, <1>p, <1>r DEF MoveCopied
<1>4. CASE MoveErases
  BY <1>4, <1>w, <1>g, <1>e, ReturnIs, FailsRemains, ProgressAbortRemains DEF MoveErases
<1> QED BY <1>1, <1>2, <1>3, <1>4 DEF MoveDirDir

LEMMA RmdirRemains ==
  ASSUME IsOp(op), IsPast, Working, ~(op.operation = "copy" /\ CopyStops),
         NEW p, Rmdir(p)
  PROVE  StepRemains /\ Remains(op, op')
<1>1. Remains(op, Return(CONT))
  BY ReturnIs
<1> QED BY <1>1, GoesRemains, FailsRemains DEF Rmdir

LEMMA EraseRemains ==
  ASSUME IsOp(op), IsPast, EraseDirs
  PROVE  StepRemains /\ Remains(op, op')
<1>f. op.fn \in {"erase_dir_iff_empty", "erase_dir", "recursive_erase"}
  BY DEF EraseDirs, IffEmptyCheck, IffEmptyRmdir, EraseDirCheck, EraseDirRmdir,
         RecursiveOpendir, RecursiveEntry, RecursiveEnds, RecursiveRmdir, At
<1>w. Working /\ ~(op.operation = "copy" /\ CopyStops)
  BY <1>f DEF Working, CopyStops, Stops
<1>g. ASSUME NEW o, Remains(op, o), Goes(o) PROVE StepRemains /\ Remains(op, op')
  BY <1>g, <1>w, GoesRemains
<1>h. ASSUME NEW o, Remains(op, o), FailsSilently(o) PROVE StepRemains /\ Remains(op, op')
  BY <1>h, <1>w, FailsSilentlyRemains
<1>p. \A pc : Remains(op, [op EXCEPT !.pc = pc])
  BY DEF Remains, IsOp, OpFields
<1>q. \A f, pc : Remains(op, [InFrame(op, f) EXCEPT !.pc = pc])
  BY DEF Remains, IsOp, OpFields, InFrame
<1>s. \A f : Remains(op, [op EXCEPT !.pc = "opendir", !.stack = << f >> \o @])
  BY DEF Remains, IsOp, OpFields
<1>r. \A st : Remains(op, Return(st))
  BY ReturnIs
<1>a. CASE ProgressAbort
  BY <1>a, <1>w, ProgressAbortRemains
<1>b. CASE Fails(FALSE)
  BY <1>b, <1>w, FailsRemains
<1>1. CASE IffEmptyCheck
  <2>1. PICK o \in {[op EXCEPT !.pc = "rmdir"], Return(CONT)} :
          ProgressAbort \/ Goes(o) \/ FailsSilently(Return(CONT))
    BY <1>1 DEF IffEmptyCheck
  <2>2. Remains(op, o)
    BY <1>p, <1>r
  <2> HIDE DEF Working
  <2> QED BY <2>1, <2>2, <1>a, <1>g, <1>h, <1>r
<1>2. CASE \E p : Rmdir(p)
  BY <1>2, <1>w, RmdirRemains
<1>3. CASE EraseDirCheck
  <2>1. CASE Goes([op EXCEPT !.pc = "rmdir"]) \/ FailsSilently([op EXCEPT !.pc = "rmdir"])
    BY <2>1, <1>g, <1>h, <1>p
  <2>2. ASSUME NEW a \in {"yes", "no", "all", "none", "abort"},
               LET o == [op EXCEPT !.recursive_result = a] IN
               /\ op' = CASE a \in {"yes", "all"} ->
                               [Call(o, "recursive_erase", "opendir") EXCEPT
                                  !.stack = << Activation(Src, Src, TRUE) >>]
                          [] a \in {"no", "none"} -> Value(o, SKIP)
                          [] OTHER -> Value(o, ABORT)
               /\ Note(a = "abort", a \in {"no", "none"})
        PROVE  StepRemains /\ Remains(op, op')
    <3> DEFINE o == [op EXCEPT !.recursive_result = a]
               f == << Activation(Src, Src, TRUE) >>
               c == [Call(o, "recursive_erase", "opendir") EXCEPT !.stack = f]
    <3>1. op' = c \/ op' = Value(o, SKIP) \/ op' = Value(o, ABORT)
      BY <2>2
    <3> HIDE DEF f
    <3>2. Remains(op, o) /\ IsOp(o)
      BY DEF Remains, IsOp, OpFields
    <3> HIDE DEF o
    <3>v. Remains(o, Value(o, SKIP)) /\ Remains(o, Value(o, ABORT))
      BY <3>2, ValueIs
    <3>c. Remains(o, c)
      BY <3>2 DEF Remains, IsOp, OpFields, Call
    <3> HIDE DEF c
    <3>4. Remains(op, op')
      BY <3>1, <3>2, <3>v, <3>c DEF Remains
    <3>5. IsPast'
      BY <2>2, NoteIs
    <3> QED BY <3>4, <3>5, <1>w DEF StepRemains, Remains
  <2> QED BY <1>3, <2>1, <2>2, <1>a DEF EraseDirCheck
<1>4. CASE RecursiveOpendir
  BY <1>4, <1>g, <1>h, <1>q, <1>r DEF RecursiveOpendir
<1>5. CASE RecursiveEntry
  <2>1. Remains(op, op)
    BY DEF Remains
  <2>2. CASE ProgressShown(op)
    BY <2>1, <2>2, <1>w, ProgressShownRemains
  <2> QED BY <1>5, <2>2, <1>a, <1>b, <1>g, <1>h, <1>r, <1>s DEF RecursiveEntry
<1>6. CASE RecursiveEnds
  BY <1>6, <1>a, <1>g, <1>p DEF RecursiveEnds
<1> QED BY <1>1, <1>2, <1>3, <1>4, <1>5, <1>6
        DEF EraseDirs, IffEmptyRmdir, EraseDirRmdir, RecursiveRmdir

LEMMA OtherProcessIs ==
  ASSUME IsPast, OtherProcess
  PROVE  op' = op /\ IsPast' /\ past'.aborted = past.aborted /\ past'.born # past.born
BY DEF OtherProcess, IsPast, PastFields

LEMMA StepsRemain ==
  ASSUME IsOp(op), IsPast, [TreeNext]_tree_vars
  PROVE  StepRemains
<1>1. CASE UNCHANGED tree_vars
  BY <1>1 DEF tree_vars, StepRemains, IsOp, IsPast, CopyStops, Stops
<1>2. CASE OtherProcess
  BY <1>2, OtherProcessIs DEF StepRemains, IsOp, CopyStops, Stops
<1> QED BY <1>1, <1>2, NextEntryRemains, EntryReturnsRemains, TaggedFileRemains,
           CopyDirRemains, MoveRemains, EraseRemains DEF TreeNext, Done

-----------------------------------------------------------------------------
(* After an Abort a copy changes nothing.                                  *)

CopyInv == IsOp(op) /\ IsPast /\ (op.operation = "copy" => CopyStops)

LEMMA CopyInvInit == TreeInit => CopyInv
<1> SUFFICES ASSUME TreeInit PROVE CopyInv
  OBVIOUS
<1>1. IsPast /\ past.aborted = FALSE
  BY DEF TreeInit, IsPast, PastFields
<1>2. PICK o \in Operations, t \in Targets, dive \in BOOLEAN, follow \in BOOLEAN :
         op = [operation |-> o, to |-> t, dive |-> dive, i |-> 0,
               follow_links |-> follow, linklist |-> << >>,
               fn |-> "panel_operate", pc |-> "loop", stack |-> << >>,
               st |-> CONT, erase_list |-> << >>, dest_dirs |-> {},
               path |-> << >>, recursive_result |-> "ask", errors |-> 0]
  BY DEF TreeInit
<1>3. IsOp(op) /\ op.fn = "panel_operate"
  BY <1>2 DEF IsOp, OpFields
<1> QED BY <1>1, <1>3 DEF CopyInv, CopyStops, Stops

LEMMA CopyInvNext == CopyInv /\ [TreeNext]_tree_vars => CopyInv'
BY StepsRemain DEF CopyInv, StepRemains

LEMMA AbortedIsStill ==
  ASSUME CopyInv, [TreeNext]_tree_vars, past.aborted, op.operation = "copy",
         past'.born = past.born
  PROVE  UNCHANGED <<dirs, files>>
<1>1. \/ op.fn = "panel_operate" /\ op.pc = "end"
      \/ op.fn = "panel_operate" /\ op.pc = "value" /\ op.st = ABORT
      \/ op.fn = "copy_dir_dir" /\ op.pc = "read" /\ op.st = ABORT
  BY DEF CopyInv, CopyStops, Stops
<1>2. ~NextEntry /\ ~TaggedFile /\ ~MoveDirDir /\ ~EraseDirs
  BY <1>1 DEF NextEntry, TaggedFile, MoveDirDir, MoveStat, MoveRename, MoveCopied,
     MoveErases, EraseDirs, IffEmptyCheck, IffEmptyRmdir, EraseDirCheck, EraseDirRmdir,
     RecursiveOpendir, RecursiveEntry, RecursiveEnds, RecursiveRmdir, At
<1>3. CopyDirDir => CopyDirEnds
  BY <1>1 DEF CopyDirDir, StatSource, StatDest, Mkdir, Chown, Opendir, ReadEntry, At
<1>4. ~OtherProcess
  BY OtherProcessIs DEF CopyInv
<1> QED BY <1>2, <1>3, <1>4 DEF TreeNext, tree_vars, EntryReturns, CopyDirEnds, Still, Done

(* However deep the directories were when the user gave the Abort, and     *)
(* whatever asked, copy_dir_dir and panel_operate change nothing after it. *)
THEOREM AbortEndsCopies == TreeSpec => AbortStops
<1>1. CopyInv /\ [TreeNext]_tree_vars
      => [past.aborted /\ op.operation = "copy" /\ past'.born = past.born
           => UNCHANGED <<dirs, files>>]_tree_vars
  BY AbortedIsStill
<1> QED BY <1>1, CopyInvInit, CopyInvNext, PTL DEF TreeSpec, AbortStops

-----------------------------------------------------------------------------
(* Paths.                                                                  *)

LEMMA PathsAre ==
  /\ \A p \in Paths : p \in Seq(Range(p))
  /\ \A k \in 1 .. Len(Tagged) : Tagged[k] \in Dirs \cup Files /\ Tagged[k] \in Range(Tagged)
BY TreeAssumption DEF Paths, TreeAssumption, Range

LEMMA FrontIs ==
  ASSUME NEW s, s \in Seq(Range(s)), NEW p, p \in Seq(Range(p)), p # << >>
  PROVE  /\ Len(Front(p)) = Len(p) - 1 /\ Len(Front(p)) \in Nat /\ Len(p) \in Nat
         /\ Under(s, p) /\ p # s => Under(s, Front(p)) /\ Len(s) < Len(p)
         /\ Front(p) = s => Under(s, p) /\ Len(p) = Len(s) + 1
<1>1. Len(p) \in Nat \ {0} /\ Len(s) \in Nat
  OBVIOUS
<1>2. /\ Len(Front(p)) = Len(p) - 1
      /\ \A k \in 1 .. Len(p) - 1 : Front(p)[k] = p[k]
  <2> DEFINE S == Range(p)
  <2>1. p \in Seq(S)
    OBVIOUS
  <2> HIDE DEF S
  <2>2. Front(p) = [k \in 1 .. Len(p) - 1 |-> p[k]]
    BY <1>1, <2>1 DEF Front
  <2> QED BY <1>1, <2>2
<1>3. ASSUME Under(s, p), p # s PROVE Under(s, Front(p)) /\ Len(s) < Len(p)
  <2>1. Len(s) <= Len(p) /\ SubSeq(s, 1, Len(s)) = SubSeq(p, 1, Len(s))
    BY <1>3 DEF Under, IsPrefix
  <2>2. \A k \in 1 .. Len(s) : s[k] = p[k]
    <3> TAKE k \in 1 .. Len(s)
    <3>1. SubSeq(s, 1, Len(s))[k] = s[k] /\ SubSeq(p, 1, Len(s))[k] = p[k]
      BY <1>1, <2>1
    <3> QED BY <2>1, <3>1
  <2>3. Len(s) # Len(p)
    <3> SUFFICES ASSUME Len(s) = Len(p) PROVE FALSE
      OBVIOUS
    <3>1. p = s
      BY <1>1, <2>2
    <3> QED BY <3>1, <1>3
  <2>4. Len(s) <= Len(Front(p))
    BY <1>1, <1>2, <2>1, <2>3
  <2>5. SubSeq(s, 1, Len(s)) = SubSeq(Front(p), 1, Len(s))
    <3>1. \A k \in 1 .. Len(s) : Front(p)[k] = p[k]
      BY <1>1, <1>2, <2>4
    <3>2. Front(p) \in Seq(Range(p))
      BY <1>1 DEF Front
    <3>3. /\ SubSeq(s, 1, Len(s)) = [k \in 1 .. Len(s) |-> s[k]]
          /\ SubSeq(Front(p), 1, Len(s)) = [k \in 1 .. Len(s) |-> Front(p)[k]]
      BY <1>1, <2>4, <3>2
    <3> QED BY <2>2, <3>1, <3>3
  <2> QED BY <1>1, <2>1, <2>3, <2>4, <2>5 DEF Under, IsPrefix
<1>4. ASSUME Front(p) = s PROVE Under(s, p) /\ Len(p) = Len(s) + 1
  <2>1. Len(s) = Len(p) - 1
    BY <1>2, <1>4
  <2>2. /\ SubSeq(s, 1, Len(s)) = [k \in 1 .. Len(s) |-> s[k]]
        /\ SubSeq(p, 1, Len(s)) = [k \in 1 .. Len(s) |-> p[k]]
    BY <1>1, <2>1
  <2>3. \A k \in 1 .. Len(s) : s[k] = p[k]
    BY <1>2, <1>4, <2>1
  <2> QED BY <1>1, <2>1, <2>2, <2>3 DEF Under, IsPrefix
<1> QED BY <1>1, <1>2, <1>3, <1>4

(* Where s is not, nothing is below it: the shortest such path has a       *)
(* directory that would be a shorter one, or s.                            *)
LEMMA NothingBelow ==
  ASSUME NEW D, NEW F, TreeOf(D, F), NEW s \in Paths, s \notin D \cup F
  PROVE  GoneFrom(D, F, s)
<1> DEFINE X == {p \in D \cup F : Under(s, p)}
           L == {Len(p) : p \in X}
<1>1. \A p \in X : p \in Seq(Range(p)) /\ p \in Paths /\ p # s
  BY PathsAre DEF TreeOf, Paths
<1>2. s \in Seq(Range(s))
  BY PathsAre
<1>3. SUFFICES ASSUME X # {} PROVE FALSE
  BY DEF GoneFrom
<1>4. L \in SUBSET Nat /\ L # {}
  <2>1. \A p \in X : Len(p) \in Nat
    <3> TAKE p \in X
    <3> DEFINE S == Range(p)
    <3>1. p \in Seq(S)
      BY <1>1
    <3> HIDE DEF S
    <3> QED BY <3>1, LenProperties
  <2> QED BY <1>3, <2>1
<1> HIDE DEF L
<1>5. PICK n \in L : \A m \in L : n <= m
  BY <1>4, LeastNatural
<1>6. PICK p \in X : n = Len(p)
  BY <1>5 DEF L
<1>7. p # << >>
  BY <1>1, <1>2, <1>6 DEF Under, IsPrefix
<1>8. Under(s, Front(p)) /\ Front(p) \in D /\ Len(Front(p)) < Len(p)
      /\ Len(Front(p)) \in Nat /\ Len(p) \in Nat
  BY <1>1, <1>2, <1>6, <1>7, FrontIs DEF TreeOf
<1>9. Len(Front(p)) \in L
  BY <1>8 DEF L
<1> QED BY <1>5, <1>6, <1>8, <1>9

(* What is deleted leaves a tree, and so does what another process adds.   *)
LEMMA FileLeaves ==
  ASSUME Rooted, NEW p, files' = Without(files, p), dirs' = dirs
  PROVE  Rooted' /\ DOMAIN files' = DOMAIN files \ {p}
BY DEF Rooted, TreeOf, Without

LEMMA DirLeaves ==
  ASSUME Rooted, NEW p \in Paths, Children(p) = {}, dirs' = dirs \ {p}, files' = files
  PROVE  Rooted'
<1> SUFFICES ASSUME NEW q \in dirs \cup DOMAIN files, q # << >>, Front(q) = p PROVE FALSE
  BY DEF Rooted, TreeOf
<1>1. q \in Paths /\ q \in Seq(Range(q)) /\ p \in Seq(Range(p))
  BY PathsAre DEF Rooted, TreeOf, Paths
<1>2. Under(p, q) /\ Len(q) = Len(p) + 1
  BY <1>1, FrontIs
<1> QED BY <1>2 DEF Children

LEMMA FileArrives ==
  ASSUME Rooted, IsPast, NEW f \in NewFiles \ past.born, Front(f) \in dirs,
         files' = With(files, f, NewFile(f)), dirs' = dirs,
         Range(Tagged) \cap Files \subseteq past.born
  PROVE  /\ Rooted'
         /\ \A k \in 1 .. Len(Tagged) : Gone(Tagged[k]) => Gone(Tagged[k])'
<1>1. DOMAIN files' = DOMAIN files \cup {f}
  BY DEF With
<1>2. Rooted'
  BY <1>1 DEF Rooted, TreeOf
<1>3. ASSUME NEW k \in 1 .. Len(Tagged), Gone(Tagged[k]), Under(Tagged[k], f) PROVE FALSE
  <2>1. f # Tagged[k]
    BY PathsAre, TreeAssumption DEF TreeAssumption
  <2>2. f \in Paths /\ Tagged[k] \in Paths
    BY PathsAre DEF Paths
  <2>3. f \in Seq(Range(f)) /\ Tagged[k] \in Seq(Range(Tagged[k]))
    BY <2>2, PathsAre
  <2>4. f # << >>
    BY <2>1, <2>3, <1>3 DEF Under, IsPrefix
  <2>5. Under(Tagged[k], Front(f))
    BY <1>3, <2>1, <2>3, <2>4, FrontIs
  <2> QED BY <1>3, <2>5 DEF Gone, GoneFrom
<1> QED BY <1>1, <1>2, <1>3 DEF Gone, GoneFrom

-----------------------------------------------------------------------------
(* The steps of a delete.                                                  *)

Over(o) == o.fn = "panel_operate" /\ o.pc = "value" /\ o.st # CONT
Idem(o) == o.fn = op.fn /\ o.pc = op.pc /\ o.st = op.st /\ o.stack = op.stack

Deleting == IsOp(op) /\ IsPast /\ op.operation = "delete" /\ DeleteErases
InEntry == op.fn \in {"panel_operate", "erase_dir", "recursive_erase"} /\ op.i # 0

LEMMA StatusesDiffer ==
  CONT # RETRY /\ CONT # SKIP /\ CONT # ABORT
BY DEF CONT, RETRY, SKIP, ABORT

LEMMA ReturnsOver ==
  ASSUME IsOp(op), InEntry, NEW st, st # CONT
  PROVE  Over(Return(st))
<1>1. Over(Value(op, st)) /\ Over(Value(op, RETRY))
  BY ValueIs, StatusesDiffer DEF Over
<1>2. op.fn = "recursive_erase" => Return(st) = RecursiveReturns(op, st)
  BY DEF Return, At
<1>3. op.fn \in {"panel_operate", "erase_dir"} => Return(st) = Value(op, st)
  BY DEF Return, At
<1> QED BY <1>1, <1>2, <1>3, RecursiveReturnsIs DEF InEntry

LEMMA FailsOver ==
  ASSUME IsOp(op), InEntry, NEW cause, Fails(cause)
  PROVE  Over(op') \/ Idem(op')
<1>1. PICK a \in {SKIP, RETRY, ABORT} :
         op' = Spend(IF a # RETRY THEN Return(a)
                     ELSE [op EXCEPT !.st = IF op.fn = "copy_dir_dir" THEN RETRY ELSE @],
                     cause)
  BY DEF Fails
<1>2. CASE a # RETRY
  <2>1. Over(Return(a)) /\ IsOp(Return(a))
    BY ReturnsOver, StatusesDiffer, ReturnIs DEF Remains
  <2> QED BY <1>1, <1>2, <2>1, SpendIs DEF Over
<1>3. CASE a = RETRY
  <2> DEFINE o == [op EXCEPT !.st = @]
  <2>1. op.fn # "copy_dir_dir"
    BY DEF InEntry
  <2>2. op' = Spend(o, cause)
    BY <1>1, <1>3, <2>1
  <2>3. o = op
    BY DEF IsOp, OpFields
  <2> QED BY <2>2, <2>3, SpendIs DEF Idem
<1> QED BY <1>2, <1>3

(* An entry that is over without success, or where it was, is no claim.    *)
LEMMA OverStands ==
  ASSUME op'.i # 0, Over(op')
  PROVE  Stands'
BY DEF Stands, StandsIn, Over

(* What every step keeps of a delete.                                      *)
LEMMA DeleteRemains ==
  ASSUME Deleting, StepRemains, op'.i = op.i, past.born \subseteq past'.born,
         Rooted', Stands'
  PROVE  DeleteErases'
BY DEF Deleting, DeleteErases, StepRemains

LEMMA NextEntryDeletes ==
  ASSUME Deleting, NextEntry
  PROVE  DeleteErases'
<1>a. StepRemains /\ UNCHANGED <<dirs, files, marked>> /\ IsOp(op)
  BY NextEntryRemains DEF Deleting, NextEntry, Still
<1>b. past'.born = past.born
  BY DEF NextEntry, Goes, Deleting, IsPast, PastFields
<1>c. Rooted' /\ op'.follow_links = FALSE /\ Range(Tagged) \cap Files \subseteq past'.born
  BY <1>a, <1>b DEF Deleting, DeleteErases, Rooted, StepRemains
<1>d. Len(Tagged) \in Nat /\ op.i \in 0 .. Len(Tagged) /\ op.fn = "panel_operate"
  BY TreeAssumption DEF TreeAssumption, Deleting, DeleteErases, NextEntry, At
<1>1. CASE op.i = Len(Tagged)
  <2>1. op' = [op EXCEPT !.pc = "end"]
    BY <1>1 DEF NextEntry, Goes
  <2>2. op'.fn = "panel_operate" /\ op'.pc = "end" /\ op'.i = op.i
    BY <2>1, <1>a, <1>d DEF IsOp, OpFields
  <2> QED BY <2>2, <1>c, <1>d DEF DeleteErases, Stands, StandsIn
<1>2. CASE op.i # Len(Tagged)
  <2> DEFINE o == [op EXCEPT !.i = @ + 1, !.st = CONT,
                             !.dest_dirs = IF op.operation = "copy" THEN {} ELSE @]
             s == Real(Tagged[o.i])
             f == << Activation(s, Append(op.to, Last(Tagged[o.i])), TRUE) >>
  <2>1. op' = CASE s \notin dirs -> Call(o, "panel_operate", "file")
                [] o.operation = "copy" -> [Call(o, "copy_dir_dir", "stat") EXCEPT !.stack = f]
                [] o.operation = "move" -> Call(o, "move_dir_dir", "stat")
                [] OTHER -> Call(o, "erase_dir", "check")
    BY <1>2 DEF NextEntry
  <2>2. IsOp(o) /\ o.operation = "delete" /\ o.i = op.i + 1
    BY DEF Deleting, IsOp, OpFields
  <2>3. s = Tagged[o.i]
    BY DEF Real, Deleting, DeleteErases
  <2> HIDE DEF o, f
  <2>4. \A fn, pc : /\ Call(o, fn, pc).i = o.i /\ Call(o, fn, pc).fn = fn
                    /\ Call(o, fn, pc).pc = pc
    BY <2>2 DEF IsOp, OpFields, Call
  <2>5. op' = IF s \notin dirs THEN Call(o, "panel_operate", "file")
              ELSE Call(o, "erase_dir", "check")
    BY <2>1, <2>2
  <2>6. op'.i = op.i + 1 /\ op'.i \in 0 .. Len(Tagged) /\ op'.i # 0
    BY <1>2, <1>d, <2>2, <2>4, <2>5
  <2>7. \/ op'.fn = "panel_operate" /\ op'.pc = "file" /\ Tagged[op'.i] \notin dirs'
        \/ op'.fn = "erase_dir" /\ op'.pc = "check" /\ Tagged[op'.i] \in dirs
    BY <1>a, <2>2, <2>3, <2>4, <2>5, <2>6
  <2>8. dirs \subseteq Dirs
    BY DEF Deleting, DeleteErases, Rooted, TreeOf
  <2> QED BY <2>6, <2>7, <2>8, <1>c DEF DeleteErases, Stands, StandsIn
<1> QED BY <1>1, <1>2

LEMMA EntryReturnsDeletes ==
  ASSUME Deleting, EntryReturns
  PROVE  DeleteErases'
<1>a. StepRemains /\ op'.i = op.i
  BY EntryReturnsRemains DEF Deleting, Remains
<1>b. past'.born = past.born
  BY NoteIs DEF EntryReturns, Deleting
<1>c. Rooted'
  BY DEF EntryReturns, Deleting, DeleteErases, Rooted
<1>d. op'.fn = "panel_operate" /\ op'.pc \in {"loop", "end"}
  BY DEF EntryReturns, Deleting, IsOp, OpFields, At
<1> QED BY <1>a, <1>b, <1>c, <1>d, DeleteRemains DEF Stands, StandsIn

(* A dialog that ends the entry.                                           *)
LEMMA OverDeletes ==
  ASSUME Deleting, StepRemains, Remains(op, op'), InEntry, past'.born = past.born,
         Rooted', Over(op')
  PROVE  DeleteErases'
<1>1. op'.i = op.i /\ op.i # 0
  BY DEF Remains, InEntry
<1> QED BY <1>1, OverStands, DeleteRemains

(* A call that is made again.                                              *)
LEMMA SameDeletes ==
  ASSUME Deleting, StepRemains, Remains(op, op'), InEntry, past'.born = past.born,
         UNCHANGED <<dirs, files>>, Idem(op')
  PROVE  DeleteErases'
<1>1. Rooted'
  BY DEF Deleting, DeleteErases, Rooted
<1>2. op'.i = op.i /\ op.i # 0
  BY DEF Remains, InEntry
<1>3. Stands'
  <2>1. Stands
    BY DEF Deleting, DeleteErases
  <2> QED BY <1>2, <2>1 DEF Stands, StandsIn, Idem
<1> QED BY <1>1, <1>2, <1>3, DeleteRemains

LEMMA FailsDeletes ==
  ASSUME Deleting, InEntry, NEW cause, Fails(cause)
  PROVE  DeleteErases'
<1>1. Working
  BY DEF Working, Deleting
<1>2. StepRemains /\ Remains(op, op')
  BY <1>1, FailsRemains DEF Deleting
<1>3. past'.born = past.born
  BY NoteIs DEF Fails, Deleting
<1>4. UNCHANGED <<dirs, files>>
  BY DEF Fails, Still
<1>5. Over(op') \/ Idem(op')
  BY FailsOver DEF Deleting
<1>6. Rooted'
  BY <1>4 DEF Deleting, DeleteErases, Rooted
<1> QED BY <1>2, <1>3, <1>4, <1>5, <1>6, OverDeletes, SameDeletes

LEMMA ReturnDeletes ==
  ASSUME Deleting, InEntry, NEW a \in {SKIP, ABORT}, op' = Return(a),
         NEW left_out, Note(a = ABORT, left_out), Rooted'
  PROVE  DeleteErases'
<1>1. Working
  BY DEF Working, Deleting
<1>2. StepRemains /\ Remains(op, op')
  BY <1>1, ReturnRemains DEF Deleting
<1>3. past'.born = past.born
  BY NoteIs DEF Deleting
<1>4. Over(op')
  BY ReturnsOver, StatusesDiffer DEF Deleting
<1> QED BY <1>2, <1>3, <1>4, OverDeletes

LEMMA AbortDeletes ==
  ASSUME Deleting, InEntry, ProgressAbort
  PROVE  DeleteErases'
<1>1. op' = Return(ABORT) /\ Note(ABORT = ABORT, FALSE) /\ UNCHANGED <<dirs, files>>
  BY DEF ProgressAbort, Still
<1>2. Rooted'
  BY <1>1 DEF Deleting, DeleteErases, Rooted
<1> QED BY <1>1, <1>2, ReturnDeletes

(* A call fails and the code goes on at o.                                 *)
LEMMA SilentlyDeletes ==
  ASSUME Deleting, InEntry, NEW o, Remains(op, o), FailsSilently(o),
         Over(o) \/ (o.fn = "erase_dir" /\ o.pc = "rmdir" /\ Src \in Dirs)
  PROVE  DeleteErases'
<1>1. Working /\ ~(op.operation = "copy" /\ CopyStops)
  BY DEF Working, Deleting
<1>2. StepRemains /\ Remains(op, op')
  BY <1>1, FailsSilentlyRemains DEF Deleting
<1>3. op' = Spend(o, FALSE) /\ Note(FALSE, op.fn = "copy_dir_dir") /\ UNCHANGED <<dirs, files>>
  BY DEF FailsSilently, Still
<1>4. past'.born = past.born
  BY <1>3, NoteIs DEF Deleting
<1>5. op'.fn = o.fn /\ op'.pc = o.pc /\ op'.st = o.st
  BY <1>3, SpendIs DEF Remains
<1>6. Rooted'
  BY <1>3 DEF Deleting, DeleteErases, Rooted
<1>7. op'.i # 0 /\ op'.i = op.i
  BY <1>2 DEF Remains, InEntry
<1>8. Stands'
  BY <1>5, <1>7 DEF Stands, StandsIn, Over, Src
<1> QED BY <1>2, <1>4, <1>6, <1>7, <1>8, DeleteRemains

(* A step without a dialog.                                                *)
LEMMA GoesDeletes ==
  ASSUME Deleting, NEW o, Remains(op, o), Goes(o), Rooted',
         StandsIn(dirs', DOMAIN files', o)
  PROVE  DeleteErases'
<1>1. Working /\ ~(op.operation = "copy" /\ CopyStops)
  BY DEF Working, Deleting
<1>2. StepRemains
  BY <1>1, GoesRemains DEF Deleting
<1>3. op' = o /\ past' = past
  BY DEF Goes
<1>4. Stands' /\ op'.i = op.i
  BY <1>3 DEF Remains, Stands
<1> QED BY <1>2, <1>3, <1>4, DeleteRemains

LEMMA TaggedFileDeletes ==
  ASSUME Deleting, TaggedFile
  PROVE  DeleteErases'
<1>a. op.fn = "panel_operate" /\ op.pc = "file" /\ op.i # 0 /\ Src \notin dirs /\ InEntry
  BY DEF TaggedFile, At, Deleting, DeleteErases, Stands, StandsIn, Src, InEntry
<1>b. op.i \in 1 .. Len(Tagged) /\ Src \in Paths
  BY <1>a, PathsAre, TreeAssumption
     DEF Deleting, DeleteErases, Src, Paths, TreeAssumption
<1>1. CASE Fails(FALSE)
  BY <1>1, <1>a, FailsDeletes
<1>2. CASE ProgressAbort
  BY <1>2, <1>a, AbortDeletes
<1>3. CASE files' = Without(files, Src) /\ ProgressShown(Value(op, CONT)) /\ UNCHANGED <<dirs, marked>>
  <2>1. Rooted' /\ DOMAIN files' = DOMAIN files \ {Src}
    BY <1>3, FileLeaves DEF Deleting, DeleteErases
  <2>2. GoneFrom(dirs', DOMAIN files', Src)
    BY <2>1, <1>a, <1>b, <1>3, NothingBelow DEF Rooted
  <2> DEFINE o == Value(op, CONT)
  <2>3. CASE Goes(o)
    <3>1. Remains(op, o) /\ o.fn = "panel_operate" /\ o.pc = "value"
      BY ValueIs DEF Deleting
    <3> HIDE DEF o
    <3>2. StandsIn(dirs', DOMAIN files', o)
      BY <3>1, <2>2, <1>a DEF StandsIn, Src, Remains
    <3> QED BY <2>1, <2>3, <3>1, <3>2, GoesDeletes
  <2>4. CASE \E a \in {SKIP, ABORT} : op' = Return(a) /\ Note(a = ABORT, a = SKIP)
    BY <2>1, <2>4, <1>a, ReturnDeletes
  <2> QED BY <1>3, <2>3, <2>4 DEF ProgressShown
<1> QED BY <1>1, <1>2, <1>3 DEF TaggedFile, Deleting

(* rmdir of p, after which the code goes on at o.                          *)
LEMMA RmdirDeletes ==
  ASSUME Deleting, InEntry, NEW p \in Dirs, Rmdir(p),
         \A D, F : GoneFrom(D, F, p) => StandsIn(D, F, Return(CONT))
  PROVE  DeleteErases'
<1>1. CASE Fails(Children(p) # {})
  BY <1>1, FailsDeletes
<1>2. CASE /\ Children(p) = {} /\ dirs' = dirs \ {p} /\ Goes(Return(CONT))
           /\ UNCHANGED <<files, marked>>
  <2>1. Rooted'
    BY <1>2, DirLeaves DEF Deleting, DeleteErases, Paths
  <2>2. p \notin DOMAIN files /\ p \in Paths
    BY TreeAssumption DEF TreeAssumption, Deleting, DeleteErases, Rooted, TreeOf, Paths
  <2>3. GoneFrom(dirs', DOMAIN files', p)
    BY <1>2, <2>1, <2>2, NothingBelow DEF Rooted
  <2>4. Remains(op, Return(CONT))
    BY ReturnIs DEF Deleting
  <2> QED BY <1>2, <2>1, <2>3, <2>4, GoesDeletes
<1> QED BY <1>1, <1>2 DEF Rmdir

LEMMA EraseDirDeletes ==
  ASSUME Deleting, EraseDirCheck \/ EraseDirRmdir
  PROVE  DeleteErases'
<1>a. op.fn = "erase_dir" /\ op.i # 0 /\ InEntry /\ Src \in Dirs
  BY DEF EraseDirCheck, EraseDirRmdir, At, Deleting, DeleteErases, Stands, StandsIn, InEntry,
         Src
<1>b. op.i \in 1 .. Len(Tagged) /\ Src \in Paths /\ Src = Tagged[op.i]
  BY <1>a, PathsAre, TreeAssumption
     DEF Deleting, DeleteErases, Src, Paths, TreeAssumption
<1>r. UNCHANGED <<dirs, files>> => Rooted'
  BY DEF Deleting, DeleteErases, Rooted
<1> DEFINE rm == [op EXCEPT !.pc = "rmdir"]
<1>p. Remains(op, rm) /\ rm.fn = "erase_dir" /\ rm.pc = "rmdir"
  BY <1>a DEF Remains, IsOp, OpFields, Deleting
<1> HIDE DEF rm
<1>1. CASE EraseDirRmdir
  <2>1. Return(CONT) = Value(op, CONT)
    BY <1>a DEF Return, At
  <2>2. ASSUME NEW D, NEW F, GoneFrom(D, F, Src) PROVE StandsIn(D, F, Return(CONT))
    BY <2>1, <2>2, <1>a, <1>b, ValueIs DEF StandsIn, Remains, Deleting
  <2> QED BY <1>1, <1>a, <1>b, <2>2, RmdirDeletes DEF EraseDirRmdir
<1>2. CASE ProgressAbort
  BY <1>2, <1>a, AbortDeletes
<1>3. CASE FailsSilently(rm)
  BY <1>3, <1>a, <1>p, SilentlyDeletes
<1>4. CASE Goes(rm) /\ Still
  <2>1. StandsIn(dirs', DOMAIN files', rm)
    BY <1>a, <1>b, <1>p DEF StandsIn, Remains
  <2> QED BY <1>4, <1>p, <1>r, <2>1, GoesDeletes DEF Still
<1>5. ASSUME NEW a \in {"yes", "no", "all", "none", "abort"}, Still, EraseDirCheck,
             LET o == [op EXCEPT !.recursive_result = a] IN
             /\ op' = CASE a \in {"yes", "all"} ->
                             [Call(o, "recursive_erase", "opendir") EXCEPT
                                !.stack = << Activation(Src, Src, TRUE) >>]
                        [] a \in {"no", "none"} -> Value(o, SKIP)
                        [] OTHER -> Value(o, ABORT)
             /\ Note(a = "abort", a \in {"no", "none"})
      PROVE  DeleteErases'
  <2> DEFINE o == [op EXCEPT !.recursive_result = a]
             f == << Activation(Src, Src, TRUE) >>
             c == [Call(o, "recursive_erase", "opendir") EXCEPT !.stack = f]
  <2>1. op' = c \/ op' = Value(o, SKIP) \/ op' = Value(o, ABORT)
    BY <1>5
  <2>2. Remains(op, o) /\ IsOp(o)
    BY DEF Remains, IsOp, OpFields, Deleting
  <2>f. f \in Seq(Activations) /\ f # << >> /\ f[Len(f)].s = Src
    BY <1>a, <1>b DEF Activation, Activations, Paths
  <2> HIDE DEF o, f
  <2>3. c.fn = "recursive_erase" /\ c.pc = "opendir" /\ c.stack = f /\ c.i = o.i
    BY <2>2 DEF IsOp, OpFields, Call
  <2> HIDE DEF c
  <2>4. Over(op') \/ op' = c
    BY <2>1, <2>2, ValueIs, StatusesDiffer DEF Over
  <2>5. StepRemains /\ Remains(op, op') /\ past'.born = past.born
    BY <1>5, EraseRemains, NoteIs DEF EraseDirs, Deleting
  <2>6. CASE op' = c
    <3>1. op'.i # 0 /\ op'.i = op.i
      BY <2>5, <1>a DEF Remains
    <3>2. Stands'
      BY <2>6, <2>f, <2>3, <3>1, <1>b DEF Stands, StandsIn
    <3> QED BY <1>5, <1>r, <2>5, <3>1, <3>2, DeleteRemains DEF Still
  <2> QED BY <1>5, <1>a, <1>r, <2>4, <2>5, <2>6, OverDeletes DEF Still
<1>6. CASE EraseDirCheck
  BY <1>6, <1>2, <1>3, <1>4, <1>5 DEF EraseDirCheck, rm
<1> QED BY <1>1, <1>6

LEMMA LongTailIs ==
  ASSUME NEW S, NEW t \in Seq(S), Len(t) > 1
  PROVE  /\ Tail(t) \in Seq(S) /\ Tail(t) # << >>
         /\ Len(Tail(t)) = Len(t) - 1
         /\ Tail(t)[Len(t) - 1] = t[Len(t)]
<1> DEFINE n == Len(t)
           m == Len(Tail(t))
<1>1. t # << >> /\ n \in Nat /\ n > 1
  OBVIOUS
<1>2. Tail(t) \in Seq(S) /\ m = n - 1 /\ \A i \in 1 .. n - 1 : Tail(t)[i] = t[i + 1]
  BY <1>1, HeadTailProperties
<1> HIDE DEF n, m
<1>3. m # 0 /\ n - 1 \in 1 .. n - 1 /\ (n - 1) + 1 = n
  BY <1>1, <1>2
<1>4. Tail(t) # << >>
  BY <1>2, <1>3, EmptySeq DEF m
<1> QED BY <1>2, <1>3, <1>4 DEF n, m

LEMMA RecursiveDeletes ==
  ASSUME Deleting, \/ RecursiveOpendir \/ RecursiveEntry \/ RecursiveEnds \/ RecursiveRmdir
  PROVE  DeleteErases'
<1> DEFINE calls == op.stack
<1>a. /\ op.fn = "recursive_erase" /\ op.i # 0 /\ InEntry
      /\ calls \in Seq(Activations) /\ calls # << >> /\ calls[Len(calls)].s = Tagged[op.i]
  BY DEF RecursiveOpendir, RecursiveEntry, RecursiveEnds, RecursiveRmdir, At,
         Deleting, DeleteErases, Stands, StandsIn, InEntry
<1>h. Head(calls) \in Activations /\ TopCall = Head(calls) /\ Head(calls) = calls[1]
  BY <1>a DEF TopCall
<1>b. /\ TopCall \in Activations /\ TopCall = calls[1]
      /\ TopCall.s \in Dirs
  BY <1>h DEF Activations
<1>r. UNCHANGED <<dirs, files>> => Rooted'
  BY DEF Deleting, DeleteErases, Rooted
<1> HIDE DEF calls
<1>k. /\ Children(TopCall.s) \subseteq dirs \cup DOMAIN files
      /\ dirs \cup DOMAIN files \subseteq Paths
  BY DEF Children, Deleting, DeleteErases, Rooted, TreeOf, Paths
(* The recursion goes on with the stack k, at pc.                          *)
<1>g. ASSUME NEW o, Goes(o), Rooted', Remains(op, o), o.fn = "recursive_erase",
             o.pc \in {"opendir", "read", "rmdir"}, o.stack \in Seq(Activations),
             o.stack # << >>, o.stack[Len(o.stack)].s = Tagged[op.i]
      PROVE  DeleteErases'
  <2>1. StandsIn(dirs', DOMAIN files', o)
    BY <1>g, <1>a DEF StandsIn, Remains
  <2> QED BY <1>g, <2>1, GoesDeletes
<1>p. \A pc : LET o == [op EXCEPT !.pc = pc] IN
              /\ Remains(op, o) /\ o.fn = op.fn /\ o.pc = pc /\ o.stack = calls
  BY DEF Remains, IsOp, OpFields, Deleting, calls
<1>q. \A pc, k : LET o == [op EXCEPT !.pc = pc, !.stack = k] IN
                 /\ Remains(op, o) /\ o.fn = op.fn /\ o.pc = pc /\ o.stack = k
  BY DEF Remains, IsOp, OpFields, Deleting
<1>o. ASSUME FailsSilently(Return(RETRY)) PROVE DeleteErases'
  <2>1. Over(Return(RETRY)) /\ Remains(op, Return(RETRY))
    BY <1>a, ReturnsOver, ReturnIs, StatusesDiffer DEF Deleting
  <2> QED BY <1>o, <1>a, <2>1, SilentlyDeletes
<1>s. ASSUME NEW f \in Activations
      PROVE  /\ << f >> \o calls \in Seq(Activations) /\ << f >> \o calls # << >>
             /\ (<< f >> \o calls)[Len(<< f >> \o calls)].s = Tagged[op.i]
  BY <1>a
<1>t. ASSUME NEW f \in Activations, f.s = TopCall.s
      PROVE  LET k == << f >> \o Tail(calls) IN
             k \in Seq(Activations) /\ k # << >> /\ k[Len(k)].s = Tagged[op.i]
  <2>1. Len(calls) \in Nat \ {0} /\ Tail(calls) \in Seq(Activations)
        /\ Len(Tail(calls)) = Len(calls) - 1
    BY <1>a
  <2> DEFINE k == << f >> \o Tail(calls)
  <2>2. k \in Seq(Activations) /\ Len(k) = Len(calls) /\ k # << >>
    BY <2>1
  <2>3. CASE Len(calls) = 1
    <3>1. k[1] = f /\ Len(k) = 1
      BY <2>1, <2>2, <2>3
    <3> QED BY <2>2, <2>3, <3>1, <1>a, <1>b, <1>t
  <2>4. CASE Len(calls) # 1
    <3>1. k[Len(k)] = Tail(calls)[Len(calls) - 1] /\ Tail(calls)[Len(calls) - 1] = calls[Len(calls)]
      BY <2>1, <2>2, <2>4, <1>a
    <3> QED BY <2>2, <3>1, <1>a
  <2> QED BY <2>2, <2>3, <2>4
<1>1. CASE RecursiveOpendir
  <2> DEFINE f == [TopCall EXCEPT !.must = Children(TopCall.s)]
             k == << f >> \o Tail(calls)
             o == [InFrame(op, f) EXCEPT !.pc = "read"]
  <2>1. f \in Activations /\ f.s = TopCall.s
    BY <1>b, <1>k DEF Activations
  <2>2. k \in Seq(Activations) /\ k # << >> /\ k[Len(k)].s = Tagged[op.i]
    BY <2>1, <1>t
  <2>3. (Goes(o) /\ Still) \/ FailsSilently(Return(RETRY))
    BY <1>1 DEF RecursiveOpendir
  <2> HIDE DEF f
  <2>4. Remains(op, o) /\ o.fn = op.fn /\ o.pc = "read" /\ o.stack = k
    BY DEF InFrame, Remains, IsOp, OpFields, Deleting, calls
  <2> HIDE DEF o, k
  <2> QED BY <2>2, <2>3, <2>4, <1>a, <1>g, <1>o, <1>r DEF Still
<1>2. CASE RecursiveEntry
  <2>1. PICK p \in Children(TopCall.s) :
          \/ FailsSilently(Return(RETRY))
          \/ /\ p \in dirs /\ Still
             /\ Goes([op EXCEPT !.pc = "opendir", !.stack = << Activation(p, p, FALSE) >> \o @])
          \/ /\ p \notin dirs
             /\ \/ files' = Without(files, p) /\ ProgressShown(op) /\ UNCHANGED <<dirs, marked>>
                \/ ProgressAbort
                \/ Fails(FALSE)
    BY <1>2 DEF RecursiveEntry
  <2>p. p \in dirs => p \in Dirs
    BY DEF Deleting, DeleteErases, Rooted, TreeOf
  <2>2. CASE p \in dirs /\ Still /\ Goes([op EXCEPT !.pc = "opendir",
                                             !.stack = << Activation(p, p, FALSE) >> \o @])
    <3> DEFINE f == Activation(p, p, FALSE)
               k == << f >> \o calls
               o == [op EXCEPT !.pc = "opendir", !.stack = k]
    <3>1. f \in Activations
      BY <1>k, <2>2, <2>p DEF Activation, Activations
    <3>2. k \in Seq(Activations) /\ k # << >> /\ k[Len(k)].s = Tagged[op.i]
      BY <3>1, <1>s
    <3>3. Goes(o) /\ Rooted'
      BY <2>2, <1>r DEF calls, Still
    <3> HIDE DEF k
    <3>4. Remains(op, o) /\ o.fn = op.fn /\ o.pc = "opendir" /\ o.stack = k
      BY <1>q
    <3> HIDE DEF o
    <3> QED BY <3>2, <3>3, <3>4, <1>a, <1>g
  <2>3. CASE files' = Without(files, p) /\ ProgressShown(op) /\ UNCHANGED <<dirs, marked>>
    <3>1. Rooted'
      BY <2>3, FileLeaves DEF Deleting, DeleteErases
    <3>2. CASE Goes(op)
      <4>1. Remains(op, op)
        BY DEF Remains, Deleting
      <4>2. op.pc \in {"opendir", "read", "rmdir"}
        BY <1>2 DEF RecursiveEntry, At
      <4> QED BY <3>1, <3>2, <4>1, <4>2, <1>a, <1>g DEF calls
    <3>3. CASE \E a \in {SKIP, ABORT} : op' = Return(a) /\ Note(a = ABORT, a = SKIP)
      BY <3>1, <3>3, <1>a, ReturnDeletes
    <3> QED BY <2>3, <3>2, <3>3 DEF ProgressShown
  <2>4. CASE ProgressAbort
    BY <2>4, <1>a, AbortDeletes
  <2>5. CASE Fails(FALSE)
    BY <2>5, <1>a, FailsDeletes
  <2> QED BY <2>1, <2>2, <2>3, <2>4, <2>5, <1>o
<1>3. CASE RecursiveEnds
  <2>1. CASE ProgressAbort
    BY <2>1, <1>a, AbortDeletes
  <2>2. CASE Goes([op EXCEPT !.pc = "rmdir"]) /\ Still
    <3> DEFINE o == [op EXCEPT !.pc = "rmdir"]
    <3>1. Remains(op, o) /\ o.fn = op.fn /\ o.pc = "rmdir" /\ o.stack = calls
      BY <1>p
    <3> HIDE DEF o
    <3> QED BY <2>2, <3>1, <1>a, <1>g, <1>r DEF Still, o
  <2> QED BY <1>3, <2>1, <2>2 DEF RecursiveEnds
<1>4. CASE RecursiveRmdir
  <2>1. Return(CONT) = RecursiveReturns(op, CONT)
    BY <1>a DEF Return, At
  <2>2. ASSUME NEW D, NEW F, GoneFrom(D, F, TopCall.s) PROVE StandsIn(D, F, Return(CONT))
    <3>1. CASE Len(calls) > 1
      <4> DEFINE o == [op EXCEPT !.pc = "read", !.stack = Tail(calls)]
      <4>1. Return(CONT) = o
        BY <2>1, <3>1 DEF RecursiveReturns, calls, IsOp, Deleting
      <4>o. Remains(op, o) /\ o.fn = op.fn /\ o.pc = "read" /\ o.stack = Tail(calls)
        BY <1>q
      <4> HIDE DEF o
      <4>2. Return(CONT).fn = op.fn /\ Return(CONT).pc = "read" /\ Return(CONT).stack = Tail(calls)
            /\ Return(CONT).i = op.i
        BY <4>1, <4>o DEF Remains
      <4>3. /\ Tail(calls) \in Seq(Activations) /\ Tail(calls) # << >>
            /\ Len(Tail(calls)) = Len(calls) - 1
            /\ Tail(calls)[Len(calls) - 1] = calls[Len(calls)]
        BY <3>1, <1>a, LongTailIs
      <4> QED BY <4>2, <4>3, <1>a DEF StandsIn
    <3>2. CASE ~(Len(calls) > 1)
      <4>1. Return(CONT) = Value(op, CONT)
        BY <2>1, <3>2 DEF RecursiveReturns, calls
      <4>2. TopCall.s = Tagged[op.i]
        BY <3>2, <1>a, <1>b
      <4> QED BY <4>1, <4>2, <2>2, <1>a, ValueIs DEF StandsIn, Remains, Deleting
    <3> QED BY <3>1, <3>2
  <2> QED BY <1>4, <1>a, <1>b, <2>2, RmdirDeletes DEF RecursiveRmdir
<1> QED BY <1>1, <1>2, <1>3, <1>4

LEMMA OtherProcessDeletes ==
  ASSUME Deleting, OtherProcess
  PROVE  DeleteErases'
<1>1. PICK f \in NewFiles \ past.born :
         /\ Front(f) \in dirs /\ files' = With(files, f, NewFile(f))
         /\ past' = [past EXCEPT !.born = @ \cup {f}]
         /\ UNCHANGED <<dirs, marked, op>>
  BY DEF OtherProcess
<1>2. /\ Rooted'
      /\ \A k \in 1 .. Len(Tagged) : Gone(Tagged[k]) => GoneFrom(dirs', DOMAIN files', Tagged[k])
  BY <1>1, FileArrives DEF Deleting, DeleteErases, Gone
<1>3. past.born \subseteq past'.born
  BY <1>1 DEF Deleting, IsPast, PastFields
<1>4. Len(Tagged) \in Nat /\ (op.i # 0 => op.i \in 1 .. Len(Tagged))
  BY TreeAssumption DEF TreeAssumption, Deleting, DeleteErases
<1>5. op.i # 0 /\ GoneFrom(dirs, DOMAIN files, Tagged[op.i])
      => GoneFrom(dirs', DOMAIN files', Tagged[op.i])
  BY <1>2, <1>4 DEF Gone
<1>6. StandsIn(dirs, DOMAIN files, op) => StandsIn(dirs', DOMAIN files', op)
  BY <1>1, <1>5 DEF StandsIn
<1> QED BY <1>1, <1>2, <1>3, <1>6 DEF Deleting, DeleteErases, Stands

TreeInv == CopyInv /\ (op.operation = "delete" => DeleteErases)

LEMMA TreeInvInit == TreeInit => TreeInv
<1> SUFFICES ASSUME TreeInit, op.operation = "delete" PROVE DeleteErases
  BY CopyInvInit DEF TreeInv
<1>1. /\ op.follow_links = FALSE /\ op.i = 0
      /\ op.fn = "panel_operate" /\ op.pc = "loop"
  BY DEF TreeInit
<1>2. dirs = Dirs /\ DOMAIN files = Files
  BY DEF TreeInit
<1>3. Rooted
  BY <1>2, TreeAssumption DEF TreeAssumption, Rooted, TreeOf
<1>4. Range(Tagged) \cap Files \subseteq past.born
  <2> SUFFICES ASSUME NEW t \in Range(Tagged), t \in Files PROVE t \in past.born
    OBVIOUS
  <2> DEFINE S == Range(t)
  <2>1. t \in Seq(S)
    BY PathsAre DEF Paths
  <2> HIDE DEF S
  <2>2. Under(t, t)
    BY <2>1 DEF Under, IsPrefix
  <2> QED BY <2>2 DEF TreeInit
<1>5. 0 \in 0 .. Len(Tagged)
  BY TreeAssumption DEF TreeAssumption
<1> QED BY <1>1, <1>3, <1>4, <1>5 DEF DeleteErases, Stands, StandsIn

LEMMA TreeInvNext == TreeInv /\ [TreeNext]_tree_vars => TreeInv'
<1> SUFFICES ASSUME TreeInv, [TreeNext]_tree_vars, op'.operation = "delete"
             PROVE  DeleteErases'
  BY CopyInvNext DEF TreeInv
<1>1. Deleting
  BY StepsRemain DEF TreeInv, CopyInv, StepRemains, Deleting
<1>2. op.fn \in {"panel_operate", "erase_dir", "recursive_erase"}
  BY <1>1 DEF Deleting, DeleteErases, Stands, StandsIn
<1>3. ~CopyDirDir /\ ~MoveDirDir /\ ~IffEmptyCheck /\ ~IffEmptyRmdir
  BY <1>2 DEF CopyDirDir, StatSource, StatDest, Mkdir, Chown, Opendir, ReadEntry,
     CopyDirEnds, MoveDirDir, MoveStat, MoveRename, MoveCopied, MoveErases,
     IffEmptyCheck, IffEmptyRmdir, At
<1>4. CASE UNCHANGED tree_vars
  BY <1>1, <1>4 DEF Deleting, DeleteErases, Stands, Rooted, tree_vars
<1>5. CASE TreeNext
  BY <1>1, <1>3, <1>4, <1>5, NextEntryDeletes, EntryReturnsDeletes, TaggedFileDeletes,
     EraseDirDeletes, RecursiveDeletes, OtherProcessDeletes
     DEF TreeNext, EraseDirs, Done
<1> QED BY <1>4, <1>5

(* However a tree is deleted, with directories removed in the middle,      *)
(* calls that fail and files that another process adds, erase_dir and      *)
(* recursive_erase report success only when nothing of the entry is left.  *)
THEOREM ErasedIsGone == TreeSpec => []UntaggedIsErased
<1>1. TreeInv => UntaggedIsErased
  <2> SUFFICES ASSUME TreeInv, At("panel_operate", "value"), op.operation = "delete",
                      op.st = CONT
               PROVE  Gone(Src)
    BY DEF UntaggedIsErased, Gone, GoneFrom
  <2> QED BY DEF TreeInv, DeleteErases, Stands, StandsIn, At, Gone, Src
<1> QED BY <1>1, TreeInvInit, TreeInvNext, PTL DEF TreeSpec
=============================================================================
