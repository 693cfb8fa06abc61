--------------------------- MODULE DirectoryProofs --------------------------
(***************************************************************************)
(* Proofs about the directories mc is in: the file systems they are on     *)
(* (VfsGC), for any file systems, timeout and number of open files, and    *)
(* the shell that follows them (Subshell), for all directories, all chunks *)
(* of keys, any length of what is typed ahead and any number of kills.     *)
(*                                                                         *)
(* File systems.  The operators of VfsGC map a state v of the collector to *)
(* the next one, so the proof has a lemma for each of them about any such  *)
(* v; a command is then a chain of these lemmas.  Two facts are carried    *)
(* along:                                                                  *)
(*   Live(v)     the types, that the stamps name superblocks, once, and    *)
(*               that an archive out of sight is stamped or lost;          *)
(*   Kept(v, K)  what K needs is not stamped, and what neither K nor the   *)
(*               current directory needs is, but for what is lost.         *)
(*                                                                         *)
(* The shell.  The argument has three layers.  CallsMatch is about mc      *)
(* alone: where it is in feed_subshell and who called it.  ShellIsHeard    *)
(* relates what mc was told of the shell to what the shell does: a stop or *)
(* a death is in news until the handler has seen it.  Turns holds while    *)
(* the user waits for the prompt: either the shell awaits a command and    *)
(* nothing is under way, or exactly one Enter is, at the end of the        *)
(* terminal's input, in the job the shell runs, in the pipe, or in mc's    *)
(* call of synchronize.                                                    *)
(***************************************************************************)
EXTENDS VfsGC, Subshell, SequenceTheorems, FiniteSetTheorems,
        WellFoundedInduction, TLAPS

-----------------------------------------------------------------------------
(* Stamps and garbage collection (VfsGC).                                  *)

States == [supers : SUBSET FS, stamps : SUBSET Stamp, dir : Place,
           gone : SUBSET Archives, lost : SUBSET FS]
PanelStates == [cwd : [Side -> Place], listing : [Side -> BOOLEAN],
                current : Side, viewed : BOOLEAN]

Live(v) ==
  /\ v \in States
  /\ \A s, t \in v.stamps : s.id \in v.supers /\ (s.id = t.id => s = t)
  /\ \A f \in v.gone \cap v.supers : f \in v.lost \/ Stamped(v, f)

Here(v) == v.dir \notin v.lost => ~Stamped(v, v.dir)

Spared(v, K) == \A f \in K : f \in v.lost \/ ~Stamped(v, f)
Handed(v, K) ==
  \A f \in v.supers : f = v.dir \/ f \in K \/ Stamped(v, f) \/ f \in v.lost
Kept(v, K) == Spared(v, K) /\ Handed(v, K)

(* The places of the panels that show a listing, and of the open files.    *)
Shown(p) == {p.cwd[n] : n \in {m \in Side : p.listing[m]}}
Busy(fds) == {f \in FS : fds[f] > 0}

-----------------------------------------------------------------------------
(* No stamp is of the local file system or of no superblock.               *)
LEMMA StampTypes == ASSUME NEW s \in Stamp
                    PROVE s.id \in FS /\ s.id # NULL /\ s.id # Local
BY GCAssumption DEF Stamp, NULL

(* What vfs_getid answers is in sight.                                     *)
LEMMA GetIdSeen ==
  ASSUME NEW v, Live(v), NEW place
  PROVE  /\ GetId(v, place) \in v.supers \cup {NULL}
         /\ GetId(v, place) \notin v.gone
         /\ GetId(v, place) \in {place, NULL}
         /\ place \in v.supers \ v.gone => GetId(v, place) = place
         /\ NULL \notin v.supers /\ Local \notin v.supers /\ Local \notin v.gone
BY GCAssumption DEF GetId, Live, States, NULL

(* vfs_rmstamp takes the stamp of id away and no other.                    *)
LEMMA RmStampLive ==
  ASSUME NEW v, Live(v), NEW id, id \notin v.gone
  PROVE  LET w == RmStamp(v, id) IN
         /\ Live(w) /\ w.supers = v.supers /\ w.dir = v.dir
         /\ w.gone = v.gone /\ w.lost = v.lost
         /\ ~Stamped(w, id)
         /\ \A f : f # id => (Stamped(w, f) <=> Stamped(v, f))
<1> DEFINE w == RmStamp(v, id)
<1>1. /\ w.stamps = {s \in v.stamps : s.id # id} /\ w \in States
      /\ w.supers = v.supers /\ w.dir = v.dir
      /\ w.gone = v.gone /\ w.lost = v.lost
  BY DEF Live, States, RmStamp
<1> HIDE DEF w
<1>2. ~Stamped(w, id) /\ \A f : f # id => (Stamped(w, f) <=> Stamped(v, f))
  BY <1>1 DEF Stamped
<1>3. Live(w)
  BY <1>1, <1>2 DEF Live
<1> QED
  BY <1>1, <1>2, <1>3 DEF w

(* vfs_addstamp stamps id and changes no other stamp.                      *)
LEMMA AddStampLive ==
  ASSUME NEW v, Live(v), NEW id, id \in v.supers
  PROVE  LET w == AddStamp(v, id) IN
         /\ Live(w) /\ w.supers = v.supers /\ w.dir = v.dir
         /\ w.gone = v.gone /\ w.lost = v.lost
         /\ Stamped(w, id)
         /\ \A f : f # id => (Stamped(w, f) <=> Stamped(v, f))
<1> DEFINE new == [id |-> id, age |-> 0]
           w == AddStamp(v, id)
<1>1. id \in FS /\ id # NULL
  BY GCAssumption DEF Live, States, NULL
<1>2. new \in Stamp /\ new.id = id
  BY <1>1, GCAssumption DEF Stamp
<1>3. w = [v EXCEPT !.stamps = {s \in @ : s.id # id} \cup {new}]
  BY <1>1 DEF AddStamp
<1>4. /\ w.stamps = {s \in v.stamps : s.id # id} \cup {new}
      /\ w.supers = v.supers /\ w.dir = v.dir /\ w \in States
      /\ w.gone = v.gone /\ w.lost = v.lost
  BY <1>2, <1>3 DEF Live, States
<1> HIDE DEF new, w
<1>5. Stamped(w, id) /\ \A f : f # id => (Stamped(w, f) <=> Stamped(v, f))
  BY <1>2, <1>4 DEF Stamped
<1>6. Live(w)
  BY <1>2, <1>4, <1>5 DEF Live
<1> QED
  BY <1>4, <1>5, <1>6 DEF w

(* vfs_stamp_create: id may gain a stamp, the current place may lose one.  *)
LEMMA StampCreateLive ==
  ASSUME NEW v, Live(v), NEW p, NEW id \in v.supers \cup {NULL}
  PROVE  LET w == StampCreate(v, p, id) IN
         /\ Live(w) /\ w.supers = v.supers /\ w.dir = v.dir
         /\ w.gone = v.gone /\ w.lost = v.lost
         /\ v.dir \notin v.gone => ~Stamped(w, v.dir)
         /\ Here(v) => Here(w)
         /\ \A f : f # id /\ Stamped(w, f) => Stamped(v, f)
         /\ \A f : Stamped(v, f) /\ f # GetId(v, v.dir) => Stamped(w, f)
         /\ Stamped(w, id) => Stamped(v, id) \/ ~Listed(v, p, id)
         /\ Stamped(w, id) \/ id \in {NULL, GetId(v, v.dir)} \/ Listed(v, p, id)
<1> DEFINE here == GetId(v, v.dir)
           v1 == RmStamp(v, here)
           w == StampCreate(v, p, id)
<1>1. /\ here \in {v.dir, NULL} /\ here \notin v.gone
      /\ v.dir \in v.supers \ v.gone => here = v.dir
  BY GetIdSeen
<1> HIDE DEF here
<1>2. /\ Live(v1) /\ v1.supers = v.supers /\ v1.dir = v.dir
      /\ v1.gone = v.gone /\ v1.lost = v.lost
      /\ ~Stamped(v1, here)
      /\ \A f : f # here => (Stamped(v1, f) <=> Stamped(v, f))
  BY <1>1, RmStampLive
<1> HIDE DEF v1
<1>3. /\ Live(w) /\ w.supers = v.supers /\ w.dir = v.dir
      /\ w.gone = v.gone /\ w.lost = v.lost /\ ~Stamped(w, here)
      /\ \A f : f # id /\ Stamped(w, f) => Stamped(v, f)
      /\ \A f : Stamped(v, f) /\ f # here => Stamped(w, f)
      /\ Stamped(w, id) => Stamped(v, id) \/ ~Listed(v, p, id)
      /\ Stamped(w, id) \/ id \in {NULL, here} \/ Listed(v, p, id)
  <2>1. CASE id = NULL \/ id = here \/ Listed(v, p, id)
    <3>1. w = v1
      BY <2>1 DEF StampCreate, here, v1
    <3> QED
      BY <3>1, <1>2, <2>1
  <2>2. CASE ~(id = NULL \/ id = here \/ Listed(v, p, id))
    <3>1. w = AddStamp(v1, id) /\ id \in v1.supers
      BY <1>2, <2>2 DEF StampCreate, here, v1
    <3>2. /\ Live(w) /\ w.supers = v1.supers /\ w.dir = v1.dir
          /\ w.gone = v1.gone /\ w.lost = v1.lost /\ Stamped(w, id)
          /\ \A f : f # id => (Stamped(w, f) <=> Stamped(v1, f))
      BY <1>2, <3>1, AddStampLive
    <3> QED
      BY <1>2, <2>2, <3>2
  <2> QED
    BY <2>1, <2>2
<1> HIDE DEF w
<1>4. ~Stamped(w, v.dir) \/ v.dir \in v.gone \cap v.supers
  BY <1>1, <1>3 DEF Live, Stamped
<1>5. Here(v) => Here(w)
  BY <1>3, <1>4 DEF Here, Live
<1> QED
  BY <1>3, <1>4, <1>5 DEF w, here

(* What vfs_stamp_create looks for among the panels is a place they show.  *)
LEMMA ListedShown ==
  ASSUME NEW v, Live(v), NEW p, NEW id \in v.supers
  PROVE  /\ Listed(v, p, id) => id \in Shown(p)
         /\ id \in Shown(p) \ v.gone => Listed(v, p, id)
<1>1. id # NULL
  BY GCAssumption DEF Live, States, NULL
<1> QED
  BY <1>1 DEF Listed, Shown, GetId

(* What lost a user, id, may be handed over by StampCreate only.           *)
LEMMA StampCreateKept ==
  ASSUME NEW v, Live(v), NEW p, NEW id \in v.supers \cup {NULL},
         NEW K, Shown(p) \subseteq K, id \in K => id \in Shown(p),
         Spared(v, K),
         \A f \in v.supers : \/ f = v.dir \/ f \in K \/ Stamped(v, f)
                             \/ f = id \/ f \in v.lost
  PROVE  Kept(StampCreate(v, p, id), K)
<1> DEFINE w == StampCreate(v, p, id)
<1>1. /\ Live(w) /\ w.supers = v.supers /\ w.dir = v.dir /\ w.lost = v.lost
      /\ \A f : f # id /\ Stamped(w, f) => Stamped(v, f)
      /\ \A f : Stamped(v, f) /\ f # GetId(v, v.dir) => Stamped(w, f)
      /\ Stamped(w, id) => Stamped(v, id) \/ ~Listed(v, p, id)
      /\ Stamped(w, id) \/ id \in {NULL, GetId(v, v.dir)} \/ Listed(v, p, id)
  BY StampCreateLive
<1>2. NULL \notin v.supers /\ GetId(v, v.dir) \in {v.dir, NULL}
  BY GetIdSeen
<1>3. \A f : Stamped(w, f) => f \in v.supers
  BY <1>1 DEF Live, Stamped
<1> HIDE DEF w
<1>4. Spared(w, K)
  <2> SUFFICES ASSUME NEW f \in K, f \notin v.lost, Stamped(w, f) PROVE FALSE
    BY <1>1 DEF Spared
  <2>1. f = id /\ f \in v.supers /\ ~Stamped(v, f)
    BY <1>1, <1>3 DEF Spared
  <2>2. f \notin v.gone
    BY <2>1 DEF Live
  <2>3. Listed(v, p, f)
    BY <2>1, <2>2, ListedShown
  <2> QED
    BY <1>1, <2>1, <2>3
<1>5. Handed(w, K)
  <2> SUFFICES ASSUME NEW f \in v.supers, f # v.dir, f \notin K, f \notin v.lost
               PROVE  Stamped(w, f)
    BY <1>1 DEF Handed
  <2>1. f # GetId(v, v.dir) /\ f # NULL
    BY <1>2
  <2>2. CASE f = id
    BY <1>1, <2>1, <2>2, ListedShown
  <2>3. CASE f # id
    BY <1>1, <2>1, <2>3
  <2> QED
    BY <2>2, <2>3
<1> QED
  BY <1>4, <1>5 DEF Kept, w

-----------------------------------------------------------------------------
(* vfs_stamp stamps nothing that was not stamped.                          *)
LEMMA RenewLive ==
  ASSUME NEW v, Live(v), NEW id
  PROVE  LET w == Renew(v, id) IN
         /\ Live(w) /\ w.supers = v.supers /\ w.dir = v.dir
         /\ w.gone = v.gone /\ w.lost = v.lost
         /\ \A f : Stamped(w, f) <=> Stamped(v, f)
<1>1. CASE Stamped(v, id)
  <2>1. id \in v.supers
    BY <1>1 DEF Live, Stamped
  <2> QED
    BY <1>1, <2>1, AddStampLive DEF Renew
<1>2. CASE ~Stamped(v, id)
  BY <1>2 DEF Renew
<1> QED
  BY <1>1, <1>2

(* Opening a superblock stamps no other.                                   *)
LEMMA OpenSuperLive ==
  ASSUME NEW v, Live(v), NEW p, NEW place \in Place
  PROVE  LET w == OpenSuper(v, p, place) IN
         /\ Live(w) /\ w.dir = v.dir /\ (Here(v) => Here(w))
         /\ w.gone = v.gone /\ w.lost = v.lost
         /\ w.supers = v.supers \cup ({place} \ ({Local} \cup v.gone))
         /\ \A f \in v.supers : Stamped(w, f) => Stamped(v, f)
<1> DEFINE w == OpenSuper(v, p, place)
           v1 == [v EXCEPT !.supers = @ \cup {place}]
<1>1. CASE place \in {Local} \cup v.supers \cup v.gone
  <2>1. w = v \/ (place \in v.supers /\ w = Renew(v, place))
    BY <1>1 DEF OpenSuper
  <2>2. CASE w = v
    BY <1>1, <2>2
  <2>3. CASE place \in v.supers /\ w = Renew(v, place)
    BY <1>1, <2>3, RenewLive DEF Here
  <2> QED
    BY <2>1, <2>2, <2>3
<1>2. CASE place \notin {Local} \cup v.supers \cup v.gone
  <2>1. place \in FS /\ w = StampCreate(v1, p, place)
    BY <1>2 DEF OpenSuper, Place
  <2>2. /\ v1 \in States /\ v1.supers = v.supers \cup {place} /\ v1.dir = v.dir
        /\ v1.gone = v.gone /\ v1.lost = v.lost /\ v1.stamps = v.stamps
    BY <2>1 DEF Live, States
  <2> HIDE DEF v1
  <2>3. \A f : Stamped(v1, f) <=> Stamped(v, f)
    BY <2>2 DEF Stamped
  <2>4. Live(v1) /\ (Here(v) => Here(v1))
    BY <1>2, <2>2, <2>3 DEF Live, Here
  <2>5. /\ Live(w) /\ w.supers = v1.supers /\ w.dir = v1.dir
        /\ w.gone = v1.gone /\ w.lost = v1.lost /\ (Here(v1) => Here(w))
        /\ \A f : f # place /\ Stamped(w, f) => Stamped(v1, f)
    BY <2>1, <2>2, <2>4, StampCreateLive
  <2> QED
    BY <1>2, <2>2, <2>3, <2>4, <2>5
<1> QED
  BY <1>1, <1>2

(* It stays out of what is needed, unless it was so already.               *)
LEMMA OpenSuperKept ==
  ASSUME NEW v, Live(v), NEW p, NEW place \in Place,
         NEW K, Shown(p) \subseteq K, Kept(v, K),
         place \in K => place \in Shown(p) \cup v.supers
  PROVE  Kept(OpenSuper(v, p, place), K)
<1> DEFINE v1 == [v EXCEPT !.supers = @ \cup {place}]
<1>1. CASE place \in {Local} \cup v.supers \cup v.gone
  <2>1. OpenSuper(v, p, place) = v \/ OpenSuper(v, p, place) = Renew(v, place)
    BY <1>1 DEF OpenSuper
  <2>2. Kept(Renew(v, place), K)
    BY RenewLive DEF Kept, Spared, Handed
  <2> QED
    BY <2>1, <2>2
<1>2. CASE place \notin {Local} \cup v.supers \cup v.gone
  <2>1. place \in FS /\ OpenSuper(v, p, place) = StampCreate(v1, p, place)
    BY <1>2 DEF OpenSuper, Place
  <2>2. /\ v1 \in States /\ v1.supers = v.supers \cup {place} /\ v1.dir = v.dir
        /\ v1.gone = v.gone /\ v1.lost = v.lost /\ v1.stamps = v.stamps
    BY <2>1 DEF Live, States
  <2> HIDE DEF v1
  <2>3. Live(v1) /\ \A f : Stamped(v1, f) <=> Stamped(v, f)
    BY <1>2, <2>2 DEF Live, Stamped
  <2>4. /\ Spared(v1, K)
        /\ \A f \in v1.supers : \/ f = v1.dir \/ f \in K \/ Stamped(v1, f)
                                \/ f = place \/ f \in v1.lost
    BY <2>2, <2>3 DEF Kept, Spared, Handed
  <2>5. place \in K => place \in Shown(p)
    BY <1>2
  <2> QED
    BY <2>1, <2>2, <2>3, <2>4, <2>5, StampCreateKept
<1> QED
  BY <1>1, <1>2

-----------------------------------------------------------------------------
(* After mc_chdir the new directory is not stamped, nor lost.              *)
LEMMA ChdirLive ==
  ASSUME NEW v, Live(v), NEW p, NEW place \in Place \ v.gone
  PROVE  LET w == Chdir(v, p, place) IN
         /\ Live(w) /\ Here(w) /\ w.dir = place /\ w.gone = v.gone
         /\ ~Stamped(w, place)
<1> DEFINE v1 == OpenSuper(v, p, place)
           old == GetId(v1, v1.dir)
           v2 == [v1 EXCEPT !.dir = place]
           v3 == StampCreate(v2, p, old)
           w == [v3 EXCEPT !.lost = @ \ {place}]
<1>1. Live(v1) /\ v1.gone = v.gone
  BY OpenSuperLive
<1>2. /\ v2 \in States /\ v2.dir = place /\ v2.supers = v1.supers
      /\ v2.gone = v1.gone /\ v2.lost = v1.lost /\ v2.stamps = v1.stamps
  BY <1>1 DEF Live, States
<1>3. Chdir(v, p, place) = w
  BY DEF Chdir
<1> HIDE DEF v1, v2
<1>4. old \in v2.supers \cup {NULL}
  BY <1>1, <1>2, GetIdSeen
<1>5. Live(v2)
  BY <1>1, <1>2 DEF Live, Stamped
<1> HIDE DEF old
<1>6. /\ Live(v3) /\ v3.gone = v.gone /\ v3.dir = place /\ ~Stamped(v3, place)
  BY <1>1, <1>2, <1>4, <1>5, StampCreateLive
<1> HIDE DEF v3
<1>7. /\ w \in States /\ w.dir = v3.dir /\ w.supers = v3.supers /\ w.gone = v3.gone
      /\ w.stamps = v3.stamps /\ w.lost = v3.lost \ {place}
  BY <1>6 DEF Live, States
<1> HIDE DEF w
<1>8. \A f : Stamped(w, f) <=> Stamped(v3, f)
  BY <1>7 DEF Stamped
<1>9. Live(w)
  BY <1>6, <1>7, <1>8 DEF Live
<1> QED
  BY <1>3, <1>6, <1>7, <1>8, <1>9 DEF Here

(* The directory left is handed over, or lost if it is out of sight.       *)
LEMMA ChdirKept ==
  ASSUME NEW v, Live(v), NEW p, NEW place \in Place \ v.gone,
         NEW K, K \subseteq Place, Shown(p) \subseteq K, Kept(v, K),
         v.dir \in K => v.dir \in Shown(p),
         place \in K => place \in Shown(p) \cup v.supers
  PROVE  Kept(Chdir(v, p, place), K)
<1> DEFINE v1 == OpenSuper(v, p, place)
           old == GetId(v1, v1.dir)
           v2 == [v1 EXCEPT !.dir = place]
           v3 == StampCreate(v2, p, old)
           w == [v3 EXCEPT !.lost = @ \ {place}]
<1>1. Live(v1) /\ v1.dir = v.dir /\ v1.gone = v.gone /\ Kept(v1, K)
  BY OpenSuperLive, OpenSuperKept
<1>2. /\ v2 \in States /\ v2.dir = place /\ v2.supers = v1.supers
      /\ v2.gone = v1.gone /\ v2.lost = v1.lost /\ v2.stamps = v1.stamps
  BY <1>1 DEF Live, States
<1>3. Chdir(v, p, place) = w
  BY DEF Chdir
<1> HIDE DEF v1, v2
<1>4. /\ old \in v2.supers \cup {NULL} /\ old \in {v1.dir, NULL}
      /\ v1.dir \in v1.supers \ v1.gone => old = v1.dir
      /\ NULL \notin v1.supers
  BY <1>1, <1>2, GetIdSeen
<1>5. Live(v2) /\ \A f : Stamped(v2, f) <=> Stamped(v1, f)
  BY <1>1, <1>2 DEF Live, Stamped
<1>6. old \in K => old \in Shown(p)
  BY <1>1, <1>4, GCAssumption DEF Place, NULL
<1> HIDE DEF old
<1>7. Spared(v2, K)
  BY <1>1, <1>2, <1>5 DEF Kept, Spared
<1>8. \A f \in v2.supers : \/ f = v2.dir \/ f \in K \/ Stamped(v2, f)
                           \/ f = old \/ f \in v2.lost
  BY <1>1, <1>2, <1>4, <1>5 DEF Kept, Handed, Live
<1>9. Kept(v3, K)
  BY <1>2, <1>4, <1>5, <1>6, <1>7, <1>8, StampCreateKept
<1>10. v3.dir = place /\ Live(v3) /\ ~Stamped(v3, place)
  BY <1>1, <1>2, <1>4, <1>5, StampCreateLive
<1> HIDE DEF v3
<1>11. /\ w.dir = v3.dir /\ w.supers = v3.supers
       /\ w.stamps = v3.stamps /\ w.lost = v3.lost \ {place}
  BY <1>10 DEF Live, States
<1> HIDE DEF w
<1>12. \A f : Stamped(w, f) <=> Stamped(v3, f)
  BY <1>11 DEF Stamped
<1> QED
  BY <1>3, <1>9, <1>10, <1>11, <1>12 DEF Kept, Spared, Handed
-----------------------------------------------------------------------------
(* vfs_expire frees what is stamped, with its stamp, and nothing else.     *)
LEMMA ExpireLive ==
  ASSUME NEW v, Live(v), NEW now \in BOOLEAN
  PROVE  LET w == Expire(v, now) IN
         /\ Live(w) /\ w.dir = v.dir /\ w.supers \subseteq v.supers
         /\ Here(v) => Here(w)
         /\ w.lost \subseteq v.lost
         /\ \A f \in w.supers : f \in v.lost => f \in w.lost
         /\ \A f : Stamped(w, f) => Stamped(v, f)
         /\ \A f \in v.supers : ~Stamped(v, f) => f \in w.supers
         /\ \A f \in w.supers : Stamped(v, f) => Stamped(w, f)
         /\ now => \A f \in w.supers : ~Stamped(v, f)
<1> DEFINE w == Expire(v, now)
           freed == {s.id : s \in Old(v, now)}
<1>1. /\ w.supers = v.supers \ freed /\ w.stamps = v.stamps \ Old(v, now)
      /\ w.dir = v.dir /\ w.gone = v.gone /\ w.lost = v.lost \ freed
      /\ w \in States /\ Old(v, now) \subseteq v.stamps
      /\ now => Old(v, now) = v.stamps
  <2>1. Old(v, now) \subseteq v.stamps /\ (now => Old(v, now) = v.stamps)
    BY DEF Old
  <2> QED
    <3>1. /\ v \in States
          /\ w = [v EXCEPT !.supers = @ \ freed, !.stamps = @ \ Old(v, now),
                            !.lost = @ \ freed]
      BY DEF Live, Expire
    <3> HIDE DEF freed, w
    <3> QED
      BY <2>1, <3>1 DEF States
<1>2. \A s \in w.stamps : s.id \in v.supers /\ s.id \notin freed
  BY <1>1 DEF Live
<1> HIDE DEF w
<1>3. /\ \A f : Stamped(w, f) => Stamped(v, f) /\ f \in w.supers
      /\ \A f \in v.supers : ~Stamped(v, f) => f \in w.supers
      /\ \A f \in w.supers : Stamped(v, f) => Stamped(w, f)
      /\ now => \A f \in w.supers : ~Stamped(v, f)
  BY <1>1, <1>2 DEF Stamped
<1>4. w.lost \subseteq v.lost /\ \A f \in w.supers : f \in v.lost => f \in w.lost
  BY <1>1
<1>5. Live(w)
  BY <1>1, <1>2, <1>3, <1>4 DEF Live
<1>6. Here(v) => Here(w)
  BY <1>1, <1>3, <1>4 DEF Here
<1> QED
  BY <1>1, <1>3, <1>4, <1>5, <1>6 DEF w

(* So what is needed stays, and the rest stays handed over.                *)
LEMMA ExpireKept ==
  ASSUME NEW v, Live(v), NEW now \in BOOLEAN, NEW K, Kept(v, K)
  PROVE  Kept(Expire(v, now), K)
<1> DEFINE w == Expire(v, now)
<1>1. /\ Live(w) /\ w.dir = v.dir /\ w.supers \subseteq v.supers
      /\ \A f \in w.supers : f \in v.lost => f \in w.lost
      /\ \A f : Stamped(w, f) => Stamped(v, f)
      /\ \A f \in w.supers : Stamped(v, f) => Stamped(w, f)
  BY ExpireLive
<1> HIDE DEF w
<1>2. \A f : Stamped(w, f) => f \in w.supers
  BY <1>1 DEF Live, Stamped
<1> QED
  BY <1>1, <1>2 DEF Kept, Spared, Handed, w

(* At the end all that was needed is stamped too.                          *)
LEMMA AddCurrentLive ==
  ASSUME NEW v, Live(v), NEW p, p \in PanelStates
  PROVE  LET w == AddCurrentStamps(v, p) IN
         /\ Live(w) /\ w.supers = v.supers /\ w.lost = v.lost
         /\ \A f \in v.supers \ v.lost :
              f = v.dir \/ f \in Shown(p) \/ Stamped(v, f) => Stamped(w, f)
<1> DEFINE add(u, n) == IF p.listing[n] THEN AddStamp(u, GetId(u, p.cwd[n])) ELSE u
           v1 == AddStamp(v, GetId(v, v.dir))
           v2 == add(v1, p.current)
           v3 == add(v2, Other(p))
<1>1. ASSUME NEW u, Live(u), NEW place
      PROVE  LET a == AddStamp(u, GetId(u, place)) IN
             /\ Live(a) /\ a.supers = u.supers /\ a.lost = u.lost /\ a.gone = u.gone
             /\ place \in u.supers \ u.gone => Stamped(a, place)
             /\ \A f : Stamped(u, f) => Stamped(a, f)
  <2>1. CASE place \in u.supers \ u.gone
    <3>1. GetId(u, place) = place
      BY <2>1 DEF GetId
    <3> QED
      BY <1>1, <2>1, <3>1, AddStampLive
  <2>2. CASE place \notin u.supers \ u.gone
    <3>1. AddStamp(u, GetId(u, place)) = u
      BY <2>2 DEF GetId, AddStamp
    <3> QED
      BY <1>1, <2>2, <3>1
  <2> QED
    BY <2>1, <2>2
<1>2. ASSUME NEW u, Live(u), NEW n
      PROVE  LET a == add(u, n) IN
             /\ Live(a) /\ a.supers = u.supers /\ a.lost = u.lost /\ a.gone = u.gone
             /\ p.listing[n] /\ p.cwd[n] \in u.supers \ u.gone => Stamped(a, p.cwd[n])
             /\ \A f : Stamped(u, f) => Stamped(a, f)
  BY <1>1, <1>2
<1>3. AddCurrentStamps(v, p) = v3
  BY DEF AddCurrentStamps
<1>4. \A n \in Side : n = p.current \/ n = Other(p)
  BY DEF Side, Other, PanelStates
<1> HIDE DEF add
<1>5. /\ Live(v1) /\ v1.supers = v.supers /\ v1.lost = v.lost /\ v1.gone = v.gone
      /\ v.dir \in v.supers \ v.gone => Stamped(v1, v.dir)
      /\ \A f : Stamped(v, f) => Stamped(v1, f)
  BY <1>1
<1> HIDE DEF v1
<1>6. /\ Live(v2) /\ v2.supers = v.supers /\ v2.lost = v.lost /\ v2.gone = v.gone
      /\ p.listing[p.current] /\ p.cwd[p.current] \in v.supers \ v.gone
           => Stamped(v2, p.cwd[p.current])
      /\ \A f : Stamped(v1, f) => Stamped(v2, f)
  BY <1>2, <1>5
<1> HIDE DEF v2
<1>7. /\ Live(v3) /\ v3.supers = v.supers /\ v3.lost = v.lost
      /\ p.listing[Other(p)] /\ p.cwd[Other(p)] \in v.supers \ v.gone
           => Stamped(v3, p.cwd[Other(p)])
      /\ \A f : Stamped(v2, f) => Stamped(v3, f)
  BY <1>2, <1>6
<1> HIDE DEF v3
<1>8. ASSUME NEW f \in v.supers \ v.lost, f = v.dir \/ f \in Shown(p) \/ Stamped(v, f)
      PROVE  Stamped(v3, f)
  <2>1. Stamped(v, f) \/ f \notin v.gone
    BY DEF Live
  <2>2. CASE f \in Shown(p)
    <3>1. PICK n \in Side : p.listing[n] /\ f = p.cwd[n]
      BY <2>2 DEF Shown
    <3> QED
      BY <2>1, <3>1, <1>4, <1>5, <1>6, <1>7
  <2> QED
    BY <1>5, <1>6, <1>7, <1>8, <2>1, <2>2
<1> QED
  BY <1>3, <1>7, <1>8
-----------------------------------------------------------------------------
(* The inductive invariant.                                                *)
Open == Busy(fd_usage)
Users == Shown(panels) \cup Open

GCInv ==
  /\ GCTypeOK /\ Live(vfs) /\ Here(vfs)
  /\ \A f \in Open : f \in vfs.supers /\ ~Stamped(vfs, f)
  /\ ~panels.viewed => Kept(vfs, Users)
  /\ ~panels.viewed /\ ~running => vfs.supers \subseteq vfs.lost

(* mc starts with no superblock.                                           *)
LEMMA GCInitInv == GCInit => GCInv
<1> SUFFICES ASSUME GCInit PROVE GCInv
  OBVIOUS
<1>1. GCTypeOK
  BY GCAssumption DEF GCInit, GCTypeOK, Side, Place
<1>2. Live(vfs) /\ Here(vfs) /\ Open = {}
  BY <1>1 DEF GCInit, GCTypeOK, Live, States, Here, Stamped, Open, Busy
<1>3. Kept(vfs, Users)
  BY DEF GCInit, Kept, Spared, Handed, Stamped
<1> QED
  BY <1>1, <1>2, <1>3 DEF GCInv, GCInit

(* The commands of the panels run when no file is open.                    *)
LEMMA NothingOpenUsers ==
  ASSUME GCTypeOK, NothingOpen PROVE Open = {} /\ Users = Shown(panels)
BY DEF GCTypeOK, NothingOpen, Open, Busy, Users

(* The directories of the panels are places.                               *)
LEMMA ShownPlaces == ASSUME GCTypeOK PROVE Shown(panels) \subseteq Place
BY DEF GCTypeOK, Shown

(* What is left to prove of a command of the panels.                       *)
LEMMA PanelInv ==
  ASSUME GCInv, PanelCommand, panels' \in PanelStates, Live(vfs'), Here(vfs'),
         ~panels'.viewed => Kept(vfs', Shown(panels'))
  PROVE  GCInv'
<1>1. GCTypeOK'
  BY DEF GCInv, GCTypeOK, PanelCommand, Command, Live, States, PanelStates
<1>2. Open' = {} /\ Users' = Shown(panels')
  BY NothingOpenUsers DEF GCInv, PanelCommand, Open, Users
<1> QED
  BY <1>1, <1>2 DEF GCInv, PanelCommand, Command

(* _do_panel_cd: the place left is needed no more, the new one is.         *)
LEMMA DoPanelCdInv ==
  ASSUME GCInv, NEW n \in Side, NEW place \in Place, DoPanelCd(n, place)
  PROVE  GCInv'
<1> DEFINE p1 == [panels EXCEPT !.cwd[n] = place]
           v1 == Chdir(vfs, panels, place)
           id == GetId(v1, panels.cwd[n])
           v2 == ReleasePath(v1, p1, panels.cwd[n])
           K == Shown(panels)
           K1 == Shown(p1)
<1>1. /\ p1 \in PanelStates /\ p1.viewed = panels.viewed
      /\ K1 \subseteq K \cup {place} /\ place \in K1
      /\ K \subseteq K1 \cup {panels.cwd[n]}
      /\ K \subseteq Place /\ K1 \subseteq Place
  BY DEF GCInv, GCTypeOK, PanelStates, Shown, DoPanelCd
<1>2. place \in Place \ vfs.gone /\ Live(vfs)
  BY DEF DoPanelCd, GCInv
<1>3. Live(v1) /\ Here(v1) /\ v1.dir = place /\ ~Stamped(v1, place)
  BY <1>2, ChdirLive
<1> HIDE DEF v1
<1>4. /\ id \in v1.supers \cup {NULL}
      /\ panels.cwd[n] \in v1.supers \ v1.gone => id = panels.cwd[n]
  BY <1>3, GetIdSeen
<1>5. v2 = StampCreate(v1, p1, id)
  BY DEF ReleasePath
<1> HIDE DEF p1, id
<1>6. Live(v2) /\ Here(v2)
  BY <1>3, <1>4, <1>5, StampCreateLive
<1>7. ASSUME ~panels.viewed PROVE Kept(v2, K1)
  <2>1. Kept(v1, K)
    <3>1. Kept(vfs, K)
      BY <1>7, NothingOpenUsers DEF GCInv, DoPanelCd, PanelCommand
    <3> QED
      BY <3>1, <1>1, <1>2, ChdirKept DEF v1, Kept, Spared
  <2>2. Spared(v1, K1)
    BY <1>1, <1>3, <2>1 DEF Kept, Spared
  <2>3. \A f \in v1.supers : \/ f = v1.dir \/ f \in K1 \/ Stamped(v1, f)
                             \/ f = id \/ f \in v1.lost
    BY <1>1, <1>3, <1>4, <2>1 DEF Kept, Handed, Live
  <2>4. (id \in K1 => id \in Shown(p1)) /\ Shown(p1) \subseteq K1
    OBVIOUS
  <2> HIDE DEF K1
  <2> QED
    BY <1>3, <1>4, <1>5, <2>2, <2>3, <2>4, StampCreateKept
<1>8. panels' = p1 /\ vfs' = OpenSuper(v2, p1, place) /\ PanelCommand
  BY DEF DoPanelCd, p1, v1
<1> HIDE DEF v2
<1>9. Live(vfs') /\ Here(vfs')
  BY <1>2, <1>6, <1>8, OpenSuperLive
<1>10. ASSUME ~panels.viewed PROVE Kept(vfs', K1)
  <2>1. Kept(v2, K1) /\ (place \in K1 => place \in Shown(p1) \cup v2.supers)
    BY <1>7, <1>10
  <2>2. Shown(p1) \subseteq K1
    OBVIOUS
  <2> HIDE DEF K1
  <2> QED
    BY <1>2, <1>6, <1>8, <2>1, <2>2, OpenSuperKept
<1> QED
  BY <1>1, <1>8, <1>9, <1>10, PanelInv

(* mc_chdir into a directory, whether it succeeds or fails.                *)
LEMMA ChdirTried ==
  ASSUME NEW v, Live(v), Here(v), NEW p, NEW place \in Place, Shown(p) \subseteq Place,
         NEW w \in Entered(v, p, place) \cup Refused(v, p, place)
  PROVE  Live(w) /\ Here(w) /\ (Kept(v, Shown(p)) => Kept(w, Shown(p)))
<1> DEFINE K == Shown(p)
<1>1. (v.dir \in K => v.dir \in Shown(p)) /\ Shown(p) \subseteq K /\ K \subseteq Place
      /\ (place \in K => place \in Shown(p) \cup v.supers)
  OBVIOUS
<1> HIDE DEF K
<1>2. CASE w = v
  BY <1>2
<1>3. CASE w = OpenSuper(v, p, place)
  BY <1>1, <1>3, OpenSuperLive, OpenSuperKept DEF K
<1>4. CASE place \notin v.gone /\ w = Chdir(v, p, place)
  BY <1>1, <1>4, ChdirLive, ChdirKept DEF K
<1> QED
  BY <1>2, <1>3, <1>4 DEF Entered, Refused

(* The needed places are those of both panels, whichever is current.       *)
LEMMA FocusInv == ASSUME GCInv, FocusOther PROVE GCInv'
<1> DEFINE p1 == [panels EXCEPT !.current = Other(panels)]
           place == p1.cwd[p1.current]
<1>1. /\ p1 \in PanelStates /\ p1.viewed = panels.viewed
      /\ Shown(p1) = Shown(panels) /\ place \in Place
  BY DEF GCInv, GCTypeOK, PanelStates, Shown, Other, Side
<1>2. /\ PanelCommand /\ panels' = p1
      /\ vfs' \in Entered(vfs, p1, place) \cup Refused(vfs, p1, place)
  BY DEF FocusOther
<1>3. Shown(p1) \subseteq Place
  BY <1>1, ShownPlaces DEF GCInv
<1>4. ~panels.viewed => Kept(vfs, Shown(p1))
  BY <1>1, <1>2, NothingOpenUsers DEF GCInv, PanelCommand
<1> HIDE DEF p1, place
<1>5. /\ Live(vfs') /\ Here(vfs')
      /\ Kept(vfs, Shown(p1)) => Kept(vfs', Shown(p1))
  BY <1>1, <1>2, <1>3, ChdirTried DEF GCInv
<1> QED
  BY <1>1, <1>2, <1>4, <1>5, PanelInv

(* What the collector is not told of is lost, unless a panel shows it.     *)
LEMMA AbandonKept ==
  ASSUME NEW v, Live(v), Here(v), NEW p, NEW place,
         Kept(v, Shown(p) \cup {place}) \/ Kept(v, Shown(p)), place # v.dir
  PROVE  LET w == Abandon(v, p, place) IN
         Live(w) /\ Here(w) /\ Kept(w, Shown(p))
<1> DEFINE w == Abandon(v, p, place)
<1>1. /\ w \in States /\ w.supers = v.supers /\ w.dir = v.dir /\ w.gone = v.gone
      /\ w.stamps = v.stamps /\ v.lost \subseteq w.lost
      /\ \/ place \in w.lost \/ Stamped(v, place) \/ place \notin v.supers
         \/ Listed(v, p, place)
  BY DEF Abandon, Forget, Live, States
<1>2. place \in v.supers /\ Listed(v, p, place) => place \in Shown(p)
  BY ListedShown
<1> HIDE DEF w
<1>3. \A f : Stamped(w, f) <=> Stamped(v, f)
  BY <1>1 DEF Stamped
<1>4. Live(w) /\ Here(w)
  BY <1>1, <1>3 DEF Live, Here
<1>5. Kept(w, Shown(p))
  BY <1>1, <1>2, <1>3 DEF Kept, Spared, Handed
<1> QED
  BY <1>4, <1>5 DEF w

(* The state of the collector and the panels between two reloads.          *)
Reloading(s) ==
  /\ Live(s.vfs) /\ Here(s.vfs) /\ s.panels \in PanelStates
  /\ ~s.panels.viewed => Kept(s.vfs, Shown(s.panels))

(* A panel that goes up to the local disk: its place is handed over by     *)
(* mc_chdir if mc was there, and lost otherwise.                           *)
LEMMA CutUpKept ==
  ASSUME NEW v, Live(v), Here(v), NEW p \in PanelStates, NEW n \in Side, p.listing[n],
         p.cwd[n] # Local,
         ~p.viewed => Kept(v, Shown(p))
  PROVE  LET up == [p EXCEPT !.cwd[n] = Local] IN
         Reloading([vfs |-> Abandon(Chdir(v, up, Local), up, p.cwd[n]), panels |-> up])
<1> DEFINE up == [p EXCEPT !.cwd[n] = Local]
           place == p.cwd[n]
           K == Shown(p)
           K1 == Shown(up)
           x == Chdir(v, up, Local)
           y == Abandon(x, up, place)
<1>1. /\ up \in PanelStates /\ up.viewed = p.viewed /\ place \in K
      /\ K \subseteq K1 \cup {place} /\ K1 \subseteq K \cup {Local}
      /\ K1 \subseteq Place /\ place \in Place
  BY DEF PanelStates, Shown, Place
<1>2. Local \in Place \ v.gone /\ ~Stamped(v, Local)
  BY GCAssumption DEF Live, States, Place, Stamp, Stamped
<1>3. Live(x) /\ Here(x) /\ x.dir = Local
  BY <1>2, ChdirLive
<1>4. ASSUME ~p.viewed PROVE Kept(x, K1 \cup {place}) \/ Kept(x, K1)
  <2>1. Kept(v, K)
    BY <1>4
  <2>2. CASE v.dir = place /\ place \notin K1
    <3>1. Kept(v, K1)
      BY <1>1, <1>2, <2>1, <2>2 DEF Kept, Spared, Handed
    <3>2. K1 \subseteq Place /\ Shown(up) \subseteq K1 /\ v.dir \notin K1
      BY <1>1, <2>2
    <3>3. Local \in K1 => Local \in Shown(up)
      OBVIOUS
    <3> HIDE DEF up, K1
    <3> QED
      BY <3>1, <3>2, <3>3, <1>2, ChdirKept
  <2>3. CASE v.dir # place \/ place \in K1
    <3> DEFINE K2 == K1 \cup {place}
    <3>1. Kept(v, K2)
      BY <1>1, <1>2, <2>1 DEF Kept, Spared, Handed
    <3>2. K2 \subseteq Place /\ Shown(up) \subseteq K2
      BY <1>1
    <3>3. v.dir \in K2 => v.dir \in Shown(up)
      BY <2>3
    <3>4. Local \in K2 => Local \in Shown(up) \cup v.supers
      OBVIOUS
    <3> HIDE DEF up, K2, K1
    <3>5. Kept(x, K2)
      BY <3>1, <3>2, <3>3, <3>4, <1>2, ChdirKept
    <3> QED
      BY <3>5 DEF K2
  <2> QED
    BY <2>2, <2>3
<1> HIDE DEF x, up
<1>5. Live(y) /\ Here(y) /\ (~p.viewed => Kept(y, K1))
  <2>1. /\ y.dir = x.dir /\ y \in States /\ y.supers = x.supers /\ y.gone = x.gone
        /\ y.stamps = x.stamps /\ x.lost \subseteq y.lost
    BY <1>3 DEF Abandon, Forget, Live, States
  <2>2. Live(y) /\ Here(y)
    BY <1>3, <2>1 DEF Live, Here, Stamped
  <2>3. ~p.viewed => Kept(y, K1)
    BY <1>3, <1>4, AbandonKept
  <2> QED
    BY <2>2, <2>3
<1> QED
  BY <1>1, <1>5 DEF Reloading, up, x

(* panel_reload.                                                           *)
LEMMA PanelReloadKept ==
  ASSUME NEW s, Reloading(s), NEW n \in Side, NEW t \in PanelReload(s, n)
  PROVE  Reloading(t) /\ t.panels.viewed = s.panels.viewed
<1> DEFINE v == s.vfs
           p == s.panels
           place == p.cwd[n]
           up == [p EXCEPT !.cwd[n] = Local]
<1>1. /\ place \in Place /\ Shown(p) \subseteq Place /\ p \in PanelStates
      /\ Live(v) /\ Here(v) /\ (~p.viewed => Kept(v, Shown(p)))
  BY DEF Reloading, PanelStates, Shown
<1>2. CASE t = s
  BY <1>2
<1>3. CASE \E w \in Entered(v, p, place) : t = [vfs |-> w, panels |-> p]
  BY <1>1, <1>3, ChdirTried DEF Reloading
<1>4. ASSUME p.listing[n], place # Local, NEW w \in Refused(v, p, place),
             t = [vfs |-> Abandon(Chdir(w, up, Local), up, place), panels |-> up]
      PROVE  Reloading(t) /\ t.panels.viewed = p.viewed
  <2>1. Live(w) /\ Here(w) /\ (~p.viewed => Kept(w, Shown(p)))
    BY <1>1, ChdirTried
  <2>2. up.viewed = p.viewed
    BY <1>1 DEF PanelStates
  <2> HIDE DEF v, p
  <2>3. Reloading(t)
    BY <1>1, <1>4, <2>1, CutUpKept
  <2> QED
    BY <1>4, <2>2, <2>3
<1> QED
  BY <1>2, <1>3, <1>4 DEF PanelReload

(* The reload goes through the directories of the panels and back.         *)
LEMMA UpdatePanelsInv == ASSUME GCInv, UpdatePanels PROVE GCInv'
<1> DEFINE s0 == [vfs |-> vfs, panels |-> panels]
<1>1. PanelCommand /\ panels \in PanelStates
      /\ panels.current \in Side /\ Other(panels) \in Side
  BY DEF UpdatePanels, GCInv, GCTypeOK, PanelStates, Other, Side
<1>2. Reloading(s0)
  BY <1>1, NothingOpenUsers DEF Reloading, GCInv, PanelCommand
<1>3. PICK s1 \in PanelReload(s0, panels.current) :
        \E s2 \in PanelReload(s1, Other(panels)) :
          /\ panels' = s2.panels
          /\ vfs' \in Entered(s2.vfs, panels', s2.panels.cwd[panels.current])
                      \cup Refused(s2.vfs, panels', s2.panels.cwd[panels.current])
  BY DEF UpdatePanels
<1>4. PICK s2 \in PanelReload(s1, Other(panels)) :
        /\ panels' = s2.panels
        /\ vfs' \in Entered(s2.vfs, panels', s2.panels.cwd[panels.current])
                    \cup Refused(s2.vfs, panels', s2.panels.cwd[panels.current])
  BY <1>3
<1> HIDE DEF s0
<1>5. Reloading(s1)
  BY <1>1, <1>2, <1>3, PanelReloadKept
<1>6. Reloading(s2)
  BY <1>1, <1>4, <1>5, PanelReloadKept
<1>7. /\ panels' \in PanelStates /\ Shown(panels') \subseteq Place
      /\ s2.panels.cwd[panels.current] \in Place
  BY <1>1, <1>4, <1>6 DEF Reloading, PanelStates, Shown
<1>8. /\ Live(vfs') /\ Here(vfs')
      /\ Kept(s2.vfs, Shown(panels')) => Kept(vfs', Shown(panels'))
  BY <1>4, <1>6, <1>7, ChdirTried DEF Reloading
<1> QED
  BY <1>1, <1>4, <1>6, <1>7, <1>8, PanelInv DEF Reloading

(* From here on the facts about panels are not claimed.                    *)
LEMMA ToggleInv == ASSUME GCInv, ToggleOther PROVE GCInv'
<1> DEFINE n == Other(panels)
           place == panels.cwd[n]
           p1 == [panels EXCEPT !.listing[n] = ~@, !.viewed = TRUE]
           l1 == [panels.listing EXCEPT ![n] = ~panels.listing[n]]
<1>1. /\ place \in Place /\ vfs.dir \in Place /\ Shown(panels) \subseteq Place
      /\ panels \in PanelStates /\ n \in Side
  BY ShownPlaces DEF GCInv, GCTypeOK, PanelStates, Other, Side
<1>2. l1 \in [Side -> BOOLEAN]
  BY <1>1, Zenon DEF PanelStates
<1>3. p1 = [panels EXCEPT !.listing = l1, !.viewed = TRUE]
  BY Zenon
<1> HIDE DEF l1
<1>4. p1 \in PanelStates /\ p1.viewed
  BY <1>1, <1>2, <1>3 DEF PanelStates
<1>5. PanelCommand /\ panels' = p1
  BY DEF ToggleOther
<1>6. Live(vfs') /\ Here(vfs')
  <2>1. CASE vfs' = vfs
    BY <2>1 DEF GCInv
  <2>2. ASSUME NEW w \in Entered(vfs, panels, place) \cup Refused(vfs, panels, place),
               LET v == OpenSuper(w, panels, place)
               IN vfs' \in Entered(v, panels, vfs.dir) \cup Refused(v, panels, vfs.dir)
        PROVE  Live(vfs') /\ Here(vfs')
    <3>1. Live(w) /\ Here(w)
      BY <1>1, ChdirTried DEF GCInv
    <3>2. Live(OpenSuper(w, panels, place)) /\ Here(OpenSuper(w, panels, place))
      BY <1>1, <3>1, OpenSuperLive
    <3> QED
      BY <1>1, <2>2, <3>2, ChdirTried
  <2> QED
    BY <2>1, <2>2 DEF ToggleOther
<1> QED
  BY <1>4, <1>5, <1>6, PanelInv

(* vfs_expire (TRUE).                                                      *)
LEMMA FreeAllInv == ASSUME GCInv, FreeAllNow PROVE GCInv'
<1>1. PanelCommand /\ vfs' = Expire(vfs, TRUE) /\ panels' = panels
  BY DEF FreeAllNow
<1>2. /\ Live(vfs') /\ vfs'.dir = vfs.dir /\ vfs'.supers \subseteq vfs.supers
      /\ Here(vfs')
  BY <1>1, ExpireLive DEF GCInv
<1>4. ~panels.viewed => Kept(vfs', Shown(panels))
  BY <1>1, ExpireKept, NothingOpenUsers DEF GCInv, PanelCommand
<1>5. panels \in PanelStates
  BY DEF GCInv, GCTypeOK, PanelStates
<1> QED
  BY <1>1, <1>2, <1>4, <1>5, PanelInv

-----------------------------------------------------------------------------
(* The other commands leave the panels alone.                              *)
LEMMA CommandInv ==
  ASSUME GCInv, Command, UNCHANGED panels, Live(vfs'), Here(vfs'),
         fd_usage' \in [FS -> Nat], streams' \in [FS -> Nat],
         \A f \in Open' : f \in vfs'.supers /\ ~Stamped(vfs', f),
         ~panels.viewed => Kept(vfs', Shown(panels) \cup Open')
  PROVE  GCInv'
<1>1. GCTypeOK'
  BY DEF GCInv, GCTypeOK, Command, Live, States
<1>2. Users' = Shown(panels) \cup Open'
  BY DEF Users
<1> QED
  BY <1>1, <1>2 DEF GCInv, Command

(* Touch, and the part of OpenDir and OpenFile that opens the superblock.  *)
LEMMA Touched ==
  ASSUME GCInv, NEW f \in FS
  PROVE  LET w == OpenSuper(vfs, panels, f) IN
         /\ Live(w) /\ Here(w) /\ w.gone = vfs.gone
         /\ f \notin vfs.gone => f \in w.supers
         /\ \A g \in Open : g \in w.supers /\ ~Stamped(w, g)
         /\ ~panels.viewed => Kept(w, Users)
<1>1. f \in Place /\ f # Local
  BY GCAssumption DEF Place
<1>2. Shown(panels) \subseteq Users /\ (f \in Users => f \in Shown(panels) \cup vfs.supers)
  BY DEF Users, GCInv
<1> QED
  BY <1>1, <1>2, OpenSuperLive, OpenSuperKept DEF GCInv

(* An access by path, and the streams, which keep no count.                *)
LEMMA TouchInv ==
  ASSUME GCInv, NEW f \in FS, Touch(f) \/ OpenDir(f) \/ CloseDir(f)
  PROVE  GCInv'
<1>1. /\ Command /\ UNCHANGED <<panels, fd_usage>>
      /\ vfs' = vfs \/ vfs' = OpenSuper(vfs, panels, f)
      /\ streams' \in [FS -> Nat]
  BY GCAssumption DEF Touch, OpenDir, CloseDir, GCInv, GCTypeOK
<1>2. /\ Live(vfs') /\ Here(vfs')
      /\ \A g \in Open : g \in vfs'.supers /\ ~Stamped(vfs', g)
      /\ ~panels.viewed => Kept(vfs', Users)
  BY <1>1, Touched DEF GCInv
<1>3. Open' = Open /\ Users = Shown(panels) \cup Open
  BY <1>1 DEF Open, Users
<1>4. fd_usage' \in [FS -> Nat]
  BY <1>1 DEF GCInv, GCTypeOK
<1> QED
  BY <1>1, <1>2, <1>3, <1>4, CommandInv

(* The open file takes the stamp of its superblock away.                   *)
LEMMA OpenFileInv == ASSUME GCInv, NEW f \in FS, OpenFile(f) PROVE GCInv'
<1> DEFINE w == OpenSuper(vfs, panels, f)
<1>1. /\ Live(w) /\ Here(w) /\ f \in w.supers /\ f \notin w.gone
      /\ \A g \in Open : g \in w.supers /\ ~Stamped(w, g)
      /\ ~panels.viewed => Kept(w, Users)
  BY Touched DEF OpenFile
<1>2. Command /\ UNCHANGED panels /\ vfs' = RmStamp(w, f)
  BY DEF OpenFile
<1>3. /\ fd_usage' \in [FS -> Nat] /\ streams' \in [FS -> Nat]
      /\ Open' = Open \cup {f}
  BY GCAssumption DEF OpenFile, GCInv, GCTypeOK, Open, Busy
<1> HIDE DEF w
<1>4. /\ Live(vfs') /\ vfs'.supers = w.supers /\ vfs'.dir = w.dir
      /\ vfs'.lost = w.lost /\ ~Stamped(vfs', f)
      /\ \A g : g # f => (Stamped(vfs', g) <=> Stamped(w, g))
  BY <1>1, <1>2, RmStampLive
<1>5. Here(vfs')
  BY <1>1, <1>4 DEF Here
<1>6. \A g \in Open' : g \in vfs'.supers /\ ~Stamped(vfs', g)
  BY <1>1, <1>3, <1>4
<1>7. ~panels.viewed => Kept(vfs', Shown(panels) \cup Open')
  BY <1>1, <1>3, <1>4 DEF Kept, Spared, Handed, Users
<1> QED
  BY <1>2, <1>3, <1>4, <1>5, <1>6, <1>7, CommandInv

(* The last close hands the superblock over.                               *)
LEMMA CloseFileInv == ASSUME GCInv, NEW f \in FS, CloseFile(f) PROVE GCInv'
<1>1. /\ Command /\ UNCHANGED panels /\ f \in Open
      /\ fd_usage' \in [FS -> Nat] /\ streams' \in [FS -> Nat]
  BY GCAssumption DEF CloseFile, GCInv, GCTypeOK, Open, Busy
<1>2. CASE fd_usage[f] # 1
  <2>1. vfs' = vfs /\ Open' = Open
    BY <1>2 DEF CloseFile, GCInv, GCTypeOK, Open, Busy
  <2> QED
    BY <1>1, <2>1, CommandInv DEF GCInv, Users
<1>3. CASE fd_usage[f] = 1
  <2> DEFINE K == Shown(panels) \cup Open'
  <2>1. vfs' = StampCreate(vfs, panels, f) /\ Open' = Open \ {f}
    BY <1>3 DEF CloseFile, GCInv, GCTypeOK, Open, Busy
  <2>2. f \in vfs.supers
    BY <1>1 DEF GCInv
  <2>3. /\ Live(vfs') /\ Here(vfs') /\ vfs'.supers = vfs.supers
        /\ \A g : g # f /\ Stamped(vfs', g) => Stamped(vfs, g)
    BY <2>1, <2>2, StampCreateLive DEF GCInv
  <2>4. \A g \in Open' : g \in vfs'.supers /\ ~Stamped(vfs', g)
    BY <2>1, <2>3 DEF GCInv
  <2>5. ASSUME ~panels.viewed PROVE Kept(vfs', K)
    <3>1. Spared(vfs, K)
      BY <2>1, <2>5 DEF GCInv, Kept, Spared, Users
    <3>2. \A g \in vfs.supers : \/ g = vfs.dir \/ g \in K \/ Stamped(vfs, g)
                                \/ g = f \/ g \in vfs.lost
      BY <2>1, <2>5 DEF GCInv, Kept, Handed, Users
    <3>3. Shown(panels) \subseteq K /\ (f \in K => f \in Shown(panels))
      BY <2>1
    <3> HIDE DEF K
    <3> QED
      BY <2>1, <2>2, <3>1, <3>2, <3>3, StampCreateKept DEF GCInv
  <2> QED
    BY <1>1, <2>3, <2>4, <2>5, CommandInv
<1> QED
  BY <1>2, <1>3

(* vfs_expire (FALSE).                                                     *)
LEMMA TtyGetEventInv == ASSUME GCInv, TtyGetEvent PROVE GCInv'
<1>1. Command /\ UNCHANGED <<panels, fd_usage, streams>> /\ vfs' = Expire(vfs, FALSE)
  BY DEF TtyGetEvent
<1>2. Open' = Open /\ Users = Shown(panels) \cup Open
  BY <1>1 DEF Open, Users
<1>3. /\ Live(vfs') /\ vfs'.dir = vfs.dir
      /\ vfs'.supers \subseteq vfs.supers /\ Here(vfs')
      /\ \A f : Stamped(vfs', f) => Stamped(vfs, f)
      /\ \A f \in vfs.supers : ~Stamped(vfs, f) => f \in vfs'.supers
  BY <1>1, ExpireLive DEF GCInv
<1>4. \A f \in Open' : f \in vfs'.supers /\ ~Stamped(vfs', f)
  BY <1>2, <1>3 DEF GCInv
<1>5. ~panels.viewed => Kept(vfs', Shown(panels) \cup Open')
  BY <1>1, <1>2, ExpireKept DEF GCInv
<1>6. fd_usage' \in [FS -> Nat] /\ streams' \in [FS -> Nat]
  BY <1>1 DEF GCInv, GCTypeOK
<1> QED
  BY <1>1, <1>3, <1>4, <1>5, <1>6, CommandInv

(* The clock changes ages only.                                            *)
LEMMA TickInv == ASSUME GCInv, Tick PROVE GCInv'
<1> DEFINE older(s) == [id |-> s.id,
                        age |-> IF s.age < Timeout THEN s.age + 1 ELSE s.age]
<1>1. /\ Command /\ UNCHANGED <<panels, fd_usage, streams>>
      /\ vfs' = [vfs EXCEPT !.stamps = {older(s) : s \in @}]
  BY DEF Tick
<1>2. \A s \in Stamp : older(s) \in Stamp /\ older(s).id = s.id
  BY GCAssumption DEF Stamp
<1> HIDE DEF older
<1>3. /\ vfs' \in States /\ vfs'.supers = vfs.supers /\ vfs'.dir = vfs.dir
      /\ vfs'.gone = vfs.gone /\ vfs'.lost = vfs.lost
      /\ vfs'.stamps = {older(s) : s \in vfs.stamps}
  BY <1>1, <1>2 DEF GCInv, Live, States
<1>4. vfs.stamps \subseteq Stamp
  BY DEF GCInv, Live, States
<1>5. \A f : Stamped(vfs', f) <=> Stamped(vfs, f)
  BY <1>2, <1>3, <1>4 DEF Stamped
<1>6. Live(vfs')
  BY <1>2, <1>3, <1>4, <1>5 DEF GCInv, Live
<1>7. Open' = Open /\ Users = Shown(panels) \cup Open
  BY <1>1 DEF Open, Users
<1>8. Here(vfs') /\ (~panels.viewed => Kept(vfs', Shown(panels) \cup Open'))
  BY <1>3, <1>5, <1>7 DEF GCInv, Here, Kept, Spared, Handed
<1>9. /\ \A f \in Open' : f \in vfs'.supers /\ ~Stamped(vfs', f)
      /\ fd_usage' \in [FS -> Nat] /\ streams' \in [FS -> Nat]
  BY <1>1, <1>3, <1>5, <1>7 DEF GCInv, GCTypeOK
<1> QED
  BY <1>1, <1>6, <1>8, <1>9, CommandInv

(* An archive that nobody can look at any more is lost, unless stamped;    *)
(* when it is back it may be found again.                                  *)
LEMMA VanishInv ==
  ASSUME GCInv, NEW f \in Archives, Vanish(f) \/ Appear(f) PROVE GCInv'
<1>1. Command /\ UNCHANGED <<panels, fd_usage, streams>>
  BY DEF Vanish, Appear
<1>2. /\ vfs' \in States /\ vfs'.supers = vfs.supers /\ vfs'.dir = vfs.dir
      /\ vfs'.stamps = vfs.stamps /\ vfs'.gone \subseteq vfs.gone \cup {f}
      /\ vfs.lost \subseteq vfs'.lost
      /\ f \in vfs'.gone \cap vfs.supers => f \in vfs'.lost \/ Stamped(vfs, f)
  BY DEF Vanish, Appear, Forget, GCInv, Live, States
<1>3. \A g : Stamped(vfs', g) <=> Stamped(vfs, g)
  BY <1>2 DEF Stamped
<1>4. Live(vfs')
  BY <1>2, <1>3 DEF GCInv, Live
<1>5. Open' = Open /\ Users = Shown(panels) \cup Open
  BY <1>1 DEF Open, Users
<1>6. Here(vfs') /\ (~panels.viewed => Kept(vfs', Shown(panels) \cup Open'))
  BY <1>2, <1>3, <1>5 DEF GCInv, Here, Kept, Spared, Handed
<1>7. /\ \A g \in Open' : g \in vfs'.supers /\ ~Stamped(vfs', g)
      /\ fd_usage' \in [FS -> Nat] /\ streams' \in [FS -> Nat]
  BY <1>1, <1>2, <1>3, <1>5 DEF GCInv, GCTypeOK
<1> QED
  BY <1>1, <1>4, <1>6, <1>7, CommandInv

(* All that was protected is stamped, and so freed, but for what is lost.  *)
LEMMA QuitInv == ASSUME GCInv, Quit PROVE GCInv'
<1> DEFINE v1 == AddCurrentStamps(vfs, panels)
<1>1. /\ NothingOpen /\ running' = FALSE /\ vfs' = Expire(v1, TRUE)
      /\ UNCHANGED <<panels, fd_usage, streams>>
  BY DEF Quit
<1>2. /\ Live(v1) /\ v1.supers = vfs.supers /\ v1.lost = vfs.lost
      /\ \A f \in vfs.supers \ vfs.lost :
           f = vfs.dir \/ f \in Shown(panels) \/ Stamped(vfs, f) => Stamped(v1, f)
  BY AddCurrentLive DEF GCInv, GCTypeOK, PanelStates
<1> HIDE DEF v1
<1>3. /\ Live(vfs')
      /\ \A f : Stamped(vfs', f) => Stamped(v1, f)
      /\ vfs'.supers \subseteq v1.supers
      /\ \A f \in vfs'.supers : f \in v1.lost => f \in vfs'.lost
      /\ \A f \in vfs'.supers : ~Stamped(v1, f)
  BY <1>1, <1>2, ExpireLive
<1>4. \A f : ~Stamped(vfs', f)
  BY <1>3 DEF Live, Stamped
<1>5. ~panels.viewed => vfs'.supers \subseteq vfs'.lost
  BY <1>1, <1>2, <1>3, NothingOpenUsers DEF GCInv, Kept, Handed
<1>6. GCTypeOK' /\ Open' = {}
  BY <1>1, <1>3, NothingOpenUsers DEF GCInv, GCTypeOK, Live, States, Open
<1>7. Here(vfs') /\ (~panels.viewed => Kept(vfs', Users'))
  BY <1>4, <1>5 DEF Here, Kept, Spared, Handed
<1> QED
  BY <1>1, <1>3, <1>5, <1>6, <1>7 DEF GCInv

(* Nothing happens.                                                        *)
LEMMA StutterInv == ASSUME GCInv, UNCHANGED gc_vars PROVE GCInv'
BY DEF GCInv, gc_vars, GCTypeOK, Live, States, Here, Open, Users, Kept, Spared, Handed,
       Stamped, Busy, Shown

(* One step per action.                                                    *)
LEMMA GCNextInv == GCInv /\ [GCNext]_gc_vars => GCInv'
<1> SUFFICES ASSUME GCInv, [GCNext]_gc_vars PROVE GCInv'
  OBVIOUS
<1>1. CASE \E n \in Side, place \in Place : DoPanelCd(n, place)
  BY <1>1, DoPanelCdInv
<1>2. CASE \E f \in FS : Touch(f) \/ OpenDir(f) \/ CloseDir(f)
  BY <1>2, TouchInv
<1>3. CASE \E f \in FS : OpenFile(f)
  BY <1>3, OpenFileInv
<1>4. CASE \E f \in FS : CloseFile(f)
  BY <1>4, CloseFileInv
<1>5. CASE FocusOther
  BY <1>5, FocusInv
<1>6. CASE UpdatePanels
  BY <1>6, UpdatePanelsInv
<1>7. CASE ToggleOther
  BY <1>7, ToggleInv
<1>8. CASE TtyGetEvent
  BY <1>8, TtyGetEventInv
<1>9. CASE FreeAllNow
  BY <1>9, FreeAllInv
<1>10. CASE Tick
  BY <1>10, TickInv
<1>11. CASE Quit
  BY <1>11, QuitInv
<1>12. CASE \E f \in Archives : Vanish(f) \/ Appear(f)
  BY <1>12, VanishInv
<1>13. CASE Stopped \/ UNCHANGED gc_vars
  BY <1>13, StutterInv DEF Stopped
<1> QED
  BY <1>1, <1>2, <1>3, <1>4, <1>5, <1>6, <1>7, <1>8, <1>9, <1>10, <1>11, <1>12,
     <1>13
  DEF GCNext

(* The invariant holds in every state of every behaviour.                  *)
THEOREM GCInvariant == GCSpec => []GCInv
BY GCInitInv, GCNextInv, PTL DEF GCSpec

-----------------------------------------------------------------------------
(* The state has its types: no more files are counted open than were       *)
(* opened, and what is on the list of gc.c are stamps of superblocks.      *)
THEOREM GCTyped == GCSpec => []GCTypeOK
<1>1. GCInv => GCTypeOK
  BY DEF GCInv
<1> QED
  BY <1>1, GCInvariant, PTL

(* Every stamp names one superblock that is in memory: the identifier that *)
(* vfs_expire hands to fsfree is not a dangling pointer (gc.c:252-257).    *)
THEOREM StampsLive == GCSpec => []StampsAreLive
<1>1. GCInv => StampsAreLive
  BY DEF GCInv, Live, StampsAreLive
<1> QED
  BY <1>1, GCInvariant, PTL

(* The superblock of the current directory is never on the list: each of   *)
(* mc_chdir, vfs_stamp_create and vfs_expire leaves it off (gc.c:156-196). *)
(* The exception is an archive that went out of sight since mc entered it. *)
THEOREM CurrentIsKept == GCSpec => []CurrentNotStamped
<1>1. GCInv => CurrentNotStamped
  BY DEF GCInv, Here, CurrentNotStamped
<1> QED
  BY <1>1, GCInvariant, PTL

(* Until a panel is replaced by a view, neither is that of a panel, with   *)
(* the same exception.                                                     *)
THEOREM PanelsAreKept == GCSpec => []PanelsNotStamped
<1>1. GCInv => PanelsNotStamped
  BY DEF GCInv, PanelsNotStamped, Kept, Spared, Users, Shown
<1> QED
  BY <1>1, GCInvariant, PTL

(* A superblock with an open file is in memory when the file is closed:    *)
(* the expiry between the two never takes it (direntry.c:743-790).         *)
THEOREM OpenFilesStay == GCSpec => []OpenFilesKeepSuper
<1>1. GCInv => OpenFilesKeepSuper
  BY DEF GCInv, OpenFilesKeepSuper, Open, Busy
<1> QED
  BY <1>1, GCInvariant, PTL

(* Until then what nothing needs is on the list, whatever commands, failed *)
(* or not, led to it.  What panel_reload walked out of (screen.c:1324) and *)
(* archives that went out of sight are the only exceptions.                *)
THEOREM NothingForgotten == GCSpec => []UnneededIsStamped
<1>1. ASSUME GCInv PROVE UnneededIsStamped
  <2> SUFFICES ASSUME NEW f \in vfs.supers \ vfs.lost, ~Needed(f), ~panels.viewed
               PROVE  Stamped(vfs, f)
    BY DEF UnneededIsStamped, Unneeded
  <2>1. f \in FS
    BY <1>1 DEF GCInv, Live, States
  <2>2. f \notin Users /\ f # vfs.dir
    BY <2>1 DEF Needed, Users, Shown, Open, Busy
  <2>3. Handed(vfs, Users)
    BY <1>1 DEF GCInv, Kept
  <2> QED
    BY <2>2, <2>3 DEF Handed
<1> QED
  BY <1>1, GCInvariant, PTL

(* And then vfs_shut, which stamps the protected places and frees all that *)
(* is stamped, leaves no superblock but those exceptions (gc.c:299-312).   *)
THEOREM QuitFrees == GCSpec => []QuitFreesAll
<1>1. GCInv => QuitFreesAll
  BY DEF GCInv, QuitFreesAll
<1> QED
  BY <1>1, GCInvariant, PTL

-----------------------------------------------------------------------------
(* The concurrent shell (Subshell).                                        *)

AtFeed == mc.at \in {"loop", "checked", "select", "synchronize"}

(* Where mc is agrees with what it is doing there.                         *)
CallsMatch ==
  /\ mc.at \in {"main", "quit"} => mc.call = "none"
  /\ mc.how = "VISIBLY" <=> mc.call \in {"toggle", "command"}
  /\ mc.call = "cd" => mc.next # "restart"
  /\ use_subshell \/ mc.at \in {"main", "quit"}
  /\ AtFeed => subshell_state # "INACTIVE"
  /\ mc.at = "done" /\ mc.call \in {"init", "cd"} =>
       subshell_state = "INACTIVE"
  /\ mc.at = "failed" /\ mc.call # "init" => ~subshell_alive
  /\ subshell_state = "INACTIVE" => subshell_ready

(* mc was told of every stop and every death, or news still holds it.      *)
ShellIsHeard ==
  /\ StoppedIsAnnounced
  /\ StoppedIsStopped
  /\ news = "stopped" => sh.at = "stopped" /\ ~subshell_stopped
  /\ news \in {"exited", "killed"} => sh.at = "dead"
  /\ sh.at = "dead" /\ subshell_alive => news \in {"exited", "killed"}
  /\ ~subshell_alive => sh.at = "dead"

NoEnter(s) == \A i \in 1 .. Len(s) : s[i] # Enter
EndsLine(s) == /\ s # <<>> /\ s[Len(s)] = Enter
               /\ \A i \in 1 .. Len(s) - 1 : s[i] # Enter

(* The shell awaits a command, and mc knows where.                         *)
AwaitsCommand ==
  /\ sh.at = "prompt" /\ sh.hook /\ NoEnter(tty)
  /\ pipe = <<>> /\ news = "none" /\ mc.at # "synchronize"
  /\ subshell_cwd = sh.dir

(* One command line is under way.                                          *)
Unread ==
  /\ sh.at \in {"starting", "prompt"} /\ EndsLine(tty)
  /\ pipe = <<>> /\ news = "none" /\ mc.at # "synchronize"
  /\ \/ sh.hook
     \/ sh.line = <<>> /\ tty = <<"setup", Enter>>
     \/ sh.line = <<"setup">> /\ tty = <<Enter>>
Runs ==
  /\ sh.at = "running" /\ tty = <<>>
  /\ pipe = <<>> /\ news = "none" /\ mc.at # "synchronize"
  /\ sh.hook \/ sh.job = <<"setup">>
Reports ==
  /\ sh.at \in {"told", "stopped"} /\ sh.hook /\ tty = <<>>
  /\ news \in {"none", "stopped"}
  /\ \/ pipe = <<sh.dir>> /\ mc.at # "synchronize"
     \/ pipe = <<>> /\ mc.at = "synchronize" /\ subshell_cwd = sh.dir
UnderWay == Unread \/ Runs \/ Reports

(* mc waits for a prompt: of a command it sent itself, or of the user's.   *)
Expects ==
  \/ subshell_state = "RUNNING_COMMAND" /\ mc.call \in {"init", "cd"}
  \/ ~subshell_ready

Turns ==
  Calm =>
    /\ news # "killed" /\ (subshell_alive \/ quit)
    /\ use_subshell /\ sh.at # "dead" =>
         IF Expects THEN UnderWay ELSE AwaitsCommand
    /\ use_subshell /\ sh.at = "dead" => pipe = <<>> /\ mc.at # "synchronize"

IInv == TypeOK /\ CallsMatch /\ ShellIsHeard /\ Turns

-----------------------------------------------------------------------------
(* The steps, with the helpers the actions share taken apart.              *)

(* invoke_subshell gives the shell a command, or the terminal to the user. *)
Commands(next) ==
  /\ SendCommand(next)
  /\ \/ mc.at = "main" /\ ~NeedsChdir(cwd) /\ use_subshell
        /\ (next = "command" => subshell_state = "INACTIVE")
     \/ Fed("cd") /\ mc.next = next

(* Any caller of do_subshell_chdir sends the shell to a directory.         *)
Chdirs(d, next) ==
  /\ mc.at = "main" /\ use_subshell /\ NeedsChdir(d)
  /\ SendChdir(d, next) /\ cwd' \in Dirs

(* mc is back in its main loop, or leaves it, and the shell is as it was.  *)
Resumes ==
  /\ \/ mc.at = "main" /\ use_subshell /\ mc' = mc
     \/ Fed("cd") /\ mc' = MainLoop
     \/ (Fed("toggle") \/ Fed("command")) /\ (subshell_alive \/ quit)
        /\ mc' \in {MainLoop, [MainLoop EXCEPT !.at = "quit"]}
  /\ cwd' \in Dirs
  /\ UNCHANGED <<shell, subshell_state, subshell_ready, subshell_stopped,
                 subshell_alive, subshell_cwd, use_subshell, quit>>

Restarts ==
  /\ Fed("toggle") \/ Fed("command")
  /\ ~subshell_alive /\ ~quit /\ use_subshell
  /\ StartShell("restart")

Step ==
  \/ Shell \/ SigchldHandler \/ Feeding \/ InitReturns \/ QuitCmd
  \/ \E next \in {"toggle", "command"} : Commands(next)
  \/ \E d \in Dirs, next \in {"none", "toggle", "command"} : Chdirs(d, next)
  \/ Resumes \/ Restarts \/ UNCHANGED vars

LEMMA Steps == ASSUME TypeOK, CallsMatch, [Next]_vars PROVE Step
<1>0. cwd \in Dirs
  BY DEF TypeOK
<1>1. CASE ChdirReturns
  <2>1. CASE mc.next = "none"
    BY <1>0, <1>1, <2>1 DEF ChdirReturns, Step, Resumes, globals
  <2>2. CASE mc.next # "none"
    <3>1. mc.next \in {"toggle", "command"}
      BY <1>1, <2>2 DEF ChdirReturns, Fed, CallsMatch, TypeOK
    <3> QED BY <1>1, <2>2, <3>1 DEF ChdirReturns, Step, Commands
  <2> QED BY <2>1, <2>2
<1>2. CASE InvokeReturns
  <2>1. CASE StartShell("restart") /\ ~subshell_alive /\ ~quit /\ use_subshell
    BY <1>2, <2>1 DEF InvokeReturns, Step, Restarts
  <2>2. CASE ~(StartShell("restart") /\ ~subshell_alive /\ ~quit /\ use_subshell)
    <3>1. cwd' \in PanelFollows /\ PanelFollows \subseteq Dirs
      BY <1>0, <1>2, <2>2 DEF InvokeReturns, PanelFollows
    <3> QED BY <1>2, <2>2, <3>1 DEF InvokeReturns, Step, Resumes
  <2> QED BY <2>1, <2>2
<1>3. ASSUME NEW next \in {"toggle", "command"}, Invoke(next),
             next = "command" => subshell_state = "INACTIVE"
      PROVE  Step
  <2>1. CASE NeedsChdir(cwd)
    BY <1>0, <1>3, <2>1 DEF Invoke, Idle, Step, Chdirs
  <2>2. CASE ~NeedsChdir(cwd)
    BY <1>3, <2>2 DEF Invoke, Idle, Step, Commands
  <2> QED BY <2>1, <2>2
<1>4. ASSUME NEW d \in Dirs, PanelCd(d) PROVE Step
  <2>1. CASE NeedsChdir(d)
    BY <1>4, <2>1 DEF PanelCd, Idle, Step, Chdirs
  <2>2. CASE ~NeedsChdir(d)
    BY <1>4, <2>2 DEF PanelCd, Idle, Step, Resumes
  <2> QED BY <2>1, <2>2
<1> QED BY <1>1, <1>2, <1>3, <1>4
        DEF Next, Returning, TogglePanels, ShellExecute, Step

-----------------------------------------------------------------------------
(* Type correctness, in four groups of variables.                          *)

ShTyped ==
  sh \in [at : {"starting", "prompt", "running", "told", "stopped", "dead"},
         line : Seq(Word), job : Seq(Word), dir : Dirs, hook : BOOLEAN]
QueuesTyped ==
  /\ tty \in Seq(Word) /\ pipe \in Seq(Dirs)
  /\ news \in {"none", "stopped", "exited", "killed"}
  /\ past \in [kills : 0 .. MaxKills, hasty : BOOLEAN]
McTyped ==
  mc \in [at : {"main", "loop", "checked", "select", "synchronize", "done",
               "failed", "quit"},
         how : {"QUIETLY", "VISIBLY"},
         call : {"none", "init", "cd", "toggle", "command"},
         next : {"none", "toggle", "command", "restart"}]
GlobalsTyped ==
  /\ subshell_state \in {"INACTIVE", "ACTIVE", "RUNNING_COMMAND"}
  /\ subshell_ready \in BOOLEAN /\ subshell_alive \in BOOLEAN
  /\ subshell_stopped \in BOOLEAN /\ use_subshell \in BOOLEAN
  /\ quit \in BOOLEAN
  /\ subshell_cwd \in Dirs \cup {Unnamed, Garbled}
  /\ cwd \in Dirs

LEMMA TypeParts ==
  TypeOK <=> ShTyped /\ QueuesTyped /\ McTyped /\ GlobalsTyped
BY DEF TypeOK, ShTyped, QueuesTyped, McTyped, GlobalsTyped

(* A non-empty set of naturals has a least element.                        *)
LEMMA LeastNatural ==
  ASSUME NEW S \in SUBSET Nat, S # {}
  PROVE  \E n \in S : \A m \in S : n <= m
<1> DEFINE T == {0 .. n : n \in S}
           R == StrictSubsetOrdering(Nat)
<1>1. T \subseteq FiniteSubsetsOf(Nat) /\ T # {}
  <2>1. \A n \in S : IsFiniteSet(0 .. n) /\ 0 .. n \in SUBSET Nat
    BY FS_Interval
  <2> QED BY <2>1 DEF FiniteSubsetsOf
<1>2. IsWellFoundedOn(R, FiniteSubsetsOf(Nat))
  BY FS_StrictSubsetOrderingWellFounded
<1>3. PICK x \in T : \A y \in T : <<y, x>> \notin R
  BY <1>1, <1>2, WFMin
<1>4. PICK n \in S : x = 0 .. n
  OBVIOUS
<1>5. ASSUME NEW m \in S, m < n PROVE FALSE
  <2>1. 0 .. m \in T /\ 0 .. m \subseteq 0 .. n /\ n \notin 0 .. m
    BY <1>5
  <2>2. n \in 0 .. n /\ 0 .. m \in SUBSET Nat /\ 0 .. n \in SUBSET Nat
    OBVIOUS
  <2>3. <<0 .. m, 0 .. n>> \in R
    BY <2>1, <2>2 DEF StrictSubsetOrdering
  <2> QED BY <2>1, <2>3, <1>3, <1>4
<1> QED BY <1>5

(* The keys before the switch key are words for the shell.                 *)
LEMMA KeysBeforeSwitch ==
  ASSUME NEW chunk \in Chunks, SwitchKeys(chunk) # {}
  PROVE  /\ Min(SwitchKeys(chunk)) \in 1 .. Len(chunk)
         /\ SubSeq(chunk, 1, Min(SwitchKeys(chunk)) - 1) \in Seq(Word)
<1> DEFINE K == SwitchKeys(chunk)
<1>0. chunk \in Seq(Keys)
  BY SubshellAssumption
<1>1. DOMAIN chunk = 1 .. Len(chunk) /\ Len(chunk) \in Nat
  BY <1>0, LenProperties
<1>2. K \in SUBSET Nat /\ K \subseteq 1 .. Len(chunk)
  BY <1>1 DEF SwitchKeys
<1>3. \E n \in K : \A m \in K : n <= m
  BY <1>2, LeastNatural
<1>4. Min(K) \in K /\ \A m \in K : Min(K) <= m
  BY <1>3 DEF Min
<1> DEFINE m == Min(K)
<1>a. m \in 1 .. Len(chunk) /\ \A j \in K : m <= j
  BY <1>4, <1>2
<1> HIDE DEF m
<1>5. \A i \in 1 .. m - 1 : i \in 1 .. Len(chunk) /\ i \notin K
  BY <1>a, <1>1
<1>6. \A i \in 1 .. m - 1 : chunk[i] \in Word
  BY <1>5, <1>0, <1>1 DEF SwitchKeys, Keys, Word
<1>7. SubSeq(chunk, 1, m - 1) \in Seq(Word)
  BY <1>6, <1>a, <1>1, SubSeqProperties
<1> QED BY <1>7, <1>a DEF m

(* A chunk without the switch key is words for the shell.                  *)
LEMMA KeysAreWords ==
  ASSUME NEW chunk \in Chunks, SwitchKeys(chunk) = {}
  PROVE  chunk \in Seq(Word)
<1>1. chunk \in Seq(Keys)
  BY SubshellAssumption
<1>2. Len(chunk) \in Nat /\ DOMAIN chunk = 1 .. Len(chunk)
  BY <1>1
<1>3. \A i \in 1 .. Len(chunk) : chunk[i] \in Word
  BY <1>1, <1>2 DEF SwitchKeys, Keys, Word
<1> QED BY <1>1, <1>2, <1>3

(* What mc sends are words for the shell.                                  *)
LEMMA SendsWords ==
  ASSUME NEW w \in {"setup", "run"} \cup Dirs
  PROVE  <<w, Enter>> \in Seq(Word)
BY DEF Word, Enter

LEMMA OnlyElement ==
  ASSUME NEW S, NEW s \in Seq(S), Len(s) = 1
  PROVE  s[1] \in S
BY ElementOfSeq

LEMMA Bounds == MaxKills \in Nat /\ Home \in Dirs
  BY SubshellAssumption

LEMMA NoWords == <<>> \in Seq(Word) /\ <<>> \in Seq(Dirs)
  OBVIOUS

LEMMA InitType == Init => TypeOK
<1> SUFFICES ASSUME Init PROVE TypeOK
  OBVIOUS
<1>1. <<"setup", Enter>> \in Seq(Word)
  BY SendsWords
<1>2. ShTyped
  BY SubshellAssumption, NoWords DEF Init, ShTyped, NewShell
<1>3. QueuesTyped
  <2>0. 0 \in 0 .. MaxKills
    BY Bounds
  <2>1. past \in [kills : 0 .. MaxKills, hasty : BOOLEAN]
    BY <2>0 DEF Init
  <2> QED BY <1>1, <2>1, NoWords DEF Init, QueuesTyped
<1>4. McTyped
  BY DEF Init, McTyped, Feed
<1>5. GlobalsTyped
  BY DEF Init, GlobalsTyped
<1> QED BY <1>2, <1>3, <1>4, <1>5, TypeParts

LEMMA ShType == ASSUME ShTyped, QueuesTyped, Step PROVE ShTyped'
<1> USE DEF ShTyped, shell, globals
<1>1. CASE ShellStarts
  BY <1>1 DEF ShellStarts
<1>2. CASE ShellReads
  <2>1. Head(tty) \in Word
    BY <1>2 DEF ShellReads, QueuesTyped
  <2>2. AddWord(sh.line, Head(tty)) \in Seq(Word) /\ <<>> \in Seq(Word)
    <3>1. sh.line \in Seq(Word)
      OBVIOUS
    <3> QED BY <2>1, <3>1, AppendProperties DEF AddWord
  <2>3. CASE Head(tty) = Enter
    BY <1>2, <2>2, <2>3 DEF ShellReads
  <2>4. CASE Head(tty) # Enter
    BY <1>2, <2>2, <2>4 DEF ShellReads
  <2> QED BY <2>3, <2>4
<1>3. CASE CommandReads
  BY <1>3 DEF CommandReads
<1>4. CASE ShellFinishes
  <2>1. DirsAfter \subseteq Dirs
    BY DEF DirsAfter
  <2>2. PICK d \in DirsAfter :
          sh' = [sh EXCEPT !.at = IF sh.hook \/ sh.job = <<"setup">>
                                  THEN "told" ELSE "prompt",
                           !.job = <<>>, !.dir = d,
                           !.hook = sh.hook \/ sh.job = <<"setup">>]
    BY <1>4 DEF ShellFinishes
  <2>3. <<>> \in Seq(Word)
    OBVIOUS
  <2> QED BY <2>1, <2>2, <2>3
<1>5. CASE ShellStops
  BY <1>5 DEF ShellStops
<1>6. CASE ShellExits
  BY <1>6, NoWords DEF ShellExits, Dies
<1>7. CASE ShellKilled
  BY <1>7, NoWords DEF ShellKilled, Dies
<1>8. CASE SigchldHandler
  BY <1>8 DEF SigchldHandler
<1>9. CASE FeedLoop
  BY <1>9 DEF FeedLoop
<1>10. CASE FeedSelects
  BY <1>10 DEF FeedSelects
<1>11. CASE FeedOutput
  BY <1>11 DEF FeedOutput
<1>12. CASE FeedTimesOut
  BY <1>12 DEF FeedTimesOut
<1>13. CASE FeedReadsPipe
  BY <1>13 DEF FeedReadsPipe
<1>14. CASE Synchronize
  BY <1>14 DEF Synchronize
<1>15. ASSUME NEW c \in Chunks, FeedTypes(c) PROVE ShTyped'
  BY <1>15 DEF FeedTypes
<1>16. CASE InitReturns
  BY <1>16 DEF InitReturns
<1>17. CASE QuitCmd
  BY <1>17 DEF QuitCmd
<1>18. ASSUME NEW next \in {"toggle", "command"}, Commands(next)
      PROVE  ShTyped'
  BY <1>18 DEF Commands, SendCommand
<1>19. ASSUME NEW d \in Dirs, NEW next \in {"none", "toggle", "command"},
             Chdirs(d, next)
      PROVE  ShTyped'
  BY <1>19 DEF Chdirs, SendChdir
<1>20. CASE Resumes
  BY <1>20 DEF Resumes
<1>21. CASE Restarts
  BY <1>21, SubshellAssumption, NoWords DEF Restarts, StartShell, NewShell
<1>22. CASE UNCHANGED vars
  BY <1>22 DEF vars
<1> QED
  BY <1>1, <1>2, <1>3, <1>4, <1>5, <1>6, <1>7, <1>8, <1>9, <1>10, <1>11,
     <1>12, <1>13, <1>14, <1>15, <1>16, <1>17, <1>18, <1>19, <1>20, <1>21, <1>22
  DEF Step, Shell, Feeding

LEMMA QueuesType == ASSUME ShTyped, QueuesTyped, Step PROVE QueuesTyped'
<1> USE DEF QueuesTyped, shell, globals
<1>1. CASE ShellStarts
  BY <1>1 DEF ShellStarts
<1>2. CASE ShellReads
  BY <1>2 DEF ShellReads
<1>3. CASE CommandReads
  BY <1>3 DEF CommandReads
<1>4. CASE ShellFinishes
  <2>1. DirsAfter \subseteq Dirs
    BY DEF DirsAfter, ShTyped
  <2>2. PICK d \in DirsAfter : pipe' = pipe \/ pipe' = Append(pipe, d)
    BY <1>4 DEF ShellFinishes
  <2>3. pipe' \in Seq(Dirs)
    BY <2>1, <2>2, SMTT(60)
  <2> QED BY <1>4, <2>3 DEF ShellFinishes
<1>5. CASE ShellStops
  BY <1>5 DEF ShellStops
<1>6. CASE ShellExits
  BY <1>6 DEF ShellExits, Dies
<1>7. CASE ShellKilled
  <2>1. past' \in [kills : 0 .. MaxKills, hasty : BOOLEAN]
    <3>1. past.kills \in 0 .. MaxKills /\ past.kills < MaxKills
      BY <1>7 DEF ShellKilled
    <3>2. past.kills + 1 \in 0 .. MaxKills
      BY <3>1, Bounds
    <3> QED BY <1>7, <3>2 DEF ShellKilled
  <2> QED BY <1>7, <2>1 DEF ShellKilled, Dies
<1>8. CASE SigchldHandler
  BY <1>8 DEF SigchldHandler
<1>9. CASE FeedLoop
  BY <1>9 DEF FeedLoop
<1>10. CASE FeedSelects
  BY <1>10 DEF FeedSelects
<1>11. CASE FeedOutput
  BY <1>11 DEF FeedOutput
<1>12. CASE FeedTimesOut
  BY <1>12 DEF FeedTimesOut
<1>13. CASE FeedReadsPipe
  BY <1>13 DEF FeedReadsPipe
<1>14. CASE Synchronize
  BY <1>14 DEF Synchronize
<1>15. ASSUME NEW c \in Chunks, FeedTypes(c) PROVE QueuesTyped'
  <2>1. past' \in [kills : 0 .. MaxKills, hasty : BOOLEAN]
    BY <1>15 DEF FeedTypes, Patient
  <2>2. tty' \in Seq(Word)
    <3>1. CASE SwitchKeys(c) # {}
      <4>1. tty' = tty \o SubSeq(c, 1, Min(SwitchKeys(c)) - 1)
        BY <1>15, <3>1 DEF FeedTypes
      <4>2. SubSeq(c, 1, Min(SwitchKeys(c)) - 1) \in Seq(Word)
        BY <3>1, KeysBeforeSwitch
      <4> QED BY <4>1, <4>2, ConcatProperties
    <3>2. CASE SwitchKeys(c) = {}
      <4>1. tty' = tty \o c
        BY <1>15, <3>2 DEF FeedTypes
      <4>2. c \in Seq(Word)
        BY <3>2, KeysAreWords
      <4> QED BY <4>1, <4>2, ConcatProperties
    <3> QED BY <3>1, <3>2
  <2> QED BY <1>15, <2>1, <2>2 DEF FeedTypes
<1>16. CASE InitReturns
  BY <1>16 DEF InitReturns
<1>17. CASE QuitCmd
  BY <1>17 DEF QuitCmd
<1>18. ASSUME NEW next \in {"toggle", "command"}, Commands(next)
      PROVE  QueuesTyped'
  <2>1. tty' \in Seq(Word)
    <3>1. tty' = tty \/ tty' = tty \o <<"run", Enter>>
      BY <1>18 DEF Commands, SendCommand
    <3>2. <<"run", Enter>> \in Seq(Word)
      BY SendsWords
    <3>3. CASE tty' = tty
      BY <3>3
    <3>4. CASE tty' = tty \o <<"run", Enter>>
      BY <3>2, <3>4, ConcatProperties
    <3> QED BY <3>1, <3>3, <3>4
  <2> QED BY <1>18, <2>1 DEF Commands, SendCommand
<1>19. ASSUME NEW d \in Dirs, NEW next \in {"none", "toggle", "command"},
             Chdirs(d, next)
      PROVE  QueuesTyped'
  <2>1. tty' \in Seq(Word)
    BY <1>19, SendsWords, ConcatProperties DEF Chdirs, SendChdir
  <2> QED BY <1>19, <2>1 DEF Chdirs, SendChdir
<1>20. CASE Resumes
  BY <1>20 DEF Resumes
<1>21. CASE Restarts
  <2>1. tty' \in Seq(Word)
    BY <1>21, SendsWords, ConcatProperties DEF Restarts, StartShell
  <2> QED BY <1>21, <2>1 DEF Restarts, StartShell
<1>22. CASE UNCHANGED vars
  BY <1>22 DEF vars
<1> QED
  BY <1>1, <1>2, <1>3, <1>4, <1>5, <1>6, <1>7, <1>8, <1>9, <1>10, <1>11,
     <1>12, <1>13, <1>14, <1>15, <1>16, <1>17, <1>18, <1>19, <1>20, <1>21, <1>22
  DEF Step, Shell, Feeding

LEMMA McType == ASSUME McTyped, Step PROVE McTyped'
<1> USE DEF McTyped, shell, globals, At, Feed, MainLoop
<1>1. CASE ShellStarts
  BY <1>1 DEF ShellStarts
<1>2. CASE ShellReads
  BY <1>2 DEF ShellReads
<1>3. CASE CommandReads
  BY <1>3 DEF CommandReads
<1>4. CASE ShellFinishes
  BY <1>4 DEF ShellFinishes
<1>5. CASE ShellStops
  BY <1>5 DEF ShellStops
<1>6. CASE ShellExits
  BY <1>6 DEF ShellExits, Dies
<1>7. CASE ShellKilled
  BY <1>7 DEF ShellKilled, Dies
<1>8. CASE SigchldHandler
  BY <1>8 DEF SigchldHandler
<1>9. CASE FeedLoop
  BY <1>9 DEF FeedLoop
<1>10. CASE FeedSelects
  BY <1>10 DEF FeedSelects
<1>11. CASE FeedOutput
  BY <1>11 DEF FeedOutput
<1>12. CASE FeedTimesOut
  BY <1>12 DEF FeedTimesOut
<1>13. CASE FeedReadsPipe
  BY <1>13 DEF FeedReadsPipe
<1>14. CASE Synchronize
  BY <1>14 DEF Synchronize
<1>15. ASSUME NEW c \in Chunks, FeedTypes(c) PROVE McTyped'
  BY <1>15 DEF FeedTypes
<1>16. CASE InitReturns
  BY <1>16 DEF InitReturns
<1>17. CASE QuitCmd
  BY <1>17 DEF QuitCmd
<1>18. ASSUME NEW next \in {"toggle", "command"}, Commands(next)
      PROVE  McTyped'
  BY <1>18 DEF Commands, SendCommand
<1>19. ASSUME NEW d \in Dirs, NEW next \in {"none", "toggle", "command"},
             Chdirs(d, next)
      PROVE  McTyped'
  BY <1>19 DEF Chdirs, SendChdir
<1>20. CASE Resumes
  BY <1>20 DEF Resumes
<1>21. CASE Restarts
  BY <1>21 DEF Restarts, StartShell
<1>22. CASE UNCHANGED vars
  BY <1>22 DEF vars
<1> QED
  BY <1>1, <1>2, <1>3, <1>4, <1>5, <1>6, <1>7, <1>8, <1>9, <1>10, <1>11,
     <1>12, <1>13, <1>14, <1>15, <1>16, <1>17, <1>18, <1>19, <1>20, <1>21, <1>22
  DEF Step, Shell, Feeding

LEMMA GlobalsType == ASSUME GlobalsTyped, QueuesTyped, Step PROVE GlobalsTyped'
<1> USE DEF GlobalsTyped, QueuesTyped, shell, globals
<1>1. CASE ShellStarts
  BY <1>1 DEF ShellStarts
<1>2. CASE ShellReads
  BY <1>2 DEF ShellReads
<1>3. CASE CommandReads
  BY <1>3 DEF CommandReads
<1>4. CASE ShellFinishes
  BY <1>4 DEF ShellFinishes
<1>5. CASE ShellStops
  BY <1>5 DEF ShellStops
<1>6. CASE ShellExits
  BY <1>6 DEF ShellExits, Dies
<1>7. CASE ShellKilled
  BY <1>7 DEF ShellKilled, Dies
<1>8. CASE SigchldHandler
  BY <1>8 DEF SigchldHandler
<1>9. CASE FeedLoop
  BY <1>9 DEF FeedLoop
<1>10. CASE FeedSelects
  BY <1>10 DEF FeedSelects
<1>11. CASE FeedOutput
  BY <1>11 DEF FeedOutput
<1>12. CASE FeedTimesOut
  BY <1>12 DEF FeedTimesOut
<1>13. CASE FeedReadsPipe
  <2>1. Len(pipe) = 1 => pipe[1] \in Dirs
    <3>1. pipe \in Seq(Dirs)
      OBVIOUS
    <3> QED BY <3>1, OnlyElement
  <2>2. subshell_cwd' \in Dirs \cup {Unnamed, Garbled}
    BY <1>13, <2>1 DEF FeedReadsPipe
  <2> QED BY <1>13, <2>2 DEF FeedReadsPipe
<1>14. CASE Synchronize
  BY <1>14 DEF Synchronize
<1>15. ASSUME NEW c \in Chunks, FeedTypes(c) PROVE GlobalsTyped'
  BY <1>15 DEF FeedTypes
<1>16. CASE InitReturns
  BY <1>16 DEF InitReturns
<1>17. CASE QuitCmd
  BY <1>17 DEF QuitCmd
<1>18. ASSUME NEW next \in {"toggle", "command"}, Commands(next)
      PROVE  GlobalsTyped'
  BY <1>18 DEF Commands, SendCommand
<1>19. ASSUME NEW d \in Dirs, NEW next \in {"none", "toggle", "command"},
             Chdirs(d, next)
      PROVE  GlobalsTyped'
  BY <1>19 DEF Chdirs, SendChdir
<1>20. CASE Resumes
  BY <1>20 DEF Resumes
<1>21. CASE Restarts
  BY <1>21 DEF Restarts, StartShell
<1>22. CASE UNCHANGED vars
  BY <1>22 DEF vars
<1> QED
  BY <1>1, <1>2, <1>3, <1>4, <1>5, <1>6, <1>7, <1>8, <1>9, <1>10, <1>11,
     <1>12, <1>13, <1>14, <1>15, <1>16, <1>17, <1>18, <1>19, <1>20, <1>21, <1>22
  DEF Step, Shell, Feeding

LEMMA NextType == ASSUME TypeOK, Step PROVE TypeOK'
<1>1. ShTyped /\ QueuesTyped /\ McTyped /\ GlobalsTyped
  BY TypeParts
<1>2. ShTyped'
  BY <1>1, ShType
<1>3. QueuesTyped'
  BY <1>1, QueuesType
<1>4. McTyped'
  BY <1>1, McType
<1>5. GlobalsTyped'
  BY <1>1, GlobalsType
<1> QED BY <1>2, <1>3, <1>4, <1>5
        DEF TypeOK, ShTyped, QueuesTyped, McTyped, GlobalsTyped

-----------------------------------------------------------------------------
(* Where mc is.                                                            *)

LEMMA NextCalls == ASSUME McTyped, GlobalsTyped, CallsMatch, Step PROVE CallsMatch'
<1> USE DEF McTyped, GlobalsTyped, CallsMatch, AtFeed, Fed, Feed, At, MainLoop,
            NeedsChdir, shell, globals
<1>1. CASE ShellStarts
  BY <1>1 DEF ShellStarts
<1>2. CASE ShellReads
  BY <1>2 DEF ShellReads
<1>3. CASE CommandReads
  BY <1>3 DEF CommandReads
<1>4. CASE ShellFinishes
  BY <1>4 DEF ShellFinishes
<1>5. CASE ShellStops
  BY <1>5 DEF ShellStops
<1>6. CASE ShellExits
  BY <1>6 DEF ShellExits, Dies
<1>7. CASE ShellKilled
  BY <1>7 DEF ShellKilled, Dies
<1>8. CASE SigchldHandler
  BY <1>8 DEF SigchldHandler
<1>9. CASE FeedLoop
  BY <1>9 DEF FeedLoop
<1>10. CASE FeedSelects
  BY <1>10 DEF FeedSelects
<1>11. CASE FeedOutput
  BY <1>11 DEF FeedOutput
<1>12. CASE FeedTimesOut
  BY <1>12 DEF FeedTimesOut
<1>13. CASE FeedReadsPipe
  BY <1>13 DEF FeedReadsPipe
<1>14. CASE Synchronize
  BY <1>14 DEF Synchronize
<1>15. ASSUME NEW c \in Chunks, FeedTypes(c) PROVE CallsMatch'
  BY <1>15 DEF FeedTypes
<1>16. CASE InitReturns
  BY <1>16 DEF InitReturns
<1>17. CASE QuitCmd
  BY <1>17 DEF QuitCmd
<1>18. ASSUME NEW next \in {"toggle", "command"}, Commands(next)
      PROVE  CallsMatch'
  <2>1. mc' = Feed("VISIBLY", next, "none") /\ SendCommand(next)
    BY <1>18 DEF Commands, SendCommand
  <2>2. mc'.at = "loop" /\ mc'.how = "VISIBLY" /\ mc'.call = next
    BY <2>1
  <2>3. use_subshell /\ mc.at # "synchronize"
    <3>1. (mc.at = "main" /\ use_subshell) \/ mc.at \in {"done", "failed"}
      BY <1>18 DEF Commands
    <3> QED BY <3>1
  <2>4. UNCHANGED <<sh, pipe, news, use_subshell, subshell_alive, subshell_stopped>>
    BY <2>1 DEF SendCommand
  <2>5. subshell_state' # "INACTIVE"
    BY <2>1 DEF SendCommand
  <2> QED BY <2>2, <2>3, <2>4, <2>5
<1>19. ASSUME NEW d \in Dirs, NEW next \in {"none", "toggle", "command"},
             Chdirs(d, next)
      PROVE  CallsMatch'
  BY <1>19 DEF Chdirs, SendChdir
<1>20. CASE Resumes
  <2>1. CASE mc.at = "main" /\ mc' = mc
    BY <1>20, <2>1 DEF Resumes
  <2>2. CASE Fed("cd") /\ mc' = MainLoop
    BY <1>20, <2>2 DEF Resumes
  <2>3. CASE mc' \in {MainLoop, [MainLoop EXCEPT !.at = "quit"]}
    <3>1. mc'.at \in {"main", "quit"} /\ mc'.call = "none" /\ mc'.how = "QUIETLY"
      BY <2>3
    <3> QED BY <1>20, <3>1 DEF Resumes
  <2> QED BY <1>20, <2>1, <2>2, <2>3 DEF Resumes
<1>21. CASE Restarts
  BY <1>21 DEF Restarts, StartShell
<1>22. CASE UNCHANGED vars
  BY <1>22 DEF vars
<1> QED
  BY <1>1, <1>2, <1>3, <1>4, <1>5, <1>6, <1>7, <1>8, <1>9, <1>10, <1>11,
     <1>12, <1>13, <1>14, <1>15, <1>16, <1>17, <1>18, <1>19, <1>20, <1>21, <1>22
  DEF Step, Shell, Feeding

-----------------------------------------------------------------------------
(* What mc has heard of the shell.                                         *)

LEMMA NextHeard == ASSUME ShTyped, QueuesTyped, McTyped, GlobalsTyped, CallsMatch,
                         ShellIsHeard, Step PROVE ShellIsHeard'
<1> USE DEF ShTyped, McTyped, CallsMatch, AtFeed, ShellIsHeard,
            StoppedIsAnnounced, StoppedIsStopped, Fed, Feed, At, MainLoop,
            shell, globals
<1>1. CASE ShellStarts
  BY <1>1 DEF ShellStarts
<1>2. CASE ShellReads
  BY <1>2 DEF ShellReads
<1>3. CASE CommandReads
  BY <1>3 DEF CommandReads
<1>4. CASE ShellFinishes
  <2>1. PICK d \in DirsAfter :
          /\ sh' = [sh EXCEPT !.at = IF sh.hook \/ sh.job = <<"setup">>
                                     THEN "told" ELSE "prompt",
                              !.job = <<>>, !.dir = d,
                              !.hook = sh.hook \/ sh.job = <<"setup">>]
          /\ pipe' = IF sh.hook \/ sh.job = <<"setup">>
                     THEN Append(pipe, d) ELSE pipe
    BY <1>4 DEF ShellFinishes
  <2>2. sh'.at = "told" => pipe' # <<>>
    BY <2>1, AppendProperties DEF QueuesTyped
  <2>3. sh'.at \in {"told", "prompt"}
    BY <2>1
  <2>4. UNCHANGED <<news, mc, subshell_stopped, subshell_alive>>
    BY <1>4 DEF ShellFinishes
  <2> QED BY <1>4, <2>2, <2>3, <2>4 DEF ShellFinishes
<1>5. CASE ShellStops
  BY <1>5 DEF ShellStops
<1>6. CASE ShellExits
  BY <1>6 DEF ShellExits, Dies
<1>7. CASE ShellKilled
  BY <1>7 DEF ShellKilled, Dies
<1>8. CASE SigchldHandler
  BY <1>8 DEF SigchldHandler, QueuesTyped, GlobalsTyped
<1>9. CASE FeedLoop
  BY <1>9 DEF FeedLoop
<1>10. CASE FeedSelects
  BY <1>10 DEF FeedSelects
<1>11. CASE FeedOutput
  BY <1>11 DEF FeedOutput
<1>12. CASE FeedTimesOut
  BY <1>12 DEF FeedTimesOut
<1>13. CASE FeedReadsPipe
  BY <1>13 DEF FeedReadsPipe
<1>14. CASE Synchronize
  BY <1>14 DEF Synchronize
<1>15. ASSUME NEW c \in Chunks, FeedTypes(c) PROVE ShellIsHeard'
  BY <1>15 DEF FeedTypes
<1>16. CASE InitReturns
  BY <1>16 DEF InitReturns
<1>17. CASE QuitCmd
  <2>1. mc.at = "main" /\ mc'.at = "quit"
    BY <1>17 DEF QuitCmd, Idle
  <2> QED BY <1>17, <2>1 DEF QuitCmd
<1>18. ASSUME NEW next \in {"toggle", "command"}, Commands(next)
      PROVE  ShellIsHeard'
  <2>1. mc' = Feed("VISIBLY", next, "none") /\ SendCommand(next)
    BY <1>18 DEF Commands, SendCommand
  <2>2. mc'.at = "loop" /\ mc'.how = "VISIBLY" /\ mc'.call = next
    BY <2>1
  <2>3. use_subshell /\ mc.at # "synchronize"
    <3>1. (mc.at = "main" /\ use_subshell) \/ mc.at \in {"done", "failed"}
      BY <1>18 DEF Commands
    <3> QED BY <3>1
  <2>4. UNCHANGED <<sh, pipe, news, use_subshell, subshell_alive, subshell_stopped>>
    BY <2>1 DEF SendCommand
  <2>5. subshell_state' # "INACTIVE"
    BY <2>1 DEF SendCommand
  <2> QED BY <2>2, <2>3, <2>4, <2>5
<1>19. ASSUME NEW d \in Dirs, NEW next \in {"none", "toggle", "command"},
             Chdirs(d, next)
      PROVE  ShellIsHeard'
  BY <1>19 DEF Chdirs, SendChdir
<1>20. CASE Resumes
  BY <1>20 DEF Resumes
<1>21. CASE Restarts
  BY <1>21 DEF Restarts, StartShell, NewShell
<1>22. CASE UNCHANGED vars
  BY <1>22 DEF vars
<1> QED
  BY <1>1, <1>2, <1>3, <1>4, <1>5, <1>6, <1>7, <1>8, <1>9, <1>10, <1>11,
     <1>12, <1>13, <1>14, <1>15, <1>16, <1>17, <1>18, <1>19, <1>20, <1>21, <1>22
  DEF Step, Shell, Feeding

-----------------------------------------------------------------------------
(* What the shell reads while the user waits for the prompt.               *)

LEMMA LineIsTaken ==
  ASSUME NEW s \in Seq(Word), EndsLine(s)
  PROVE  IF Head(s) = Enter THEN Tail(s) = <<>>
         ELSE EndsLine(Tail(s))
<1>1. Len(s) \in Nat /\ Len(s) # 0 /\ Head(s) = s[1] /\ s # <<>>
  BY EmptySeq DEF EndsLine
<1>2. Tail(s) \in Seq(Word) /\ Len(Tail(s)) = Len(s) - 1
      /\ \A i \in 1 .. Len(Tail(s)) : Tail(s)[i] = s[i + 1]
  BY <1>1, HeadTailProperties
<1>3. CASE Head(s) = Enter
  <2>1. ~(1 \in 1 .. Len(s) - 1)
    BY <1>1, <1>3 DEF EndsLine
  <2>2. Len(Tail(s)) = 0
    BY <1>1, <1>2, <2>1
  <2> QED BY <1>2, <1>3, <2>2, EmptySeq
<1>4. CASE Head(s) # Enter
  <2>1. Len(s) # 1
    BY <1>1, <1>4 DEF EndsLine
  <2>2. Tail(s) # <<>> /\ Tail(s)[Len(Tail(s))] = Enter
    BY <2>1, <1>1, <1>2, EmptySeq, SMTT(60) DEF EndsLine
  <2>3. \A i \in 1 .. Len(Tail(s)) - 1 : Tail(s)[i] # Enter
    BY <1>1, <1>2 DEF EndsLine
  <2> QED BY <1>4, <2>2, <2>3 DEF EndsLine
<1> QED BY <1>3, <1>4

LEMMA WordIsTaken ==
  ASSUME NEW s \in Seq(Word), NoEnter(s), s # <<>>
  PROVE  Head(s) # Enter /\ NoEnter(Tail(s))
<1>1. Len(s) \in Nat /\ Len(s) # 0 /\ Head(s) = s[1]
  OBVIOUS
<1>2. Len(Tail(s)) = Len(s) - 1
      /\ \A i \in 1 .. Len(Tail(s)) : Tail(s)[i] = s[i + 1]
  BY HeadTailProperties
<1> QED BY <1>1, <1>2 DEF NoEnter

(* A command of mc put after words of the user ends the line.              *)
LEMMA CommandEndsLine ==
  ASSUME NEW s \in Seq(Word), NoEnter(s), NEW w \in {"setup", "run"} \cup Dirs
  PROVE  EndsLine(s \o <<w, Enter>>)
<1> DEFINE t == <<w, Enter>>
           u == s \o t
<1>1. t \in Seq(Word) /\ Len(t) = 2 /\ t[1] = w /\ t[2] = Enter
  BY SendsWords
<1>2. w # Enter
  BY SubshellAssumption DEF Enter
<1>3. /\ u \in Seq(Word) /\ Len(u) = Len(s) + 2 /\ Len(s) \in Nat
      /\ \A i \in 1 .. Len(s) + 2 :
           u[i] = IF i <= Len(s) THEN s[i] ELSE t[i - Len(s)]
  BY <1>1, ConcatProperties
<1> HIDE DEF u, t
<1>4. u[Len(u)] = Enter /\ \A i \in 1 .. Len(u) - 1 : u[i] # Enter
  BY <1>1, <1>2, <1>3 DEF NoEnter
<1>5. u # <<>>
  BY <1>3
<1> QED BY <1>4, <1>5 DEF EndsLine, u, t

LEMMA NothingIsTyped == NoEnter(<<>>) /\ EndsLine(<<"setup", Enter>>)
<1>1. <<"setup", Enter>> # <<>>
  OBVIOUS
<1> QED BY <1>1 DEF NoEnter, EndsLine, Enter

(* What a user who waits for the prompt types: at most one Enter, at the   *)
(* end; before the switch key none.                                        *)
LEMMA PatientChunk ==
  ASSUME NEW c \in Chunks, Patient(c)
  PROVE  /\ SwitchKeys(c) # {} =>
              \/ SubSeq(c, 1, Min(SwitchKeys(c)) - 1) = <<>>
              \/ /\ sh.at = "prompt" /\ tty = <<>>
                 /\ NoEnter(SubSeq(c, 1, Min(SwitchKeys(c)) - 1))
         /\ SwitchKeys(c) = {} =>
              /\ sh.at = "prompt" /\ tty = <<>>
              /\ IF Last(c) = Enter THEN EndsLine(c) ELSE NoEnter(c)
<1>1. c \in Seq(Keys) /\ c # <<>>
  BY SubshellAssumption
<1>2. Len(c) \in Nat /\ Len(c) # 0 /\ DOMAIN c = 1 .. Len(c)
  BY <1>1, EmptySeq, LenProperties
<1>3. CASE c = <<"switch">>
  <2>1. SwitchKeys(c) = {1}
    BY <1>3 DEF SwitchKeys
  <2>2. Min(SwitchKeys(c)) \in 1 .. Len(c) /\ Len(c) = 1
    BY <1>3, <2>1, KeysBeforeSwitch
  <2>3. Min(SwitchKeys(c)) - 1 < 1
    BY <2>2
  <2>4. SubSeq(c, 1, Min(SwitchKeys(c)) - 1) = <<>>
    BY <2>2, <2>3, SubSeqEmpty
  <2> QED BY <2>1, <2>4
<1>4. CASE c # <<"switch">>
  <2>1. sh.at = "prompt" /\ tty = <<>> /\ Enter \notin Range(Front(c))
    BY <1>4 DEF Patient
  <2>2. \A i \in 1 .. Len(c) - 1 : c[i] # Enter
    <3>1. \A i \in 1 .. Len(c) - 1 : c[i] \in Keys
      BY <1>1, <1>2
    <3>2. /\ Front(c) \in Seq(Keys) /\ Len(Front(c)) = Len(c) - 1
          /\ \A i \in 1 .. Len(c) - 1 : Front(c)[i] = c[i]
      BY <1>2, <3>1, SubSeqProperties DEF Front
    <3>3. DOMAIN Front(c) = 1 .. Len(c) - 1
      BY <3>2, LenProperties
    <3> QED BY <2>1, <3>2, <3>3 DEF Range
  <2>3. CASE SwitchKeys(c) # {}
    <3> DEFINE n == Min(SwitchKeys(c)) - 1
               p == SubSeq(c, 1, n)
    <3>1. n \in 0 .. Len(c) - 1
      BY <2>3, <1>2, KeysBeforeSwitch
    <3> HIDE DEF n
    <3>2. \A i \in 1 .. n : c[i] \in Keys
      BY <3>1, <1>1, <1>2
    <3>3. Len(p) = n /\ \A i \in 1 .. n : p[i] = c[i]
      BY <3>1, <3>2, <1>2, SubSeqProperties
    <3> HIDE DEF p
    <3>4. NoEnter(p)
      BY <3>1, <3>3, <2>2, <1>2 DEF NoEnter
    <3> QED BY <2>1, <2>3, <3>4 DEF n, p
  <2>4. CASE SwitchKeys(c) = {}
    <3>1. Last(c) = c[Len(c)]
      BY DEF Last
    <3>2. IF Last(c) = Enter THEN EndsLine(c) ELSE NoEnter(c)
      <4>1. CASE Last(c) = Enter
        BY <3>1, <4>1, <2>2, <1>1 DEF EndsLine
      <4>2. CASE Last(c) # Enter
        <5>1. \A i \in 1 .. Len(c) : c[i] # Enter
          BY <3>1, <4>2, <2>2, <1>2
        <5> QED BY <4>2, <5>1 DEF NoEnter
      <4> QED BY <4>1, <4>2
    <3> QED BY <2>1, <2>4, <3>2
  <2> QED BY <2>3, <2>4
<1> QED BY <1>3, <1>4

-----------------------------------------------------------------------------
(* Whose turn it is.                                                       *)

(* Calm is lost and never regained.                                        *)
LEMMA CalmBefore == ASSUME QueuesTyped, Calm', Step PROVE Calm
<1> USE DEF Calm, QueuesTyped, shell, globals
<1>1. CASE ShellStarts
  BY <1>1 DEF ShellStarts
<1>2. CASE ShellReads
  BY <1>2 DEF ShellReads
<1>3. CASE CommandReads
  BY <1>3 DEF CommandReads
<1>4. CASE ShellFinishes
  BY <1>4 DEF ShellFinishes
<1>5. CASE ShellStops
  BY <1>5 DEF ShellStops
<1>6. CASE ShellExits
  BY <1>6 DEF ShellExits, Dies
<1>7. CASE ShellKilled
  BY <1>7 DEF ShellKilled, Dies
<1>8. CASE SigchldHandler
  BY <1>8 DEF SigchldHandler
<1>9. CASE FeedLoop
  BY <1>9 DEF FeedLoop
<1>10. CASE FeedSelects
  BY <1>10 DEF FeedSelects
<1>11. CASE FeedOutput
  BY <1>11 DEF FeedOutput
<1>12. CASE FeedTimesOut
  BY <1>12 DEF FeedTimesOut
<1>13. CASE FeedReadsPipe
  BY <1>13 DEF FeedReadsPipe
<1>14. CASE Synchronize
  BY <1>14 DEF Synchronize
<1>15. ASSUME NEW c \in Chunks, FeedTypes(c) PROVE Calm
  BY <1>15 DEF FeedTypes
<1>16. CASE InitReturns
  BY <1>16 DEF InitReturns
<1>17. CASE QuitCmd
  BY <1>17 DEF QuitCmd
<1>18. ASSUME NEW next \in {"toggle", "command"}, Commands(next)
      PROVE  Calm
  BY <1>18 DEF Commands, SendCommand
<1>19. ASSUME NEW d \in Dirs, NEW next \in {"none", "toggle", "command"},
             Chdirs(d, next)
      PROVE  Calm
  BY <1>19 DEF Chdirs, SendChdir
<1>20. CASE Resumes
  BY <1>20 DEF Resumes
<1>21. CASE Restarts
  BY <1>21 DEF Restarts, StartShell
<1>22. CASE UNCHANGED vars
  BY <1>22 DEF vars
<1> QED
  BY <1>1, <1>2, <1>3, <1>4, <1>5, <1>6, <1>7, <1>8, <1>9, <1>10, <1>11,
     <1>12, <1>13, <1>14, <1>15, <1>16, <1>17, <1>18, <1>19, <1>20, <1>21, <1>22
  DEF Step, Shell, Feeding

LEMMA NextTurns == ASSUME ShTyped, QueuesTyped, McTyped, GlobalsTyped, CallsMatch,
                         ShellIsHeard, Turns, Calm, Calm', Step PROVE Turns'
<1> USE DEF Turns, Expects, UnderWay, Unread, Runs, Reports, AwaitsCommand,
            ShellIsHeard, StoppedIsAnnounced, StoppedIsStopped, CallsMatch, AtFeed,
            Fed, Feed, At, MainLoop, McTyped, shell, globals
<1>1. CASE ShellStarts
  BY <1>1 DEF ShellStarts
<1>2. CASE ShellReads
  <2>0. tty \in Seq(Word) /\ tty # <<>> /\ sh.at = "prompt" /\ Enter # "setup"
    BY <1>2 DEF ShellReads, QueuesTyped, Enter
  <2>1. CASE Expects
    <3>1. CASE ~use_subshell
      BY <1>2, <3>1 DEF ShellReads
    <3>2. CASE use_subshell
      <4>1. Unread
        BY <2>0, <2>1, <3>2
      <4>2. CASE Head(tty) = Enter
        <5>1. Tail(tty) = <<>> /\ (sh.hook \/ sh.line = <<"setup">>)
          BY <4>1, <4>2, <2>0, LineIsTaken
        <5> QED BY <1>2, <2>0, <2>1, <4>1, <4>2, <5>1 DEF ShellReads
      <4>3. CASE Head(tty) # Enter
        <5>1. EndsLine(Tail(tty))
          BY <4>1, <4>3, <2>0, LineIsTaken
        <5>2. sh.hook \/ (AddWord(sh.line, Head(tty)) = <<"setup">>
                          /\ Tail(tty) = <<Enter>>)
          <6>1. CASE sh.line = <<>> /\ tty = <<"setup", Enter>>
            BY <6>1 DEF AddWord
          <6>2. CASE sh.line = <<"setup">> /\ tty = <<Enter>>
            BY <6>2, <4>3
          <6> QED BY <4>1, <6>1, <6>2
        <5> QED BY <1>2, <2>0, <2>1, <4>1, <4>3, <5>1, <5>2 DEF ShellReads
      <4> QED BY <4>2, <4>3
    <3> QED BY <3>1, <3>2
  <2>2. CASE ~Expects
    <3>1. (Head(tty) # Enter /\ NoEnter(Tail(tty))) \/ ~use_subshell
      BY <2>0, <2>2, WordIsTaken
    <3> QED BY <1>2, <2>0, <2>2, <3>1 DEF ShellReads
  <2> QED BY <2>1, <2>2
<1>3. CASE CommandReads
  BY <1>3 DEF CommandReads
<1>4. CASE ShellFinishes
  <2>1. PICK d \in DirsAfter :
          /\ sh' = [sh EXCEPT !.at = IF sh.hook \/ sh.job = <<"setup">>
                                     THEN "told" ELSE "prompt",
                              !.job = <<>>, !.dir = d,
                              !.hook = sh.hook \/ sh.job = <<"setup">>]
          /\ pipe' = IF sh.hook \/ sh.job = <<"setup">>
                     THEN Append(pipe, d) ELSE pipe
    BY <1>4 DEF ShellFinishes
  <2>2. CASE ~use_subshell
    BY <1>4, <2>1, <2>2 DEF ShellFinishes
  <2>3. CASE use_subshell
    <3>1. Expects /\ Runs
      BY <1>4, <2>3 DEF ShellFinishes
    <3>2. sh'.at = "told" /\ sh'.dir = d /\ sh'.hook /\ pipe' = <<d>>
      <4>1. sh.hook \/ sh.job = <<"setup">>
        BY <3>1
      <4>2. pipe' = Append(<<>>, d)
        BY <2>1, <3>1, <4>1
      <4>3. pipe' = <<d>>
        BY <4>2
      <4>4. sh'.at = "told" /\ sh'.dir = d
        BY <2>1, <4>1 DEF ShTyped
      <4>5. sh'.hook
        BY <2>1, <4>1 DEF ShTyped
      <4> QED BY <4>3, <4>4, <4>5
    <3> QED BY <1>4, <3>1, <3>2 DEF ShellFinishes
  <2> QED BY <2>2, <2>3
<1>5. CASE ShellStops
  BY <1>5 DEF ShellStops
<1>6. CASE ShellExits
  BY <1>6 DEF ShellExits, Dies
<1>7. CASE ShellKilled
  <2>1. past'.kills = past.kills + 1 /\ past.kills \in Nat
    BY <1>7, Bounds DEF ShellKilled, QueuesTyped
  <2> QED BY <2>1 DEF Calm
<1>8. CASE SigchldHandler
  <2>1. subshell_alive' \/ quit'
    BY <1>8 DEF SigchldHandler, QueuesTyped
  <2>2. news' = "none" /\ mc'.at = (IF mc.at = "select" THEN "loop" ELSE mc.at)
        /\ mc'.call = mc.call
    BY <1>8 DEF SigchldHandler
  <2>3. UNCHANGED <<sh, tty, pipe, subshell_state, subshell_ready,
                    subshell_cwd, use_subshell>>
    BY <1>8 DEF SigchldHandler
  <2>4. CASE ~use_subshell
    BY <2>1, <2>2, <2>3, <2>4
  <2>5. CASE use_subshell /\ sh.at = "dead"
    BY <2>1, <2>2, <2>3, <2>5
  <2>6. CASE use_subshell /\ sh.at # "dead" /\ Expects
    <3>1. UnderWay
      BY <2>6
    <3>2. UnderWay'
      BY <2>2, <2>3, <3>1
    <3>3. Expects'
      BY <2>2, <2>3, <2>6
    <3> QED BY <2>1, <2>2, <2>3, <2>6, <3>2, <3>3
  <2>7. CASE use_subshell /\ sh.at # "dead" /\ ~Expects
    <3>1. AwaitsCommand
      BY <2>7
    <3>2. AwaitsCommand'
      BY <2>2, <2>3, <3>1
    <3>3. ~Expects'
      BY <2>2, <2>3, <2>7
    <3> QED BY <2>1, <2>2, <2>3, <2>7, <3>2, <3>3
  <2> QED BY <2>4, <2>5, <2>6, <2>7
<1>9. CASE FeedLoop
  BY <1>9 DEF FeedLoop
<1>10. CASE FeedSelects
  BY <1>10 DEF FeedSelects
<1>11. CASE FeedOutput
  BY <1>11 DEF FeedOutput
<1>12. CASE FeedTimesOut
  BY <1>12 DEF FeedTimesOut
<1>13. CASE FeedReadsPipe
  BY <1>13 DEF FeedReadsPipe
<1>14. CASE Synchronize
  <2>1. mc.at = "synchronize" /\ use_subshell /\ sh.at # "dead"
    BY <1>14 DEF Synchronize
  <2>2. Expects /\ Reports /\ pipe = <<>> /\ tty = <<>>
    BY <2>1
  <2>3. subshell_stopped /\ subshell_alive /\ sh.at = "stopped" /\ news = "none"
    BY <1>14, <2>1, <2>2 DEF Synchronize, QueuesTyped
  <2>4. sh' = [sh EXCEPT !.at = "prompt"] /\ tty' = <<>> /\ pipe' = <<>>
        /\ news' = "none" /\ subshell_cwd' = sh.dir /\ subshell_alive'
    BY <1>14, <2>2, <2>3 DEF Synchronize
  <2>5. sh'.at = "prompt" /\ sh'.hook /\ sh'.dir = sh.dir
    BY <2>2, <2>4 DEF ShTyped
  <2>6. subshell_ready' /\ subshell_state' # "RUNNING_COMMAND"
        /\ mc'.at # "synchronize"
    BY <1>14 DEF Synchronize
  <2> QED BY <2>4, <2>5, <2>6, NothingIsTyped
<1>15. ASSUME NEW c \in Chunks, FeedTypes(c) PROVE Turns'
  <2>1. Patient(c)
    <3>1. past' = [past EXCEPT !.hasty = past.hasty \/ ~Patient(c)]
      BY <1>15 DEF FeedTypes
    <3>2. past'.hasty = (past.hasty \/ ~Patient(c))
      BY <3>1 DEF QueuesTyped
    <3>3. ~past'.hasty
      BY DEF Calm
    <3> QED BY <3>2, <3>3
  <2>2. /\ mc.how = "VISIBLY" /\ pipe = <<>> /\ mc.at = "select"
        /\ mc.call \in {"toggle", "command"} /\ mc'.at \in {"done", "loop"}
        /\ mc'.call = mc.call /\ use_subshell /\ tty \in Seq(Word)
    <3>1. mc' = [mc EXCEPT !.at = "done"] \/ mc' = [mc EXCEPT !.at = "loop"]
      BY <1>15 DEF FeedTypes
    <3>2. mc.how = "VISIBLY" /\ pipe = <<>> /\ mc.at = "select"
      BY <1>15 DEF FeedTypes
    <3>3. use_subshell /\ mc.call \in {"toggle", "command"}
      BY <3>2
    <3> QED BY <3>1, <3>2, <3>3 DEF QueuesTyped
  <2>3. UNCHANGED <<sh, pipe, news, subshell_stopped, subshell_alive,
                    subshell_cwd, use_subshell, quit>>
    BY <1>15 DEF FeedTypes
  <2>4. CASE SwitchKeys(c) # {}
    <3> DEFINE p == SubSeq(c, 1, Min(SwitchKeys(c)) - 1)
    <3>1. tty' = tty \o p /\ subshell_ready' = subshell_ready
      BY <1>15, <2>4 DEF FeedTypes
    <3>2. p \in Seq(Word)
      BY <2>4, KeysBeforeSwitch
    <3>3. p = <<>> \/ (sh.at = "prompt" /\ tty = <<>> /\ NoEnter(p))
      BY <2>1, <2>4, PatientChunk
    <3> HIDE DEF p
    <3>4. Expects' <=> Expects
      BY <2>2, <3>1
    <3>5. CASE p = <<>>
      <4>1. tty' = tty
        BY <2>2, <3>1, <3>5, ConcatEmptySeq
      <4> QED BY <4>1, <3>4, <2>2, <2>3
    <3>6. CASE sh.at = "prompt" /\ tty = <<>> /\ NoEnter(p)
      <4>1. tty' = p
        BY <3>1, <3>2, <3>6, ConcatEmptySeq
      <4>2. ~Expects
        BY <2>2, <3>6 DEF EndsLine
      <4> QED BY <4>1, <4>2, <3>4, <3>6, <2>2, <2>3
    <3> QED BY <3>3, <3>5, <3>6
  <2>5. CASE SwitchKeys(c) = {}
    <3>1. tty' = tty \o c
          /\ subshell_ready' = (subshell_ready /\ Last(c) # Enter)
      BY <1>15, <2>5 DEF FeedTypes
    <3>2. c \in Seq(Word)
      BY <2>5, KeysAreWords
    <3>3. sh.at = "prompt" /\ tty = <<>>
          /\ IF Last(c) = Enter THEN EndsLine(c) ELSE NoEnter(c)
      BY <2>1, <2>5, PatientChunk
    <3>4. tty' = c
      BY <3>1, <3>2, <3>3, ConcatEmptySeq
    <3>5. ~Expects /\ AwaitsCommand
      BY <2>2, <3>3 DEF EndsLine
    <3>6. Expects' <=> Last(c) = Enter
      BY <2>2, <3>1, <3>5
    <3>7. CASE Last(c) = Enter
      BY <2>2, <2>3, <3>3, <3>4, <3>5, <3>6, <3>7
    <3>8. CASE Last(c) # Enter
      BY <2>2, <2>3, <3>3, <3>4, <3>5, <3>6, <3>8
    <3> QED BY <3>7, <3>8
  <2> QED BY <2>4, <2>5
<1>16. CASE InitReturns
  BY <1>16 DEF InitReturns
<1>17. CASE QuitCmd
  <2>1. mc.at = "main" /\ mc.call = "none" /\ mc'.at = "quit"
        /\ mc'.call = "none"
    BY <1>17 DEF QuitCmd, Idle
  <2>2. UNCHANGED <<sh, tty, pipe, news, subshell_state, subshell_ready,
                    subshell_cwd, use_subshell, subshell_alive>> /\ quit'
    BY <1>17 DEF QuitCmd
  <2>3. Expects' <=> Expects
    BY <2>1, <2>2
  <2> QED BY <2>1, <2>2, <2>3
<1>18. ASSUME NEW next \in {"toggle", "command"}, Commands(next)
      PROVE  Turns'
  <2>1. mc' = Feed("VISIBLY", next, "none") /\ SendCommand(next)
    BY <1>18 DEF Commands, SendCommand
  <2>2. mc'.at = "loop" /\ mc'.call = next
    BY <2>1
  <2>3. UNCHANGED <<sh, pipe, news, use_subshell, subshell_alive, quit,
                    subshell_cwd>> /\ tty \in Seq(Word)
    BY <2>1 DEF SendCommand, QueuesTyped
  <2>4. mc.at # "synchronize" /\ use_subshell
    BY <1>18 DEF Commands
  <2>5. CASE sh.at = "dead"
    BY <2>2, <2>3, <2>4, <2>5
  <2>6. CASE sh.at # "dead" /\ next = "toggle"
    <3>1. tty' = tty /\ subshell_ready' = subshell_ready
      BY <2>1, <2>6 DEF SendCommand
    <3>2. ~(subshell_state = "RUNNING_COMMAND" /\ mc.call \in {"init", "cd"})
      BY <1>18, <2>6 DEF Commands
    <3>3. Expects' <=> Expects
      BY <2>2, <2>6, <3>1, <3>2
    <3> QED BY <2>2, <2>3, <2>4, <2>6, <3>1, <3>3
  <2>7. CASE sh.at # "dead" /\ next = "command"
    <3>1. tty' = tty \o <<"run", Enter>> /\ ~subshell_ready'
      BY <2>1, <2>7 DEF SendCommand
    <3>2. subshell_state = "INACTIVE"
      BY <1>18, <2>7 DEF Commands
    <3>3. ~Expects /\ AwaitsCommand
      BY <2>4, <2>7, <3>2
    <3>4. EndsLine(tty')
      BY <2>3, <3>1, <3>3, CommandEndsLine
    <3> QED BY <2>2, <2>3, <2>4, <2>7, <3>1, <3>3, <3>4
  <2> QED BY <2>5, <2>6, <2>7
<1>19. ASSUME NEW d \in Dirs, NEW next \in {"none", "toggle", "command"},
             Chdirs(d, next)
      PROVE  Turns'
  <2>1. SendChdir(d, next) /\ mc' = Feed("QUIETLY", "cd", next)
        /\ tty' = tty \o <<d, Enter>> /\ tty \in Seq(Word)
    BY <1>19 DEF Chdirs, SendChdir, QueuesTyped
  <2>2. mc'.at = "loop" /\ mc'.call = "cd" /\ subshell_state = "INACTIVE"
        /\ mc.at = "main" /\ use_subshell
        /\ subshell_state' = "RUNNING_COMMAND"
    BY <1>19, <2>1 DEF Chdirs, NeedsChdir, SendChdir
  <2>3. UNCHANGED <<sh, pipe, news, use_subshell, subshell_alive, quit,
                    subshell_cwd>>
    BY <2>1 DEF SendChdir
  <2>4. CASE sh.at = "dead"
    BY <2>2, <2>3, <2>4
  <2>5. CASE sh.at # "dead"
    <3>1. ~Expects /\ AwaitsCommand
      BY <2>2, <2>5
    <3>2. EndsLine(tty')
      BY <2>1, <3>1, CommandEndsLine
    <3> QED BY <2>2, <2>3, <2>5, <3>1, <3>2
  <2> QED BY <2>4, <2>5
<1>20. CASE Resumes
  BY <1>20 DEF Resumes
<1>21. CASE Restarts
  BY <1>21 DEF Restarts, StartShell, NewShell
<1>22. CASE UNCHANGED vars
  BY <1>22 DEF vars
<1> QED
  BY <1>1, <1>2, <1>3, <1>4, <1>5, <1>6, <1>7, <1>8, <1>9, <1>10, <1>11,
     <1>12, <1>13, <1>14, <1>15, <1>16, <1>17, <1>18, <1>19, <1>20, <1>21, <1>22
  DEF Step, Shell, Feeding

-----------------------------------------------------------------------------
(* The theorems.                                                           *)

LEMMA InitInv == Init => IInv
<1> SUFFICES ASSUME Init PROVE IInv
  OBVIOUS
<1>1. TypeOK
  BY InitType
<1>2. CallsMatch
  BY DEF Init, CallsMatch, AtFeed, Feed
<1>3. ShellIsHeard
  BY DEF Init, ShellIsHeard, StoppedIsAnnounced, StoppedIsStopped, NewShell
<1>4. Turns
  BY NothingIsTyped
     DEF Init, Turns, Expects, UnderWay, Unread, NewShell, Feed
<1> QED BY <1>1, <1>2, <1>3, <1>4 DEF IInv

LEMMA NextInv == ASSUME IInv, [Next]_vars PROVE IInv'
<1>1. /\ ShTyped /\ QueuesTyped /\ McTyped /\ GlobalsTyped
      /\ TypeOK /\ CallsMatch /\ ShellIsHeard /\ Turns
  BY TypeParts DEF IInv
<1>2. Step
  BY <1>1, Steps
<1>3. TypeOK'
  BY <1>1, <1>2, NextType
<1>4. CallsMatch'
  BY <1>1, <1>2, NextCalls
<1>5. ShellIsHeard'
  BY <1>1, <1>2, NextHeard
<1>6. Turns'
  <2>1. CASE Calm'
    <3>1. Calm
      BY <1>1, <1>2, <2>1, CalmBefore
    <3> QED BY <1>1, <1>2, <2>1, <3>1, NextTurns
  <2>2. CASE ~Calm'
    BY <2>2 DEF Turns
  <2> QED BY <2>1, <2>2
<1> QED BY <1>3, <1>4, <1>5, <1>6 DEF IInv

LEMMA Invariance == Spec => []IInv
<1>1. Init => IInv
  BY InitInv
<1>2. IInv /\ [Next]_vars => IInv'
  BY NextInv
<1> QED BY <1>1, <1>2, PTL DEF Spec

LEMMA InvImpliesBelief == IInv => ShellIsAsBelieved
<1> SUFFICES ASSUME IInv PROVE ShellIsAsBelieved
  OBVIOUS
<1>1. TypeOK /\ StoppedIsAnnounced /\ StoppedIsStopped
  BY DEF IInv, ShellIsHeard
<1>2. ASSUME Calm, Idle, subshell_state = "INACTIVE", sh.at # "dead"
      PROVE  AwaitsCommand
  BY <1>2 DEF IInv, Turns, CallsMatch, Expects, Idle
<1>3. InactiveIsIdle
  <2>1. tty \in Seq(Word)
    BY <1>1 DEF TypeOK
  <2>2. ASSUME NoEnter(tty) PROVE Enter \notin Range(tty)
    BY <2>1, <2>2 DEF NoEnter, Range
  <2> QED BY <1>2, <2>2 DEF InactiveIsIdle, AwaitsCommand
<1>4. CwdIsKnown
  BY <1>2 DEF CwdIsKnown, AwaitsCommand
<1> QED BY <1>1, <1>3, <1>4 DEF ShellIsAsBelieved

(* What mc believes of its shell is so in every reachable state, whatever  *)
(* the shell, the user and the signals do: a shell that stops is found     *)
(* stopped, and while the user waits for the prompt a shell taken to be    *)
(* idle is idle and in the directory mc compares with.                     *)
THEOREM BeliefsAreTrue == Spec => []ShellIsAsBelieved
<1>1. Spec => []IInv
  BY Invariance
<1>2. IInv => ShellIsAsBelieved
  BY InvImpliesBelief
<1> QED BY <1>1, <1>2, PTL

(* The flush of synchronize discards nothing mc wrote to the shell: with a *)
(* user who waits for the prompt it finds the terminal's input empty.      *)
THEOREM CommandsReachTheShell == Spec => FlushSparesCommands
<1> DEFINE Spares == Calm /\ mc.at = "synchronize" /\ tty' # tty
                     => Range(tty) \cap ({"run"} \cup Dirs) = {}
<1>1. IInv /\ [Next]_vars => [Spares]_vars
  <2> SUFFICES ASSUME IInv, [Next]_vars, Calm, mc.at = "synchronize",
                      tty' # tty
               PROVE  Range(tty) \cap ({"run"} \cup Dirs) = {}
    OBVIOUS
  <2>1. use_subshell /\ sh.at # "dead"
    BY DEF IInv, CallsMatch, Turns
  <2>2. Expects /\ Reports
    BY <2>1 DEF IInv, Turns, UnderWay, Unread, Runs, AwaitsCommand
  <2>3. tty = <<>>
    BY <2>2 DEF Reports
  <2> QED BY <2>3 DEF Range
<1>2. Spec => []IInv
  BY Invariance
<1> QED BY <1>1, <1>2, PTL DEF Spec, FlushSparesCommands

=============================================================================
