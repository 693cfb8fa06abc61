----------------------------- MODULE DirCache ------------------------------
(***************************************************************************)
(* The directory cache of a remote file system (direntry.c, as fish uses   *)
(* it): inodes and entries in memory, inodes with a count of their users,  *)
(* entries without one.  Listings expire, and a change on the server drops *)
(* the whole cache, while files and directory streams are open.            *)
(*                                                                         *)
(* A remote file system lists its directories flat: the entries of the     *)
(* root are whole paths of directories, and only they have entries.  Left  *)
(* out: links, linear reading and the transfers themselves (FtpConn), and  *)
(* the freeing of a file system under an open stream (VfsGC).              *)
(***************************************************************************)
EXTENDS Naturals, FiniteSets, Functions, SequencesExt, Ranks

CONSTANTS Dirs,     \* directories of the server
          Files,    \* names of files
          Streams,  \* slots for opened directories
          Handles,  \* slots for opened files
          Root, NoPtr

ASSUME DirCacheAssumption ==
  /\ Root \notin Dirs \cup Files /\ Dirs \cap Files = {}
  /\ NoPtr \notin Nat \X (Dirs \cup Files \cup {Root})
  /\ IsFiniteSet(Dirs) /\ IsFiniteSet(Files)
  /\ IsFiniteSet(Streams) /\ IsFiniteSet(Handles)

VARIABLES
  inodes,   \* inodes in memory: name, users, entry, entries below, local copy;
            \* and of a directory, whether its listing is in doubt
  entries,  \* entries in memory (an entry has the number of its inode): directory
  root,     \* super->root
  stale,    \* super->want_stale
  remote,   \* the files on the server
  streams,  \* opened directories: inode, next entry
  handles   \* opened files: inode, changed, how opened

cache_vars == <<inodes, entries, root, stale, remote, streams, handles>>

-----------------------------------------------------------------------------
(* The heap, as operators from a heap to a heap.                           *)

heap == [ino |-> inodes, ent |-> entries]
Becomes(h) == inodes' = h.ino /\ entries' = h.ent

Removed(f, S) == Restrict(f, DOMAIN f \ S)
Below(h, i) == Range(h.ino[i].subdir)

(* A pointer is a number that nothing refers to, the lowest, and a name.   *)
Referred(h) ==
  (DOMAIN h.ino \cup DOMAIN h.ent
   \cup {streams[s].dir : s \in Streams} \cup {streams[s].cur : s \in Streams}
   \cup {handles[x].ino : x \in Handles}) \ {NoPtr}
Numbers(h) == {p[1] : p \in Referred(h)}
Fresh(h) == CHOOSE n \in 1 .. Cardinality(Numbers(h)) + 1 :
              n \notin Numbers(h) /\ \A m \in 1 .. n - 1 : m \in Numbers(h)

(* vfs_s_new_inode with its entry.  The code keeps no doubt: it is history *)
(* (a change of the directory was done, and mc not told).                  *)
NewInode(name, users, local) ==
  [name |-> name, nlink |-> users, ent |-> TRUE, subdir |-> <<>>, local |-> local,
   doubt |-> FALSE]

(* vfs_s_insert_entry for each of some names, at the end of the list of    *)
(* the directory.                                                          *)
Insert(h, dir, n, names, local) ==
  LET new == [k \in DOMAIN names |-> <<n, names[k]>>]
  IN [ino |-> [i \in DOMAIN h.ino \cup Range(new) |->
                 IF i \in Range(new) THEN NewInode(i[2], 1, local)
                 ELSE IF i = dir THEN [h.ino[i] EXCEPT !.subdir = @ \o new]
                 ELSE h.ino[i]],
      ent |-> [i \in DOMAIN h.ent \cup Range(new) |->
                 IF i \in Range(new) THEN dir ELSE h.ent[i]]]

(* Entries S are freed: they leave their lists, and their inodes forget    *)
(* them.                                                                   *)
(* Mistake: the list of the directory still leads to them.                 *)
UnlinkedListed(h, S) ==
  [ino |-> [i \in DOMAIN h.ino |-> [h.ino[i] EXCEPT !.ent = @ /\ i \notin S]],
   ent |-> Removed(h.ent, S)]
Less(list, S) ==
  LET kept == {k \in DOMAIN list : list[k] \notin S}
  IN [i \in 1 .. Cardinality(kept) |-> list[CHOOSE k \in kept : Rank(kept, k) = i]]
Unlinked(h, S) ==
  [ino |-> [i \in DOMAIN h.ino |->
              [h.ino[i] EXCEPT !.subdir = Less(@, S), !.ent = @ /\ i \notin S]],
   ent |-> Removed(h.ent, S)]

(* Each of the inodes S loses a user; without another it is freed.         *)
(* Mistakes: an inode with one more user is freed too; one with one is     *)
(* kept.                                                                   *)
UnusedBut(h, S) == {i \in S : h.ino[i].nlink <= 2}
UnusedNever(h, S) == {i \in S : h.ino[i].nlink = 0}
Unused(h, S) == {i \in S : h.ino[i].nlink <= 1}
Released(h, S) ==
  LET kept == Removed(h.ino, Unused(h, S))
  IN [h EXCEPT !.ino = [i \in DOMAIN kept |->
                          IF i \in S THEN [kept[i] EXCEPT !.nlink = @ - 1] ELSE kept[i]]]

(* vfs_s_free_inode for directories or files S: the entries below a freed  *)
(* directory are freed first.                                              *)
FreeInodes(h, S) ==
  LET below == UNION {Below(h, i) : i \in Unused(h, S)}
  IN Released(Released(Unlinked(h, below), below), S)

FreeEntries(h, S) == FreeInodes(Unlinked(h, S), S)

(* vfs_s_free_inode of the root, which nothing else refers to.             *)
(* Mistake: what is below stays.                                           *)
FreeRootOnly(h) == [h EXCEPT !.ino = Removed(@, {root})]
FreeRoot(h) ==
  LET g == FreeEntries(h, Below(h, root)) IN [g EXCEPT !.ino = Removed(@, {root})]

(* vfs_s_invalidate: a new, empty root.                                    *)
NewRoot(h) == <<Fresh(FreeRoot(h)), Root>>
Invalidated(h) ==
  [FreeRoot(h) EXCEPT !.ino = [i \in DOMAIN @ \cup {NewRoot(h)} |->
     IF i = NewRoot(h) THEN NewInode(Root, 0, FALSE) ELSE @[i]]]

(* A change on the server drops the cache, unless it is held back.         *)
(* Mistake: it never is.                                                   *)
InvalidateNever(h, S) == Becomes(FreeInodes(h, S)) /\ UNCHANGED root
InvalidateAnd(h, S) ==     \* and then inodes S lose a user
  IF stale THEN Becomes(FreeInodes(h, S)) /\ UNCHANGED root
  ELSE Becomes(FreeInodes(Invalidated(h), S)) /\ root' = NewRoot(h)

(* Mistake: a new user is not counted.                                     *)
AddUserNot(h, i) == h
AddUser(h, i) == [h EXCEPT !.ino[i].nlink = @ + 1]
WithCopy(h, i) == [h EXCEPT !.ino[i].local = TRUE]

CacheInit ==
  /\ root = <<1, Root>> /\ entries = <<>>
  /\ inodes = [i \in {root} |-> NewInode(Root, 0, FALSE)]
  /\ stale = FALSE
  /\ remote \in [Dirs -> SUBSET Files]
  /\ streams = [s \in Streams |-> [dir |-> NoPtr, cur |-> NoPtr]]
  /\ handles = [x \in Handles |-> [ino |-> NoPtr, changed |-> FALSE]]

-----------------------------------------------------------------------------
(* vfs_s_find_entry_linear of a directory: a listing may have expired, and *)
(* is then freed before it is read again, which may fail.                  *)

Load(h, d) ==
  LET n == Fresh(h)
  IN [heap |-> Insert(Insert(h, root, n, <<d>>, FALSE), <<n, d>>, n,
                      SetToSeq(remote[d]), FALSE),
      dir |-> <<n, d>>]

Lookups(d) ==
  LET here == {i \in Below(heap, root) : inodes[i].name = d}
      gone == FreeEntries(heap, here)
  IN {[heap |-> heap, dir |-> i] : i \in here}
     \cup {Load(gone, d), [heap |-> gone, dir |-> NoPtr]}

(* vfs_s_opendir, vfs_s_readdir, vfs_s_closedir                            *)
OpenDir(s, d) ==
  /\ streams[s].dir = NoPtr
  /\ \E l \in Lookups(d) :
       IF l.dir = NoPtr THEN Becomes(l.heap) /\ UNCHANGED streams
       ELSE LET sub == l.heap.ino[l.dir].subdir
            IN /\ Becomes(AddUser(l.heap, l.dir))
               /\ streams' = [streams EXCEPT ![s] =
                    [dir |-> l.dir, cur |-> IF sub = <<>> THEN NoPtr ELSE Head(sub)]]
  /\ UNCHANGED <<root, stale, remote, handles>>

ReadDir(s) ==
  /\ streams[s].cur # NoPtr
  /\ LET sub == inodes[entries[streams[s].cur]].subdir
         next == {k \in 2..Len(sub) : sub[k - 1] = streams[s].cur}
     IN streams' = [streams EXCEPT ![s].cur =
                      IF next = {} THEN NoPtr ELSE sub[CHOOSE k \in next : TRUE]]
  /\ UNCHANGED <<inodes, entries, root, stale, remote, handles>>

CloseDir(s) ==
  /\ streams[s].dir # NoPtr
  /\ Becomes(FreeInodes(heap, {streams[s].dir}))
  /\ streams' = [streams EXCEPT ![s] = [dir |-> NoPtr, cur |-> NoPtr]]
  /\ UNCHANGED <<root, stale, remote, handles>>

(* vfs_s_open: a file to read is fetched unless there is a local copy; one *)
(* to write gets a local copy; one that is not listed is entered.  The     *)
(* open may then fail; a new entry stays.                                  *)
Handle(i, new) == [ino |-> i, changed |-> new]
Open(x, d, n, write) ==
  /\ handles[x].ino = NoPtr
  /\ \E l \in Lookups(d), ok \in BOOLEAN :
       IF l.dir = NoPtr THEN Becomes(l.heap) /\ UNCHANGED handles
       ELSE LET found == {i \in Below(l.heap, l.dir) : l.heap.ino[i].name = n}
                new == Fresh(l.heap)
                i == IF found = {} THEN <<new, n>> ELSE CHOOSE j \in found : TRUE
                h == IF found = {} THEN Insert(l.heap, l.dir, new, <<n>>, TRUE)
                     ELSE l.heap
            IN IF found = {} /\ ~write THEN Becomes(l.heap) /\ UNCHANGED handles
               ELSE IF ~ok THEN Becomes(h) /\ UNCHANGED handles
               ELSE /\ Becomes(AddUser(WithCopy(h, i), i))
                    /\ handles' = [handles EXCEPT ![x] = Handle(i, found = {})]
  /\ UNCHANGED <<root, stale, remote, streams>>

Write(x) ==
  /\ handles[x].ino # NoPtr /\ ~handles[x].changed
  /\ handles' = [handles EXCEPT ![x].changed = TRUE]
  /\ UNCHANGED <<inodes, entries, root, stale, remote, streams>>

(* vfs_s_fullpath: a file whose listing was freed has no path; one whose   *)
(* directory is kept by a stream only has lost the directory.              *)
PathOf(i) ==
  IF ~inodes[i].ent THEN <<>>
  ELSE IF ~inodes[entries[i]].ent THEN <<Root, inodes[i].name>>
  ELSE <<inodes[entries[i]].name, inodes[i].name>>

Stored(path) ==
  IF path # <<>> /\ path[1] \in Dirs
  THEN remote' = [remote EXCEPT ![path[1]] = @ \cup {path[2]}]
  ELSE UNCHANGED remote

(* vfs_s_close: a changed file is stored, if it still has a path; the      *)
(* cache is dropped either way.                                            *)
Close(x) ==
  LET i == handles[x].ino
  IN /\ i # NoPtr
     /\ IF handles[x].changed
        THEN InvalidateAnd(heap, {i}) /\ (Stored(PathOf(i)) \/ UNCHANGED remote)
        ELSE Becomes(FreeInodes(heap, {i})) /\ UNCHANGED <<root, remote>>
     /\ handles' = [handles EXCEPT ![x] = Handle(NoPtr, FALSE)]
     /\ UNCHANGED <<stale, streams>>

(* unlink, and the other commands that change a directory.  Unless the     *)
(* reply is that the command is done, the cache stays: also when it is     *)
(* done and the reply lost with the connection.  (A command that is not    *)
(* done changes nothing.)                                                  *)
InDoubt(h, d) ==
  LET listed == {i \in Below(h, root) : h.ino[i].name = d}
  IN [h EXCEPT !.ino = [i \in DOMAIN h.ino |->
                          [h.ino[i] EXCEPT !.doubt = @ \/ i \in listed]]]
Unlink(d, n) ==
  /\ n \in remote[d] /\ remote' = [remote EXCEPT ![d] = @ \ {n}]
  /\ \/ InvalidateAnd(heap, {})
     \/ Becomes(InDoubt(heap, d)) /\ UNCHANGED root
  /\ UNCHANGED <<stale, streams, handles>>

(* vfs_s_setctl: panel_operate holds the cache while it runs and drops it  *)
(* in the end, each time looking up a directory, without which neither     *)
(* happens.                                                                *)
HoldCache(d) ==
  /\ ~stale
  /\ \E l \in Lookups(d) : Becomes(l.heap) /\ stale' = (l.dir # NoPtr)
  /\ UNCHANGED <<root, remote, streams, handles>>

DropCache(d) ==
  /\ stale
  /\ \E l \in Lookups(d) :
       IF l.dir = NoPtr THEN Becomes(l.heap) /\ UNCHANGED <<root, stale>>
       ELSE /\ stale' = FALSE
            /\ Becomes(Invalidated(l.heap)) /\ root' = NewRoot(l.heap)
  /\ UNCHANGED <<remote, streams, handles>>

(* vfs_s_free_super, when nothing is open.                                 *)
FreeSuper ==
  /\ root # NoPtr
  /\ \A s \in Streams : streams[s].dir = NoPtr
  /\ \A x \in Handles : handles[x].ino = NoPtr
  /\ Becomes(FreeRoot(heap)) /\ root' = NoPtr /\ stale' = FALSE
  /\ UNCHANGED <<remote, streams, handles>>

CacheNext ==
  \/ FreeSuper
  \/ /\ root # NoPtr
     /\ \/ \E s \in Streams : ReadDir(s) \/ CloseDir(s) \/ \E d \in Dirs : OpenDir(s, d)
        \/ \E x \in Handles : Write(x) \/ Close(x)
        \/ \E x \in Handles, d \in Dirs, n \in Files, w \in BOOLEAN : Open(x, d, n, w)
        \/ \E d \in Dirs : HoldCache(d) \/ DropCache(d)
        \/ \E d \in Dirs, n \in Files : Unlink(d, n)

CacheSpec == CacheInit /\ [][CacheNext]_cache_vars

-----------------------------------------------------------------------------
(* Properties *)

(* The heap is well formed: one inode per entry, no pointer is no number.  *)
HeapOK ==
  /\ \A i \in DOMAIN inodes :
       inodes[i] \in [name : Dirs \cup Files \cup {Root}, nlink : Nat, ent : BOOLEAN,
                     subdir : Seq(DOMAIN entries), local : BOOLEAN, doubt : BOOLEAN]
  /\ stale \in BOOLEAN /\ remote \in [Dirs -> SUBSET Files]
  /\ root = NoPtr \/ root \in DOMAIN inodes
  /\ \A x \in Handles : handles[x].changed \in BOOLEAN

(* Nothing that is in use was freed: the inode of an open file, the        *)
(* directory of a stream and its next entry, the inode and the directory   *)
(* of an entry.                                                            *)
NoDangling ==
  /\ \A e \in DOMAIN entries : e \in DOMAIN inodes /\ entries[e] \in DOMAIN inodes
  /\ \A s \in Streams : streams[s].dir \in DOMAIN inodes \cup {NoPtr}
  /\ \A s \in Streams : streams[s].cur \in DOMAIN entries \cup {NoPtr}
  /\ \A x \in Handles : handles[x].ino \in DOMAIN inodes \cup {NoPtr}

(* st_nlink counts the users of an inode, and an inode has at least one:   *)
(* what is freed too late would never be freed.                            *)
Users(i) ==
  (IF inodes[i].ent THEN 1 ELSE 0)
  + Cardinality({s \in Streams : streams[s].dir = i})
  + Cardinality({x \in Handles : handles[x].ino = i})
CountsMatch ==
  \A i \in DOMAIN inodes \ {root} : inodes[i].nlink = Users(i) /\ Users(i) > 0

(* With the file system goes all its memory (the warning in                *)
(* vfs_s_free_super is disabled: "We currently leak small ammount of       *)
(* memory, sometimes").                                                    *)
SuperFreesAll == root = NoPtr => DOMAIN inodes = {} /\ DOMAIN entries = {}

(* Unless the cache is held back, a listing shows every file of the        *)
(* server, and shows no other that mc has not written itself.  The         *)
(* exception is a listing of a directory that was changed by a command     *)
(* whose reply was lost: mc takes the command for refused and keeps what   *)
(* it had, until the listing expires or another change drops the cache.    *)
ListingIsCurrent ==
  ~stale /\ root # NoPtr =>
    \A d \in Below(heap, root) : ~inodes[d].doubt =>
      /\ \A n \in remote[inodes[d].name] : \E f \in Below(heap, d) : inodes[f].name = n
      /\ \A f \in Below(heap, d) :
           inodes[f].local \/ inodes[f].name \in remote[inodes[d].name]

(* A stream never loses an entry it has still to read: not when its        *)
(* listing expires, nor when the cache is dropped.                         *)
StreamsAreStable ==
  [][\A s \in Streams :
       streams[s].dir # NoPtr /\ streams'[s].dir = streams[s].dir
       => /\ streams[s].dir \in DOMAIN inodes'
          /\ LET old == inodes[streams[s].dir].subdir
                 now == inodes'[streams[s].dir].subdir
             IN Len(old) <= Len(now) /\ SubSeq(now, 1, Len(old)) = old]_cache_vars

(* Memory is freed when its last user goes, neither earlier nor later.     *)
MemoryIsAccounted ==
  /\ HeapOK
  /\ NoDangling
  /\ CountsMatch
  /\ SuperFreesAll

=============================================================================
