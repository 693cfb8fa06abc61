-------------------------- MODULE EditBufferProofs --------------------------
(***************************************************************************)
(* Proofs that the buffer of the editor stays consistent, that every       *)
(* command does to the text what it says, and that undo steps back through *)
(* the texts at the key presses (EditBuffer, UndoHistory), for blocks,     *)
(* limits and stacks of any size.                                          *)
(*                                                                         *)
(* Kept joins the soundness of tables, counters and ring to the way the    *)
(* actions on the stack lead back through the texts (Leads), and BufferInv *)
(* states it of the states of the specification.  The first holds whatever *)
(* happens, the second until a block copy is cut off at SIZE_LIMIT, which  *)
(* leaves the marks beyond the end.  That a command is exact is a fact     *)
(* about texts: what it leaves is a sequence of parts of what was there.   *)
(***************************************************************************)
EXTENDS EditorProofs

-----------------------------------------------------------------------------
(* The buffer, its counters and the stack belong together; strict, as long *)
(* as no mark is beyond the end, the stack leads back to the snapshots all.*)
Kept(e, all, strict) ==
  /\ Sound(e) /\ e.stack_disable = FALSE /\ Ring(e.stack)
  /\ \E q : /\ StandsFor(Entries(e.stack), q)
            /\ strict => InRange(e) /\ \E k : Leads(q, all, Snapshot(e), k)

LEMMA SnapshotIs ==
  ASSUME NEW e, Sound(e)
  PROVE  /\ Snapshot(e) = <<Text(e), e.curs1>> /\ Snapshot(e) \in Snaps
         /\ Text(e) \in Seq(Byte) /\ Len(Text(e)) = e.last_byte
         /\ e.curs1 \in 0 .. e.last_byte /\ e.curs2 \in Nat /\ e.curs2 = e.last_byte - e.curs1
         /\ e.last_byte \in Nat /\ e.curs1 \in Nat
<1>1. Text(e) \in Seq(Byte) /\ Len(Text(e)) = e.last_byte
  BY TextIs DEF Sound
<1>2. e.curs1 \in Nat /\ e.curs2 \in Nat /\ e.last_byte = e.curs1 + e.curs2
  BY DEF Sound, Tabled
<1>3. e.curs1 \in 0 .. e.last_byte /\ e.curs2 = e.last_byte - e.curs1 /\ e.last_byte \in Nat
  BY <1>2
<1> QED BY <1>1, <1>2, <1>3 DEF Snapshot, Snaps

LEMMA OppositeUndone ==
  ASSUME NEW c, NEW d, Opposite(c, d), NEW x \in Snaps, NEW y \in Snaps, NEW z,
         Undone(c, y, x), Undone(d, x, z)
  PROVE  z = y
<1>1. \/ c = CURS_LEFT /\ d = CURS_RIGHT
      \/ c = CURS_RIGHT /\ d = CURS_LEFT
  BY DEF Opposite, CURS_LEFT, CURS_RIGHT
<1>2. y = <<y[1], y[2]>> /\ y[2] \in Nat /\ y[1] \in Seq(Byte)
  BY DEF Snaps
<1>4. ~ (CURS_LEFT \in Byte) /\ ~ (CURS_RIGHT \in Byte) /\ ~ (CURS_LEFT - 256 \in Byte)
      /\ ~ (CURS_RIGHT - 256 \in Byte) /\ CURS_LEFT # CURS_RIGHT
      /\ CURS_LEFT # BACKSPACE /\ CURS_LEFT # DELCHAR /\ CURS_RIGHT # BACKSPACE /\ CURS_RIGHT # DELCHAR
      /\ \A n \in Nat : /\ ~ (CURS_LEFT - MARK_1 \in 0 .. n) /\ ~ (CURS_LEFT - MARK_2 \in -1 .. n)
                        /\ ~ (CURS_RIGHT - MARK_1 \in 0 .. n) /\ ~ (CURS_RIGHT - MARK_2 \in -1 .. n)
  BY DEF CURS_LEFT, CURS_RIGHT, BACKSPACE, DELCHAR, MARK_1, MARK_2, Byte
<1>5. Len(x[1]) \in Nat /\ Len(y[1]) \in Nat
  BY DEF Snaps
<1>6. CASE c = CURS_LEFT /\ d = CURS_RIGHT
  <2>1. x = <<y[1], y[2] - 1>>
    BY <1>4, <1>5, <1>6 DEF Undone
  <2>2. z = <<x[1], x[2] + 1>>
    BY <1>4, <1>5, <1>6 DEF Undone
  <2>3. x[1] = y[1] /\ x[2] + 1 = y[2]
    BY <2>1, <1>2
  <2> QED BY <2>2, <2>3, <1>2
<1>7. CASE c = CURS_RIGHT /\ d = CURS_LEFT
  <2>1. x = <<y[1], y[2] + 1>>
    BY <1>4, <1>5, <1>7 DEF Undone
  <2>2. z = <<x[1], x[2] - 1>>
    BY <1>4, <1>5, <1>7 DEF Undone
  <2>3. x[1] = y[1] /\ x[2] - 1 = y[2]
    BY <2>1, <1>2
  <2> QED BY <2>2, <2>3, <1>2
<1> QED BY <1>1, <1>6, <1>7

(* A push whose reverse leads back to where the stack led from.            *)
LEMMA LeadsOn ==
  ASSUME NEW q \in Seq(Nat), NEW all \in Seq(Snaps), NEW x, NEW k, Leads(q, all, x, k),
         NEW c \in Nat, c < KEY_PRESS, NEW y \in Snaps, Undone(c, y, x), NEW r, Follows(q, c, r)
  PROVE  \E j : Leads(r, all, y, j)
<1>1. x \in Snaps
  BY LeadsType
<1>2. CASE q # <<>> /\ q[Len(q)] = c /\ c >= KEY_PRESS /\ r = q
  BY <1>2, KeyPressIs
<1>3. CASE q # <<>> /\ Opposite(c, q[Len(q)]) /\ r = SubSeq(q, 1, Len(q) - 1)
  <2>1. q[Len(q)] < KEY_PRESS
    BY <1>3, OppositeIs DEF CURS_LEFT, CURS_RIGHT, KEY_PRESS
  <2>2. PICK z \in Snaps : Undone(q[Len(q)], x, z) /\ Leads(SubSeq(q, 1, Len(q) - 1), all, z, k)
    BY <2>1, <1>3, LeadsBack
  <2>3. z = y
    BY <2>2, <1>1, <1>3, OppositeUndone
  <2> QED BY <2>2, <2>3, <1>3
<1>4. CASE \E m \in 0 .. Len(q) + 1 : r = SubSeq(Append(q, c), m + 1, Len(q) + 1)
  <2>1. PICK m \in 0 .. Len(q) + 1 : r = SubSeq(Append(q, c), m + 1, Len(q) + 1)
    BY <1>4
  <2>2. Append(q, c) \in Seq(Nat) /\ Len(Append(q, c)) = Len(q) + 1
    BY AppendProperties
  <2>3. Leads(Append(q, c), all, y, k)
    <3>1. Len(all) \in Nat
      OBVIOUS
    <3> QED BY <3>1, LeadsAction
  <2> QED BY <2>1, <2>2, <2>3, LeadsLatest
<1> QED BY <1>2, <1>3, <1>4 DEF Follows

LEMMA KeptPush ==
  ASSUME NEW e, NEW all \in Seq(Snaps), NEW strict \in BOOLEAN, Kept(e, all, strict),
         NEW c, Code(c), NEW f, Sound(f), f.stack = Pushed(e, c), f.stack_disable = e.stack_disable,
         strict => InRange(f) /\ c < KEY_PRESS /\ Undone(c, Snapshot(f), Snapshot(e))
  PROVE  Kept(f, all, strict)
<1>1. PICK q : /\ StandsFor(Entries(e.stack), q)
               /\ strict => InRange(e) /\ \E k : Leads(q, all, Snapshot(e), k)
  BY DEF Kept
<1>2. e.stack_disable = FALSE /\ Ring(e.stack)
  BY DEF Kept
<1> DEFINE u == Grown(e.stack)
           v == PushAction(u, c)
<1>3. Ring(u) /\ Roomy(u) /\ Entries(u) = Entries(e.stack)
  BY <1>2, GrownIs
<1>4. f.stack = v
  BY <1>2 DEF Pushed
<1> HIDE DEF u, v
<1>5. c \in Int /\ c \in Nat
  <2>1. c \in Int /\ c >= 0
    BY CodeIs
  <2> QED BY <2>1
<1>6. Shape(Entries(u)) /\ q \in Seq(Nat)
  BY <1>1, <1>3 DEF StandsFor
<1>7. Ring(v) /\ Pushes(Entries(u), c, Entries(v))
  BY <1>3, <1>5, <1>6, PushActionIs DEF v
<1>8. PICK r : StandsFor(Entries(v), r) /\ Follows(q, c, r)
  BY <1>1, <1>3, <1>7, PushStands
<1>9. strict => \E k : Leads(r, all, Snapshot(f), k)
  <2> SUFFICES ASSUME strict PROVE \E k : Leads(r, all, Snapshot(f), k)
    OBVIOUS
  <2>1. PICK k : Leads(q, all, Snapshot(e), k)
    BY <1>1
  <2>2. Snapshot(f) \in Snaps
    BY SnapshotIs
  <2> QED BY <2>1, <2>2, <1>5, <1>6, <1>8, LeadsOn
<1> QED BY <1>2, <1>4, <1>7, <1>8, <1>9 DEF Kept

-----------------------------------------------------------------------------
(* The routines with the stack at work.                                    *)

LEMMA CodesAre ==
  /\ Code(CURS_LEFT) /\ Code(CURS_RIGHT) /\ Code(DELCHAR) /\ Code(BACKSPACE)
  /\ CURS_LEFT < KEY_PRESS /\ CURS_RIGHT < KEY_PRESS
  /\ DELCHAR < KEY_PRESS /\ BACKSPACE < KEY_PRESS
  /\ \A p \in Byte : /\ Code(p) /\ Code(p + 256) /\ p < KEY_PRESS /\ p + 256 < KEY_PRESS
                     /\ (p + 256) - 256 = p /\ p + 256 \in Nat
BY DEF Code, CURS_LEFT, CURS_RIGHT, DELCHAR, BACKSPACE, KEY_PRESS, Byte

LEMMA InsertKept ==
  ASSUME NEW e, NEW all \in Seq(Snaps), NEW strict \in BOOLEAN, Kept(e, all, strict), NEW c \in Byte
  PROVE  Kept(Insert(e, c), all, strict)
<1> DEFINE f == Insert(e, c)
           t == Text(e)
           i == e.curs1
<1>1. Sound(e) /\ e.stack_disable = FALSE /\ (strict => InRange(e))
  BY DEF Kept
<1>2. IsEdit(e) /\ Tabled(e) /\ Plain(e)
  BY <1>1 DEF Sound
<1>3. /\ Snapshot(e) = <<t, i>> /\ Snapshot(e) \in Snaps
      /\ t \in Seq(Byte) /\ Len(t) = e.last_byte
      /\ i \in 0 .. e.last_byte /\ e.curs2 = e.last_byte - i /\ e.last_byte \in Nat /\ i \in Nat
  BY <1>1, SnapshotIs
<1>4. CASE e.last_byte >= SIZE_LIMIT
  <2>1. f = e
    BY <1>4 DEF Insert
  <2> QED BY <2>1
<1>6. (e.curs1 # 0 => e.curs1 \in Nat \ {0}) /\ (e.curs2 # 0 => e.curs2 \in Nat \ {0})
  BY <1>2 DEF Tabled
<1>5. CASE ~ (e.last_byte >= SIZE_LIMIT)
  <2>10. Sound(f) /\ (InRange(e) => InRange(f))
    BY <1>1, <1>5, InsertSound
  <2>11. f.stack = Pushed(e, BACKSPACE) /\ f.stack_disable = e.stack_disable /\ f.curs1 = i + 1
    BY <1>2, <1>5, InsertIs
  <2>1. Text(f) = Inserted(t, i, c)
    BY <1>2, <1>5, InsertText
  <2>12. BACKSPACE < KEY_PRESS /\ Code(BACKSPACE)
    BY CodesAre
  <2> HIDE DEF f, t, i
  <2>2. Snapshot(f) = <<Inserted(t, i, c), i + 1>>
    BY <2>1, <2>10, <2>11, SnapshotIs
  <2>3. Removed(Inserted(t, i, c), i) = t
    BY <1>3, RemovedInserted
  <2>4. i + 1 > 0 /\ (i + 1) - 1 = i
    BY <1>3
  <2>13. Undone(BACKSPACE, Snapshot(f), Snapshot(e))
    BY <2>2, <2>3, <2>4, <1>3 DEF Undone
  <2>20. Kept(f, all, strict)
    BY <2>10, <2>11, <2>12, <2>13, <1>1, CodesAre, KeptPush
  <2> QED BY <2>20 DEF f
<1> QED BY <1>4, <1>5

LEMMA InsertAheadKept ==
  ASSUME NEW e, NEW all \in Seq(Snaps), NEW strict \in BOOLEAN, Kept(e, all, strict), NEW c \in Byte
  PROVE  Kept(InsertAhead(e, c), all, strict)
<1> DEFINE f == InsertAhead(e, c)
           t == Text(e)
           i == e.curs1
<1>1. Sound(e) /\ e.stack_disable = FALSE /\ (strict => InRange(e))
  BY DEF Kept
<1>2. IsEdit(e) /\ Tabled(e) /\ Plain(e)
  BY <1>1 DEF Sound
<1>3. /\ Snapshot(e) = <<t, i>> /\ Snapshot(e) \in Snaps
      /\ t \in Seq(Byte) /\ Len(t) = e.last_byte
      /\ i \in 0 .. e.last_byte /\ e.curs2 = e.last_byte - i /\ e.last_byte \in Nat /\ i \in Nat
  BY <1>1, SnapshotIs
<1>4. CASE e.last_byte >= SIZE_LIMIT
  <2>1. f = e
    BY <1>4 DEF InsertAhead
  <2> QED BY <2>1
<1>6. (e.curs1 # 0 => e.curs1 \in Nat \ {0}) /\ (e.curs2 # 0 => e.curs2 \in Nat \ {0})
  BY <1>2 DEF Tabled
<1>5. CASE ~ (e.last_byte >= SIZE_LIMIT)
  <2>10. Sound(f) /\ (InRange(e) => InRange(f))
    BY <1>1, <1>5, InsertAheadSound
  <2>11. f.stack = Pushed(e, DELCHAR) /\ f.stack_disable = e.stack_disable /\ f.curs1 = i
    BY <1>2, <1>5, InsertAheadIs
  <2>1. Text(f) = Inserted(t, i, c)
    BY <1>2, <1>5, InsertAheadText
  <2>12. DELCHAR < KEY_PRESS /\ Code(DELCHAR)
    BY CodesAre
  <2> HIDE DEF f, t, i
  <2>2. Snapshot(f) = <<Inserted(t, i, c), i>>
    BY <2>1, <2>10, <2>11, SnapshotIs
  <2>3. Removed(Inserted(t, i, c), i) = t
    BY <1>3, RemovedInserted
  <2>4. Len(Inserted(t, i, c)) = Len(t) + 1 /\ i < Len(t) + 1
    <3>1. i \in 0 .. Len(t) /\ t \in Seq(Byte) /\ i < Len(t) + 1
      BY <1>3
    <3>2. \A j \in 0 .. Len(t), d \in Byte : Len(Inserted(t, j, d)) = Len(t) + 1
      BY <3>1, InsertedIs
    <3> QED BY <3>1, <3>2
  <2>13. Undone(DELCHAR, Snapshot(f), Snapshot(e))
    BY <2>2, <2>3, <2>4, <1>3 DEF Undone
  <2>20. Kept(f, all, strict)
    BY <2>10, <2>11, <2>12, <2>13, <1>1, CodesAre, KeptPush
  <2> QED BY <2>20 DEF f
<1> QED BY <1>4, <1>5

LEMMA DeleteKept ==
  ASSUME NEW e, NEW all \in Seq(Snaps), NEW strict \in BOOLEAN, Kept(e, all, strict)
  PROVE  Kept(Delete(e), all, strict)
<1> DEFINE f == Delete(e)
           t == Text(e)
           i == e.curs1
<1>1. Sound(e) /\ e.stack_disable = FALSE /\ (strict => InRange(e))
  BY DEF Kept
<1>2. IsEdit(e) /\ Tabled(e) /\ Plain(e)
  BY <1>1 DEF Sound
<1>3. /\ Snapshot(e) = <<t, i>> /\ Snapshot(e) \in Snaps
      /\ t \in Seq(Byte) /\ Len(t) = e.last_byte
      /\ i \in 0 .. e.last_byte /\ e.curs2 = e.last_byte - i /\ e.last_byte \in Nat /\ i \in Nat
  BY <1>1, SnapshotIs
<1>4. CASE e.curs2 = 0
  <2>1. f = e
    BY <1>4 DEF Delete
  <2> QED BY <2>1
<1>6. (e.curs1 # 0 => e.curs1 \in Nat \ {0}) /\ (e.curs2 # 0 => e.curs2 \in Nat \ {0})
  BY <1>2 DEF Tabled
<1>5. CASE ~ (e.curs2 = 0)
  <2> DEFINE p == At2(e, e.curs2 - 1)
  <2>10. Sound(f) /\ (InRange(e) => InRange(f))
    BY <1>1, <1>5, DeleteSound
  <2>11. f.stack = Pushed(e, p + 256) /\ f.stack_disable = e.stack_disable /\ f.curs1 = i
         /\ f.last_byte = e.last_byte - 1
    <3>1. f.stack = Pushed(e, p + 256) /\ f.stack_disable = e.stack_disable /\ f.curs1 = i
          /\ f.last_byte = e.last_byte + (-1)
      BY <1>2, <1>5, <1>6, DeleteIs
    <3> QED BY <3>1, <1>3
  <2>1. Text(f) = Removed(t, i) /\ t = Inserted(Text(f), i, p) /\ p \in Byte
    BY <1>2, <1>5, DeleteText
  <2> HIDE DEF p, f, t, i
  <2>12. p + 256 < KEY_PRESS /\ Code(p + 256) /\ (p + 256) - 256 = p
    BY <2>1, CodesAre
  <2>2. Snapshot(f) = <<Text(f), i>> /\ Len(Text(f)) = e.last_byte - 1
    BY <2>10, <2>11, SnapshotIs
  <2>3. e.last_byte - 1 < SIZE_LIMIT
    BY <1>2, <1>3, SizeLimitIs DEF Plain
  <2> DEFINE a == p + 256
             x == Snapshot(f)
             y == Snapshot(e)
  <2>4. a - 256 = p /\ x[1] = Text(f) /\ x[2] = i
    BY <2>2, <2>12
  <2>5. y = <<Inserted(x[1], x[2], a - 256), x[2]>> /\ Len(x[1]) < SIZE_LIMIT /\ a - 256 \in Byte
    BY <2>1, <2>2, <2>3, <2>4, <1>3
  <2> HIDE DEF a, x, y
  <2>6. Undone(a, x, y)
    BY <2>5 DEF Undone
  <2>13. Undone(p + 256, Snapshot(f), Snapshot(e))
    BY <2>6 DEF a, x, y
  <2>20. Kept(f, all, strict)
    BY <2>10, <2>11, <2>12, <2>13, <1>1, CodesAre, KeptPush
  <2> QED BY <2>20 DEF f
<1> QED BY <1>4, <1>5

LEMMA BackspaceKept ==
  ASSUME NEW e, NEW all \in Seq(Snaps), NEW strict \in BOOLEAN, Kept(e, all, strict)
  PROVE  Kept(Backspace(e), all, strict)
<1> DEFINE f == Backspace(e)
           t == Text(e)
           i == e.curs1
<1>1. Sound(e) /\ e.stack_disable = FALSE /\ (strict => InRange(e))
  BY DEF Kept
<1>2. IsEdit(e) /\ Tabled(e) /\ Plain(e)
  BY <1>1 DEF Sound
<1>3. /\ Snapshot(e) = <<t, i>> /\ Snapshot(e) \in Snaps
      /\ t \in Seq(Byte) /\ Len(t) = e.last_byte
      /\ i \in 0 .. e.last_byte /\ e.curs2 = e.last_byte - i /\ e.last_byte \in Nat /\ i \in Nat
  BY <1>1, SnapshotIs
<1>4. CASE e.curs1 = 0
  <2>1. f = e
    BY <1>4 DEF Backspace
  <2> QED BY <2>1
<1>6. (e.curs1 # 0 => e.curs1 \in Nat \ {0}) /\ (e.curs2 # 0 => e.curs2 \in Nat \ {0})
  BY <1>2 DEF Tabled
<1>5. CASE ~ (e.curs1 = 0)
  <2> DEFINE p == At1(e, e.curs1 - 1)
  <2>10. Sound(f) /\ (InRange(e) => InRange(f))
    BY <1>1, <1>5, BackspaceSound
  <2>11. f.stack = Pushed(e, p) /\ f.stack_disable = e.stack_disable /\ f.curs1 = i - 1
         /\ f.last_byte = e.last_byte - 1
    <3>1. f.stack = Pushed(e, p) /\ f.stack_disable = e.stack_disable /\ f.curs1 = i - 1
          /\ f.last_byte = e.last_byte + (-1)
      BY <1>2, <1>5, <1>6, BackspaceIs
    <3> QED BY <3>1, <1>3
  <2>1. Text(f) = Removed(t, i - 1) /\ t = Inserted(Text(f), i - 1, p) /\ p \in Byte
    BY <1>2, <1>5, BackspaceText
  <2> HIDE DEF p, f, t, i
  <2>12. p < KEY_PRESS /\ Code(p)
    BY <2>1, CodesAre
  <2>2. Snapshot(f) = <<Text(f), i - 1>> /\ Len(Text(f)) = e.last_byte - 1
    BY <2>10, <2>11, SnapshotIs
  <2>3. e.last_byte - 1 < SIZE_LIMIT /\ (i - 1) + 1 = i
    BY <1>2, <1>3, SizeLimitIs DEF Plain
  <2> DEFINE x == Snapshot(f)
             y == Snapshot(e)
  <2>4. x[1] = Text(f) /\ x[2] = i - 1
    BY <2>2
  <2>5. y = <<Inserted(x[1], x[2], p), x[2] + 1>> /\ Len(x[1]) < SIZE_LIMIT
    BY <2>1, <2>2, <2>3, <2>4, <1>3
  <2> HIDE DEF x, y
  <2>6. Undone(p, x, y)
    BY <2>1, <2>5 DEF Undone
  <2>13. Undone(p, Snapshot(f), Snapshot(e))
    BY <2>6 DEF x, y
  <2>20. Kept(f, all, strict)
    BY <2>10, <2>11, <2>12, <2>13, <1>1, CodesAre, KeptPush
  <2> QED BY <2>20 DEF f
<1> QED BY <1>4, <1>5

LEMMA LeftKept ==
  ASSUME NEW e, NEW all \in Seq(Snaps), NEW strict \in BOOLEAN, Kept(e, all, strict)
  PROVE  Kept(Left(e), all, strict)
<1> DEFINE f == Left(e)
           t == Text(e)
           i == e.curs1
<1>1. Sound(e) /\ e.stack_disable = FALSE /\ (strict => InRange(e))
  BY DEF Kept
<1>2. IsEdit(e) /\ Tabled(e) /\ Plain(e)
  BY <1>1 DEF Sound
<1>3. /\ Snapshot(e) = <<t, i>> /\ Snapshot(e) \in Snaps
      /\ t \in Seq(Byte) /\ Len(t) = e.last_byte
      /\ i \in 0 .. e.last_byte /\ e.curs2 = e.last_byte - i /\ e.last_byte \in Nat /\ i \in Nat
  BY <1>1, SnapshotIs
<1>4. CASE e.curs1 = 0
  <2>1. f = e
    BY <1>4 DEF Left
  <2> QED BY <2>1
<1>6. (e.curs1 # 0 => e.curs1 \in Nat \ {0}) /\ (e.curs2 # 0 => e.curs2 \in Nat \ {0})
  BY <1>2 DEF Tabled
<1>5. CASE ~ (e.curs1 = 0)
  <2>10. Sound(f) /\ (InRange(e) => InRange(f))
    BY <1>1, <1>5, LeftSound
  <2>11. f.stack = Pushed(e, CURS_RIGHT) /\ f.stack_disable = e.stack_disable /\ f.curs1 = i - 1
    BY <1>2, <1>5, <1>6, LeftIs
  <2>1. Text(f) = t
    BY <1>2, <1>5, LeftText
  <2>12. CURS_RIGHT < KEY_PRESS /\ Code(CURS_RIGHT)
    BY CodesAre
  <2>14. i # 0
    BY <1>5
  <2> HIDE DEF f, t, i
  <2>2. Snapshot(f) = <<t, i - 1>>
    BY <2>1, <2>10, <2>11, SnapshotIs
  <2>3. (i - 1) + 1 = i /\ i - 1 < Len(t)
    BY <2>14, <1>3
  <2>13. Undone(CURS_RIGHT, Snapshot(f), Snapshot(e))
    BY <2>2, <2>3, <1>3 DEF Undone
  <2>20. Kept(f, all, strict)
    BY <2>10, <2>11, <2>12, <2>13, <1>1, CodesAre, KeptPush
  <2> QED BY <2>20 DEF f
<1> QED BY <1>4, <1>5

LEMMA RightKept ==
  ASSUME NEW e, NEW all \in Seq(Snaps), NEW strict \in BOOLEAN, Kept(e, all, strict)
  PROVE  Kept(Right(e), all, strict)
<1> DEFINE f == Right(e)
           t == Text(e)
           i == e.curs1
<1>1. Sound(e) /\ e.stack_disable = FALSE /\ (strict => InRange(e))
  BY DEF Kept
<1>2. IsEdit(e) /\ Tabled(e) /\ Plain(e)
  BY <1>1 DEF Sound
<1>3. /\ Snapshot(e) = <<t, i>> /\ Snapshot(e) \in Snaps
      /\ t \in Seq(Byte) /\ Len(t) = e.last_byte
      /\ i \in 0 .. e.last_byte /\ e.curs2 = e.last_byte - i /\ e.last_byte \in Nat /\ i \in Nat
  BY <1>1, SnapshotIs
<1>4. CASE e.curs2 = 0
  <2>1. f = e
    BY <1>4 DEF Right
  <2> QED BY <2>1
<1>6. (e.curs1 # 0 => e.curs1 \in Nat \ {0}) /\ (e.curs2 # 0 => e.curs2 \in Nat \ {0})
  BY <1>2 DEF Tabled
<1>5. CASE ~ (e.curs2 = 0)
  <2>10. Sound(f) /\ (InRange(e) => InRange(f))
    BY <1>1, <1>5, RightSound
  <2>11. f.stack = Pushed(e, CURS_LEFT) /\ f.stack_disable = e.stack_disable /\ f.curs1 = i + 1
    BY <1>2, <1>5, <1>6, RightIs
  <2>1. Text(f) = t
    BY <1>2, <1>5, RightText
  <2>12. CURS_LEFT < KEY_PRESS /\ Code(CURS_LEFT)
    BY CodesAre
  <2> HIDE DEF f, t, i
  <2>2. Snapshot(f) = <<t, i + 1>>
    BY <2>1, <2>10, <2>11, SnapshotIs
  <2>3. (i + 1) - 1 = i /\ i + 1 > 0
    BY <1>3
  <2>13. Undone(CURS_LEFT, Snapshot(f), Snapshot(e))
    BY <2>2, <2>3, <1>3 DEF Undone
  <2>20. Kept(f, all, strict)
    BY <2>10, <2>11, <2>12, <2>13, <1>1, CodesAre, KeptPush
  <2> QED BY <2>20 DEF f
<1> QED BY <1>4, <1>5

-----------------------------------------------------------------------------
(* Undoing: the routines leave the stack alone.                            *)
Rewinds(e) == Sound(e) /\ e.stack_disable = TRUE /\ Ring(e.stack)

Rewound(e, f) ==
  Rewinds(f) /\ Entries(f.stack) = Entries(e.stack) /\ (InRange(e) => InRange(f))

LEMMA RewoundSame == ASSUME NEW e, Rewinds(e) PROVE Rewound(e, e)
BY DEF Rewound

LEMMA RewoundBy ==
  ASSUME NEW e, Rewinds(e), NEW c, NEW f, Sound(f), InRange(e) => InRange(f),
         f.stack = Pushed(e, c), f.stack_disable = e.stack_disable
  PROVE  Rewound(e, f)
<1>1. f.stack = Grown(e.stack)
  BY DEF Rewinds, Pushed
<1>2. Ring(Grown(e.stack)) /\ Entries(Grown(e.stack)) = Entries(e.stack)
  BY GrownIs DEF Rewinds
<1> QED BY <1>1, <1>2 DEF Rewound, Rewinds

LEMMA InsertRewound ==
  ASSUME NEW e, Rewinds(e), NEW c \in Byte
  PROVE  /\ Rewound(e, Insert(e, c))
         /\ e.last_byte < SIZE_LIMIT => Snapshot(Insert(e, c)) = <<Inserted(Text(e), e.curs1, c), e.curs1 + 1>>
<1> DEFINE f == Insert(e, c)
<1>1. Sound(e)
  BY DEF Rewinds
<1>2. IsEdit(e) /\ Tabled(e) /\ Plain(e)
  BY <1>1 DEF Sound
<1>3. e.curs1 \in Nat /\ e.curs2 \in Nat /\ e.last_byte \in Nat /\ e.curs2 = e.last_byte - e.curs1
  BY <1>1, SnapshotIs
<1>8. ~ (e.last_byte < SIZE_LIMIT) <=> e.last_byte >= SIZE_LIMIT
  BY <1>3, SizeLimitIs
<1>4. CASE e.last_byte >= SIZE_LIMIT
  <2>1. f = e
    BY <1>4 DEF Insert
  <2> QED BY <2>1, <1>4, <1>8, RewoundSame
<1>6. (e.curs1 # 0 => e.curs1 \in Nat \ {0}) /\ (e.curs2 # 0 => e.curs2 \in Nat \ {0})
  BY <1>3
<1>5. CASE ~ (e.last_byte >= SIZE_LIMIT)
  <2>1. Sound(f) /\ (InRange(e) => InRange(f))
    BY <1>1, <1>5, InsertSound
  <2>2. f.stack = Pushed(e, BACKSPACE) /\ f.stack_disable = e.stack_disable
    BY <1>2, <1>5, <1>6, InsertIs
  <2>3. f.curs1 = e.curs1 + 1
    BY <1>2, <1>5, <1>6, InsertIs
  <2>4. Text(f) = Inserted(Text(e), e.curs1, c)
    BY <1>2, <1>5, InsertText
  <2> HIDE DEF f
  <2>5. Rewound(e, f)
    BY <2>1, <2>2, RewoundBy
  <2>6. Snapshot(f) = <<Inserted(Text(e), e.curs1, c), e.curs1 + 1>>
    BY <2>1, <2>3, <2>4, SnapshotIs
  <2> QED BY <2>5, <2>6 DEF f
<1> QED BY <1>4, <1>5

LEMMA InsertAheadRewound ==
  ASSUME NEW e, Rewinds(e), NEW c \in Byte
  PROVE  /\ Rewound(e, InsertAhead(e, c))
         /\ e.last_byte < SIZE_LIMIT => Snapshot(InsertAhead(e, c)) = <<Inserted(Text(e), e.curs1, c), e.curs1>>
<1> DEFINE f == InsertAhead(e, c)
<1>1. Sound(e)
  BY DEF Rewinds
<1>2. IsEdit(e) /\ Tabled(e) /\ Plain(e)
  BY <1>1 DEF Sound
<1>3. e.curs1 \in Nat /\ e.curs2 \in Nat /\ e.last_byte \in Nat /\ e.curs2 = e.last_byte - e.curs1
  BY <1>1, SnapshotIs
<1>8. ~ (e.last_byte < SIZE_LIMIT) <=> e.last_byte >= SIZE_LIMIT
  BY <1>3, SizeLimitIs
<1>4. CASE e.last_byte >= SIZE_LIMIT
  <2>1. f = e
    BY <1>4 DEF InsertAhead
  <2> QED BY <2>1, <1>4, <1>8, RewoundSame
<1>6. (e.curs1 # 0 => e.curs1 \in Nat \ {0}) /\ (e.curs2 # 0 => e.curs2 \in Nat \ {0})
  BY <1>3
<1>5. CASE ~ (e.last_byte >= SIZE_LIMIT)
  <2>1. Sound(f) /\ (InRange(e) => InRange(f))
    BY <1>1, <1>5, InsertAheadSound
  <2>2. f.stack = Pushed(e, DELCHAR) /\ f.stack_disable = e.stack_disable
    BY <1>2, <1>5, <1>6, InsertAheadIs
  <2>3. f.curs1 = e.curs1
    BY <1>2, <1>5, <1>6, InsertAheadIs
  <2>4. Text(f) = Inserted(Text(e), e.curs1, c)
    BY <1>2, <1>5, InsertAheadText
  <2> HIDE DEF f
  <2>5. Rewound(e, f)
    BY <2>1, <2>2, RewoundBy
  <2>6. Snapshot(f) = <<Inserted(Text(e), e.curs1, c), e.curs1>>
    BY <2>1, <2>3, <2>4, SnapshotIs
  <2> QED BY <2>5, <2>6 DEF f
<1> QED BY <1>4, <1>5

LEMMA DeleteRewound ==
  ASSUME NEW e, Rewinds(e)
  PROVE  /\ Rewound(e, Delete(e))
         /\ e.curs1 < e.last_byte => Snapshot(Delete(e)) = <<Removed(Text(e), e.curs1), e.curs1>>
<1> DEFINE f == Delete(e)
<1>1. Sound(e)
  BY DEF Rewinds
<1>2. IsEdit(e) /\ Tabled(e) /\ Plain(e)
  BY <1>1 DEF Sound
<1>3. e.curs1 \in Nat /\ e.curs2 \in Nat /\ e.last_byte \in Nat /\ e.curs2 = e.last_byte - e.curs1
  BY <1>1, SnapshotIs
<1>8. ~ (e.curs1 < e.last_byte) <=> e.curs2 = 0
  BY <1>3, SizeLimitIs
<1>4. CASE e.curs2 = 0
  <2>1. f = e
    BY <1>4 DEF Delete
  <2> QED BY <2>1, <1>4, <1>8, RewoundSame
<1>6. (e.curs1 # 0 => e.curs1 \in Nat \ {0}) /\ (e.curs2 # 0 => e.curs2 \in Nat \ {0})
  BY <1>3
<1>5. CASE ~ (e.curs2 = 0)
  <2>1. Sound(f) /\ (InRange(e) => InRange(f))
    BY <1>1, <1>5, DeleteSound
  <2>2. f.stack = Pushed(e, At2(e, e.curs2 - 1) + 256) /\ f.stack_disable = e.stack_disable
    BY <1>2, <1>5, <1>6, DeleteIs
  <2>3. f.curs1 = e.curs1
    BY <1>2, <1>5, <1>6, DeleteIs
  <2>4. Text(f) = Removed(Text(e), e.curs1)
    BY <1>2, <1>5, DeleteText
  <2> HIDE DEF f
  <2>5. Rewound(e, f)
    BY <2>1, <2>2, RewoundBy
  <2>6. Snapshot(f) = <<Removed(Text(e), e.curs1), e.curs1>>
    BY <2>1, <2>3, <2>4, SnapshotIs
  <2> QED BY <2>5, <2>6 DEF f
<1> QED BY <1>4, <1>5

LEMMA BackspaceRewound ==
  ASSUME NEW e, Rewinds(e)
  PROVE  /\ Rewound(e, Backspace(e))
         /\ e.curs1 > 0 => Snapshot(Backspace(e)) = <<Removed(Text(e), e.curs1 - 1), e.curs1 - 1>>
<1> DEFINE f == Backspace(e)
<1>1. Sound(e)
  BY DEF Rewinds
<1>2. IsEdit(e) /\ Tabled(e) /\ Plain(e)
  BY <1>1 DEF Sound
<1>3. e.curs1 \in Nat /\ e.curs2 \in Nat /\ e.last_byte \in Nat /\ e.curs2 = e.last_byte - e.curs1
  BY <1>1, SnapshotIs
<1>8. ~ (e.curs1 > 0) <=> e.curs1 = 0
  BY <1>3, SizeLimitIs
<1>4. CASE e.curs1 = 0
  <2>1. f = e
    BY <1>4 DEF Backspace
  <2> QED BY <2>1, <1>4, <1>8, RewoundSame
<1>6. (e.curs1 # 0 => e.curs1 \in Nat \ {0}) /\ (e.curs2 # 0 => e.curs2 \in Nat \ {0})
  BY <1>3
<1>5. CASE ~ (e.curs1 = 0)
  <2>1. Sound(f) /\ (InRange(e) => InRange(f))
    BY <1>1, <1>5, BackspaceSound
  <2>2. f.stack = Pushed(e, At1(e, e.curs1 - 1)) /\ f.stack_disable = e.stack_disable
    BY <1>2, <1>5, <1>6, BackspaceIs
  <2>3. f.curs1 = e.curs1 - 1
    BY <1>2, <1>5, <1>6, BackspaceIs
  <2>4. Text(f) = Removed(Text(e), e.curs1 - 1)
    BY <1>2, <1>5, BackspaceText
  <2> HIDE DEF f
  <2>5. Rewound(e, f)
    BY <2>1, <2>2, RewoundBy
  <2>6. Snapshot(f) = <<Removed(Text(e), e.curs1 - 1), e.curs1 - 1>>
    BY <2>1, <2>3, <2>4, SnapshotIs
  <2> QED BY <2>5, <2>6 DEF f
<1> QED BY <1>4, <1>5

LEMMA LeftRewound ==
  ASSUME NEW e, Rewinds(e)
  PROVE  /\ Rewound(e, Left(e))
         /\ e.curs1 > 0 => Snapshot(Left(e)) = <<Text(e), e.curs1 - 1>>
<1> DEFINE f == Left(e)
<1>1. Sound(e)
  BY DEF Rewinds
<1>2. IsEdit(e) /\ Tabled(e) /\ Plain(e)
  BY <1>1 DEF Sound
<1>3. e.curs1 \in Nat /\ e.curs2 \in Nat /\ e.last_byte \in Nat /\ e.curs2 = e.last_byte - e.curs1
  BY <1>1, SnapshotIs
<1>8. ~ (e.curs1 > 0) <=> e.curs1 = 0
  BY <1>3, SizeLimitIs
<1>4. CASE e.curs1 = 0
  <2>1. f = e
    BY <1>4 DEF Left
  <2> QED BY <2>1, <1>4, <1>8, RewoundSame
<1>6. (e.curs1 # 0 => e.curs1 \in Nat \ {0}) /\ (e.curs2 # 0 => e.curs2 \in Nat \ {0})
  BY <1>3
<1>5. CASE ~ (e.curs1 = 0)
  <2>1. Sound(f) /\ (InRange(e) => InRange(f))
    BY <1>1, <1>5, LeftSound
  <2>2. f.stack = Pushed(e, CURS_RIGHT) /\ f.stack_disable = e.stack_disable
    BY <1>2, <1>5, <1>6, LeftIs
  <2>3. f.curs1 = e.curs1 - 1
    BY <1>2, <1>5, <1>6, LeftIs
  <2>4. Text(f) = Text(e)
    BY <1>2, <1>5, LeftText
  <2> HIDE DEF f
  <2>5. Rewound(e, f)
    BY <2>1, <2>2, RewoundBy
  <2>6. Snapshot(f) = <<Text(e), e.curs1 - 1>>
    BY <2>1, <2>3, <2>4, SnapshotIs
  <2> QED BY <2>5, <2>6 DEF f
<1> QED BY <1>4, <1>5

LEMMA RightRewound ==
  ASSUME NEW e, Rewinds(e)
  PROVE  /\ Rewound(e, Right(e))
         /\ e.curs1 < e.last_byte => Snapshot(Right(e)) = <<Text(e), e.curs1 + 1>>
<1> DEFINE f == Right(e)
<1>1. Sound(e)
  BY DEF Rewinds
<1>2. IsEdit(e) /\ Tabled(e) /\ Plain(e)
  BY <1>1 DEF Sound
<1>3. e.curs1 \in Nat /\ e.curs2 \in Nat /\ e.last_byte \in Nat /\ e.curs2 = e.last_byte - e.curs1
  BY <1>1, SnapshotIs
<1>8. ~ (e.curs1 < e.last_byte) <=> e.curs2 = 0
  BY <1>3, SizeLimitIs
<1>4. CASE e.curs2 = 0
  <2>1. f = e
    BY <1>4 DEF Right
  <2> QED BY <2>1, <1>4, <1>8, RewoundSame
<1>6. (e.curs1 # 0 => e.curs1 \in Nat \ {0}) /\ (e.curs2 # 0 => e.curs2 \in Nat \ {0})
  BY <1>3
<1>5. CASE ~ (e.curs2 = 0)
  <2>1. Sound(f) /\ (InRange(e) => InRange(f))
    BY <1>1, <1>5, RightSound
  <2>2. f.stack = Pushed(e, CURS_LEFT) /\ f.stack_disable = e.stack_disable
    BY <1>2, <1>5, <1>6, RightIs
  <2>3. f.curs1 = e.curs1 + 1
    BY <1>2, <1>5, <1>6, RightIs
  <2>4. Text(f) = Text(e)
    BY <1>2, <1>5, RightText
  <2> HIDE DEF f
  <2>5. Rewound(e, f)
    BY <2>1, <2>2, RewoundBy
  <2>6. Snapshot(f) = <<Text(e), e.curs1 + 1>>
    BY <2>1, <2>3, <2>4, SnapshotIs
  <2> QED BY <2>5, <2>6 DEF f
<1> QED BY <1>4, <1>5

-----------------------------------------------------------------------------
(* What changes beside the text.                                           *)
SameBytes(e, f) ==
  /\ f.buffers1 = e.buffers1 /\ f.buffers2 = e.buffers2
  /\ f.curs1 = e.curs1 /\ f.curs2 = e.curs2 /\ f.last_byte = e.last_byte

Beside(e, f) ==
  SameBytes(e, f) /\ f.curs_line = e.curs_line /\ f.total_lines = e.total_lines

LEMMA SameTexts ==
  ASSUME NEW e, NEW f, SameBytes(e, f)
  PROVE  /\ \A i : GetByte(f, i) = GetByte(e, i)
         /\ Text(f) = Text(e) /\ Snapshot(f) = Snapshot(e)
         /\ Tabled(e) => Tabled(f)
<1>1. \A i : GetByte(f, i) = GetByte(e, i)
  BY DEF GetByte, SameBytes
<1>2. Text(f) = Text(e)
  BY <1>1 DEF Text, SameBytes
<1> QED BY <1>1, <1>2 DEF Snapshot, Tabled, SameBytes

LEMMA BesideIs ==
  ASSUME NEW e, Sound(e), NEW f, IsEdit(f), Beside(e, f), Plain(f)
  PROVE  /\ Sound(f) /\ Text(f) = Text(e) /\ Snapshot(f) = Snapshot(e)
         /\ (f.start_display = e.start_display /\ f.start_line = e.start_line
             /\ Windowed(e)) => Windowed(f)
         /\ (f.mark1 = e.mark1 /\ f.mark2 = e.mark2 /\ Markable(e)) => Markable(f)
<1>1. SameBytes(e, f)
  BY DEF Beside
<1>2. Text(f) = Text(e) /\ Snapshot(f) = Snapshot(e) /\ Tabled(f)
  BY <1>1, SameTexts DEF Sound
<1>3. Lined(f)
  BY <1>2 DEF Sound, Lined, Beside, SameBytes
<1> QED BY <1>2, <1>3 DEF Sound, Windowed, Markable, Beside, SameBytes

LEMMA MarkersIs ==
  ASSUME NEW e, IsEdit(e), NEW a, NEW b
  PROVE  LET f == SetMarkers(e, a, b)
         IN /\ IsEdit(f) /\ Beside(e, f)
            /\ f.start_display = e.start_display /\ f.start_line = e.start_line
            /\ f.prev_col = e.prev_col
            /\ f.mark1 = a /\ f.mark2 = b /\ f.stack = e.stack /\ f.stack_disable = e.stack_disable
<1> DEFINE f == SetMarkers(e, a, b)
<1>1. f = [x \in Fields |-> IF x = "mark1" THEN a ELSE IF x = "mark2" THEN b ELSE e[x]]
  BY DEF SetMarkers, IsEdit, Fields
<1> HIDE DEF f
<1>2. IsEdit(f)
  BY <1>1 DEF IsEdit
<1>3. /\ Beside(e, f)
      /\ f.start_display = e.start_display /\ f.start_line = e.start_line
      /\ f.prev_col = e.prev_col
      /\ f.mark1 = a /\ f.mark2 = b /\ f.stack = e.stack /\ f.stack_disable = e.stack_disable
  BY <1>1 DEF Beside, SameBytes, Fields
<1> QED BY <1>2, <1>3 DEF f

LEMMA MarkersSound ==
  ASSUME NEW e, Sound(e), NEW a \in Int, NEW b \in Int, a >= -2, b >= -2
  PROVE  LET f == SetMarkers(e, a, b)
         IN /\ Sound(f) /\ Text(f) = Text(e) /\ Snapshot(f) = Snapshot(e)
            /\ f.last_byte = e.last_byte /\ f.curs1 = e.curs1 /\ f.curs2 = e.curs2
            /\ f.stack = e.stack /\ f.stack_disable = e.stack_disable
            /\ (Windowed(e) /\ a \in 0 .. e.last_byte /\ b \in -1 .. e.last_byte) => InRange(f)
<1> DEFINE f == SetMarkers(e, a, b)
<1>1. IsEdit(e) /\ Plain(e)
  BY DEF Sound
<1>2. /\ IsEdit(f) /\ Beside(e, f)
      /\ f.start_display = e.start_display /\ f.start_line = e.start_line
      /\ f.prev_col = e.prev_col
      /\ f.mark1 = a /\ f.mark2 = b /\ f.stack = e.stack /\ f.stack_disable = e.stack_disable
  BY <1>1, MarkersIs
<1> HIDE DEF f
<1>3. f.last_byte = e.last_byte /\ f.curs1 = e.curs1 /\ f.curs2 = e.curs2
  BY <1>2 DEF Beside, SameBytes
<1>4. Plain(f)
  BY <1>1, <1>2, <1>3 DEF Plain
<1>5. Sound(f) /\ Text(f) = Text(e) /\ Snapshot(f) = Snapshot(e) /\ (Windowed(e) => Windowed(f))
  BY <1>2, <1>4, BesideIs
<1>6. (a \in 0 .. e.last_byte /\ b \in -1 .. e.last_byte) => Markable(f)
  BY <1>2, <1>3 DEF Markable
<1> QED BY <1>2, <1>3, <1>5, <1>6 DEF InRange, f

LEMMA MarkBack ==
  ASSUME NEW e, Rewinds(e), NEW a \in Int, a >= MARK_1 - 2, a < KEY_PRESS
  PROVE  /\ Rewinds(Reversed(e, a)) /\ Reversed(e, a).stack = e.stack
         /\ Snapshot(Reversed(e, a)) = Snapshot(e)
         /\ (InRange(e) /\ (a - MARK_1 \in 0 .. e.last_byte \/ a - MARK_2 \in -1 .. e.last_byte))
              => InRange(Reversed(e, a))
<1> DEFINE f == Reversed(e, a)
<1>1. a # CURS_RIGHT /\ a # CURS_LEFT /\ a # BACKSPACE /\ a # DELCHAR
      /\ a \notin 0 .. 255 /\ a \notin 256 .. 511
  BY DEF CURS_RIGHT, CURS_LEFT, BACKSPACE, DELCHAR, MARK_1
<1>2. Sound(e) /\ IsEdit(e) /\ Plain(e) /\ e.last_byte \in Nat /\ e.last_byte <= SIZE_LIMIT
  BY SnapshotIs DEF Rewinds, Sound, Plain
<1>9. e.mark1 \in Int /\ e.mark1 >= -2 /\ e.mark2 \in Int /\ e.mark2 >= -2
      /\ (InRange(e) => e.mark1 \in 0 .. e.last_byte /\ e.mark2 \in -1 .. e.last_byte /\ Windowed(e))
  BY <1>2 DEF Plain, InRange, Markable
<1>3. SIZE_LIMIT < MARK_2 - MARK_1 - 2 /\ SIZE_LIMIT \in Int
  BY EditBufferAssumption, SizeLimitIs
<1>4. CASE a < MARK_2 - 2
  <2>1. f = [e EXCEPT !.mark1 = a - MARK_1]
    BY <1>1, <1>4 DEF Reversed, MARK_1, MARK_2, KEY_PRESS
  <2>2. f = SetMarkers(e, a - MARK_1, e.mark2)
    BY <2>1, <1>2 DEF SetMarkers, IsEdit, Fields
  <2>3. a - MARK_1 \in Int /\ a - MARK_1 >= -2
    BY DEF MARK_1
  <2>4. ~ (a - MARK_2 \in -1 .. e.last_byte)
    BY <1>4, <1>2 DEF MARK_2
  <2> HIDE DEF f
  <2>5. /\ Sound(f) /\ Snapshot(f) = Snapshot(e)
        /\ f.stack = e.stack /\ f.stack_disable = e.stack_disable
        /\ (Windowed(e) /\ a - MARK_1 \in 0 .. e.last_byte /\ e.mark2 \in -1 .. e.last_byte) => InRange(f)
    BY <2>2, <2>3, <1>2, <1>9, MarkersSound
  <2>6. Rewinds(f)
    BY <2>5 DEF Rewinds
  <2> QED BY <2>4, <2>5, <2>6, <1>9 DEF f
<1>5. CASE a >= MARK_2 - 2
  <2>1. f = [e EXCEPT !.mark2 = a - MARK_2]
    BY <1>1, <1>5 DEF Reversed, MARK_1, MARK_2, KEY_PRESS
  <2>2. f = SetMarkers(e, e.mark1, a - MARK_2)
    BY <2>1, <1>2 DEF SetMarkers, IsEdit, Fields
  <2>3. a - MARK_2 \in Int /\ a - MARK_2 >= -2
    BY <1>5 DEF MARK_2
  <2>4. ~ (a - MARK_1 \in 0 .. e.last_byte)
    BY <1>5, <1>2, <1>3 DEF MARK_2, MARK_1
  <2> HIDE DEF f
  <2>5. /\ Sound(f) /\ Snapshot(f) = Snapshot(e)
        /\ f.stack = e.stack /\ f.stack_disable = e.stack_disable
        /\ (Windowed(e) /\ e.mark1 \in 0 .. e.last_byte /\ a - MARK_2 \in -1 .. e.last_byte) => InRange(f)
    BY <2>2, <2>3, <1>2, <1>9, MarkersSound
  <2>6. Rewinds(f)
    BY <2>5 DEF Rewinds
  <2> QED BY <2>4, <2>5, <2>6, <1>9 DEF f
<1>6. a < MARK_2 - 2 \/ a >= MARK_2 - 2
  BY DEF MARK_2
<1> QED BY <1>4, <1>5, <1>6

-----------------------------------------------------------------------------
(* Reversing an action takes one step back.                                *)
LEMMA ByteBehind == \A a \in 256 .. 511 : a - 256 \in Byte
BY DEF Byte

LEMMA ReversedIs ==
  ASSUME NEW e, Rewinds(e), NEW a, Code(a), a < KEY_PRESS
  PROVE  /\ Rewinds(Reversed(e, a)) /\ Entries(Reversed(e, a).stack) = Entries(e.stack)
         /\ \A y : Undone(a, Snapshot(e), y) =>
                    Snapshot(Reversed(e, a)) = y /\ (InRange(e) => InRange(Reversed(e, a)))
<1>1. Sound(e)
  BY DEF Rewinds
<1>2. /\ Snapshot(e) = <<Text(e), e.curs1>> /\ Len(Text(e)) = e.last_byte /\ e.last_byte \in Nat
      /\ e.curs1 \in Nat
  BY <1>1, SnapshotIs
<1>3. a \in Int
  BY CodeIs
<1> DEFINE x == Snapshot(e)
<1>4. x[1] = Text(e) /\ x[2] = e.curs1 /\ Len(x[1]) = e.last_byte
  BY <1>2
<1> HIDE DEF x
<1>10. CASE a = CURS_RIGHT
  <2>10. /\ a = CURS_RIGHT
         /\ ~ (a = CURS_LEFT)
         /\ ~ (a = BACKSPACE)
         /\ ~ (a = DELCHAR)
         /\ ~ (a \in 0 .. 255)
         /\ ~ (a \in 256 .. 511)
         /\ ~ ((a >= MARK_1 - 2 /\ a < MARK_2 - 2))
         /\ ~ ((a >= MARK_2 - 2 /\ a < KEY_PRESS))
    BY <1>10, <1>3, SMT DEF CURS_LEFT, CURS_RIGHT, DELCHAR, BACKSPACE, MARK_1, MARK_2, KEY_PRESS, Byte
  <2>1. Reversed(e, a) = Right(e)
    BY <1>10, <2>10 DEF Reversed, Byte
  <2>2. /\ Rewound(e, Right(e))
        /\ e.curs1 < e.last_byte => Snapshot(Right(e)) = <<Text(e), e.curs1 + 1>>
    BY RightRewound
  <2>3. ASSUME NEW y, Undone(a, x, y)
        PROVE  e.curs1 < e.last_byte /\ y = <<Text(e), e.curs1 + 1>>
    <3>1. /\ a = CURS_RIGHT
           /\ ~ (a = CURS_LEFT)
           /\ ~ (a = BACKSPACE)
           /\ ~ (a = DELCHAR)
           /\ ~ (a \in Byte)
           /\ ~ (a - 256 \in Byte)
           /\ ~ ((a - MARK_1 \in 0 .. Len(x[1])))
           /\ ~ ((a - MARK_2 \in -1 .. Len(x[1])))
      BY <1>10, <1>2, <1>3, <1>4, SMT DEF CURS_LEFT, CURS_RIGHT, DELCHAR, BACKSPACE, MARK_1, MARK_2, KEY_PRESS, Byte
    <3> QED BY <3>1, <1>4, <2>3 DEF Undone
  <2> QED BY <2>1, <2>2, <2>3 DEF x, Rewound
<1>11. CASE a = CURS_LEFT
  <2>10. /\ ~ (a = CURS_RIGHT)
         /\ a = CURS_LEFT
         /\ ~ (a = BACKSPACE)
         /\ ~ (a = DELCHAR)
         /\ ~ (a \in 0 .. 255)
         /\ ~ (a \in 256 .. 511)
         /\ ~ ((a >= MARK_1 - 2 /\ a < MARK_2 - 2))
         /\ ~ ((a >= MARK_2 - 2 /\ a < KEY_PRESS))
    BY <1>11, <1>3, SMT DEF CURS_LEFT, CURS_RIGHT, DELCHAR, BACKSPACE, MARK_1, MARK_2, KEY_PRESS, Byte
  <2>1. Reversed(e, a) = Left(e)
    BY <1>11, <2>10 DEF Reversed, Byte
  <2>2. /\ Rewound(e, Left(e))
        /\ e.curs1 > 0 => Snapshot(Left(e)) = <<Text(e), e.curs1 - 1>>
    BY LeftRewound
  <2>3. ASSUME NEW y, Undone(a, x, y)
        PROVE  e.curs1 > 0 /\ y = <<Text(e), e.curs1 - 1>>
    <3>1. /\ ~ (a = CURS_RIGHT)
           /\ a = CURS_LEFT
           /\ ~ (a = BACKSPACE)
           /\ ~ (a = DELCHAR)
           /\ ~ (a \in Byte)
           /\ ~ (a - 256 \in Byte)
           /\ ~ ((a - MARK_1 \in 0 .. Len(x[1])))
           /\ ~ ((a - MARK_2 \in -1 .. Len(x[1])))
      BY <1>11, <1>2, <1>3, <1>4, SMT DEF CURS_LEFT, CURS_RIGHT, DELCHAR, BACKSPACE, MARK_1, MARK_2, KEY_PRESS, Byte
    <3> QED BY <3>1, <1>4, <2>3 DEF Undone
  <2> QED BY <2>1, <2>2, <2>3 DEF x, Rewound
<1>12. CASE a = BACKSPACE
  <2>10. /\ ~ (a = CURS_RIGHT)
         /\ ~ (a = CURS_LEFT)
         /\ a = BACKSPACE
         /\ ~ (a = DELCHAR)
         /\ ~ (a \in 0 .. 255)
         /\ ~ (a \in 256 .. 511)
         /\ ~ ((a >= MARK_1 - 2 /\ a < MARK_2 - 2))
         /\ ~ ((a >= MARK_2 - 2 /\ a < KEY_PRESS))
    BY <1>12, <1>3, SMT DEF CURS_LEFT, CURS_RIGHT, DELCHAR, BACKSPACE, MARK_1, MARK_2, KEY_PRESS, Byte
  <2>1. Reversed(e, a) = Backspace(e)
    BY <1>12, <2>10 DEF Reversed, Byte
  <2>2. /\ Rewound(e, Backspace(e))
        /\ e.curs1 > 0 => Snapshot(Backspace(e)) = <<Removed(Text(e), e.curs1 - 1), e.curs1 - 1>>
    BY BackspaceRewound
  <2>3. ASSUME NEW y, Undone(a, x, y)
        PROVE  e.curs1 > 0 /\ y = <<Removed(Text(e), e.curs1 - 1), e.curs1 - 1>>
    <3>1. /\ ~ (a = CURS_RIGHT)
           /\ ~ (a = CURS_LEFT)
           /\ a = BACKSPACE
           /\ ~ (a = DELCHAR)
           /\ ~ (a \in Byte)
           /\ ~ (a - 256 \in Byte)
           /\ ~ ((a - MARK_1 \in 0 .. Len(x[1])))
           /\ ~ ((a - MARK_2 \in -1 .. Len(x[1])))
      BY <1>12, <1>2, <1>3, <1>4, SMT DEF CURS_LEFT, CURS_RIGHT, DELCHAR, BACKSPACE, MARK_1, MARK_2, KEY_PRESS, Byte
    <3> QED BY <3>1, <1>4, <2>3 DEF Undone
  <2> QED BY <2>1, <2>2, <2>3 DEF x, Rewound
<1>13. CASE a = DELCHAR
  <2>10. /\ ~ (a = CURS_RIGHT)
         /\ ~ (a = CURS_LEFT)
         /\ ~ (a = BACKSPACE)
         /\ a = DELCHAR
         /\ ~ (a \in 0 .. 255)
         /\ ~ (a \in 256 .. 511)
         /\ ~ ((a >= MARK_1 - 2 /\ a < MARK_2 - 2))
         /\ ~ ((a >= MARK_2 - 2 /\ a < KEY_PRESS))
    BY <1>13, <1>3, SMT DEF CURS_LEFT, CURS_RIGHT, DELCHAR, BACKSPACE, MARK_1, MARK_2, KEY_PRESS, Byte
  <2>1. Reversed(e, a) = Delete(e)
    BY <1>13, <2>10 DEF Reversed, Byte
  <2>2. /\ Rewound(e, Delete(e))
        /\ e.curs1 < e.last_byte => Snapshot(Delete(e)) = <<Removed(Text(e), e.curs1), e.curs1>>
    BY DeleteRewound
  <2>3. ASSUME NEW y, Undone(a, x, y)
        PROVE  e.curs1 < e.last_byte /\ y = <<Removed(Text(e), e.curs1), e.curs1>>
    <3>1. /\ ~ (a = CURS_RIGHT)
           /\ ~ (a = CURS_LEFT)
           /\ ~ (a = BACKSPACE)
           /\ a = DELCHAR
           /\ ~ (a \in Byte)
           /\ ~ (a - 256 \in Byte)
           /\ ~ ((a - MARK_1 \in 0 .. Len(x[1])))
           /\ ~ ((a - MARK_2 \in -1 .. Len(x[1])))
      BY <1>13, <1>2, <1>3, <1>4, SMT DEF CURS_LEFT, CURS_RIGHT, DELCHAR, BACKSPACE, MARK_1, MARK_2, KEY_PRESS, Byte
    <3> QED BY <3>1, <1>4, <2>3 DEF Undone
  <2> QED BY <2>1, <2>2, <2>3 DEF x, Rewound
<1>14. CASE a \in Byte
  <2>10. /\ ~ (a = CURS_RIGHT)
         /\ ~ (a = CURS_LEFT)
         /\ ~ (a = BACKSPACE)
         /\ ~ (a = DELCHAR)
         /\ a \in 0 .. 255
         /\ ~ (a \in 256 .. 511)
         /\ ~ ((a >= MARK_1 - 2 /\ a < MARK_2 - 2))
         /\ ~ ((a >= MARK_2 - 2 /\ a < KEY_PRESS))
    BY <1>14, <1>3, SMT DEF CURS_LEFT, CURS_RIGHT, DELCHAR, BACKSPACE, MARK_1, MARK_2, KEY_PRESS, Byte
  <2>1. Reversed(e, a) = Insert(e, a)
    BY <1>14, <2>10 DEF Reversed, Byte
  <2>2. /\ Rewound(e, Insert(e, a))
        /\ e.last_byte < SIZE_LIMIT => Snapshot(Insert(e, a)) = <<Inserted(Text(e), e.curs1, a), e.curs1 + 1>>
    BY <1>14, InsertRewound
  <2>3. ASSUME NEW y, Undone(a, x, y)
        PROVE  e.last_byte < SIZE_LIMIT /\ y = <<Inserted(Text(e), e.curs1, a), e.curs1 + 1>>
    <3>1. /\ ~ (a = CURS_RIGHT)
           /\ ~ (a = CURS_LEFT)
           /\ ~ (a = BACKSPACE)
           /\ ~ (a = DELCHAR)
           /\ a \in Byte
           /\ ~ (a - 256 \in Byte)
           /\ ~ ((a - MARK_1 \in 0 .. Len(x[1])))
           /\ ~ ((a - MARK_2 \in -1 .. Len(x[1])))
      BY <1>14, <1>2, <1>3, <1>4, SMT DEF CURS_LEFT, CURS_RIGHT, DELCHAR, BACKSPACE, MARK_1, MARK_2, KEY_PRESS, Byte
    <3> QED BY <3>1, <1>4, <2>3 DEF Undone
  <2> QED BY <2>1, <2>2, <2>3 DEF x, Rewound
<1>15. CASE a \in 256 .. 511
  <2>10. /\ ~ (a = CURS_RIGHT)
         /\ ~ (a = CURS_LEFT)
         /\ ~ (a = BACKSPACE)
         /\ ~ (a = DELCHAR)
         /\ ~ (a \in 0 .. 255)
         /\ a \in 256 .. 511
         /\ ~ ((a >= MARK_1 - 2 /\ a < MARK_2 - 2))
         /\ ~ ((a >= MARK_2 - 2 /\ a < KEY_PRESS))
    BY <1>15, <1>3, SMT DEF CURS_LEFT, CURS_RIGHT, DELCHAR, BACKSPACE, MARK_1, MARK_2, KEY_PRESS, Byte
  <2>1. Reversed(e, a) = InsertAhead(e, a - 256)
    BY <1>15, <2>10 DEF Reversed, Byte
  <2>2. /\ Rewound(e, InsertAhead(e, a - 256))
        /\ e.last_byte < SIZE_LIMIT => Snapshot(InsertAhead(e, a - 256)) = <<Inserted(Text(e), e.curs1, a - 256), e.curs1>>
    BY <1>15, ByteBehind, InsertAheadRewound
  <2>3. ASSUME NEW y, Undone(a, x, y)
        PROVE  e.last_byte < SIZE_LIMIT /\ y = <<Inserted(Text(e), e.curs1, a - 256), e.curs1>>
    <3>1. /\ ~ (a = CURS_RIGHT)
           /\ ~ (a = CURS_LEFT)
           /\ ~ (a = BACKSPACE)
           /\ ~ (a = DELCHAR)
           /\ ~ (a \in Byte)
           /\ a - 256 \in Byte
           /\ ~ ((a - MARK_1 \in 0 .. Len(x[1])))
           /\ ~ ((a - MARK_2 \in -1 .. Len(x[1])))
      BY <1>15, <1>2, <1>3, <1>4, SMT DEF CURS_LEFT, CURS_RIGHT, DELCHAR, BACKSPACE, MARK_1, MARK_2, KEY_PRESS, Byte
    <3> QED BY <3>1, <1>4, <2>3 DEF Undone
  <2> QED BY <2>1, <2>2, <2>3 DEF x, Rewound
<1>16. CASE a >= MARK_1 - 2
  <2>1. /\ Rewinds(Reversed(e, a)) /\ Reversed(e, a).stack = e.stack
        /\ Snapshot(Reversed(e, a)) = Snapshot(e)
        /\ (InRange(e) /\ (a - MARK_1 \in 0 .. e.last_byte \/ a - MARK_2 \in -1 .. e.last_byte))
              => InRange(Reversed(e, a))
    BY <1>3, <1>16, MarkBack
  <2>2. ASSUME NEW y, Undone(a, x, y)
        PROVE  y = x /\ (a - MARK_1 \in 0 .. e.last_byte \/ a - MARK_2 \in -1 .. e.last_byte)
    <3>1. a # CURS_RIGHT /\ a # CURS_LEFT /\ a # BACKSPACE /\ a # DELCHAR
          /\ a \notin Byte /\ a - 256 \notin Byte
      BY <1>16, <1>3, SMT DEF CURS_LEFT, CURS_RIGHT, DELCHAR, BACKSPACE, MARK_1, MARK_2, KEY_PRESS, Byte
    <3> QED BY <3>1, <1>4, <2>2 DEF Undone
  <2> QED BY <2>1, <2>2 DEF x, Rewound
<1>17. a \in {CURS_LEFT, CURS_RIGHT, DELCHAR, BACKSPACE} \/ a \in Byte \/ a \in 256 .. 511 \/ a >= MARK_1 - 2
  BY DEF Code, Byte
<1> QED BY <1>10, <1>11, <1>12, <1>13, <1>14, <1>15, <1>16, <1>17

-----------------------------------------------------------------------------
(* A routine n times.                                                      *)
Runs(h, op, n, e) == h[0] = e /\ \A k \in 1 .. n : h[k] = Once(op, h[k - 1])

LEMMA TimesRuns ==
  ASSUME NEW op, NEW n \in Nat, NEW e
  PROVE  \E h : Runs(h, op, n, e) /\ Times(op, n, e) = h[n]
<1> DEFINE F(h, m) == h = [k \in 0 .. m |-> IF k = 0 THEN e ELSE Once(op, h[k - 1])]
           T == {m \in 0 .. n : \E h : F(h, m)}
<1>1. 0 \in T
  <2> DEFINE h == [k \in 0 .. 0 |-> e]
  <2>1. F(h, 0)
    <3>1. \A k \in 0 .. 0 : k = 0
      OBVIOUS
    <3> QED BY <3>1
  <2> HIDE DEF F, h
  <2> QED BY <2>1
<1>2. ASSUME NEW m \in 0 .. n - 1, m \in T PROVE m + 1 \in T
  <2>1. PICK g : F(g, m)
    BY <1>2
  <2> DEFINE h == [k \in 0 .. m + 1 |-> IF k = 0 THEN e ELSE Once(op, g[k - 1])]
  <2>2. \A k \in 0 .. m : h[k] = g[k]
    <3> SUFFICES ASSUME NEW k \in 0 .. m PROVE h[k] = g[k]
      OBVIOUS
    <3>1. g[k] = IF k = 0 THEN e ELSE Once(op, g[k - 1])
      BY <2>1
    <3>2. k \in 0 .. m + 1
      OBVIOUS
    <3>3. h[k] = IF k = 0 THEN e ELSE Once(op, g[k - 1])
      BY <3>2
    <3> QED BY <3>1, <3>3
  <2>3. \A k \in 0 .. m + 1 : (IF k = 0 THEN e ELSE Once(op, h[k - 1]))
                            = IF k = 0 THEN e ELSE Once(op, g[k - 1])
    <3> SUFFICES ASSUME NEW k \in 0 .. m + 1, k # 0 PROVE h[k - 1] = g[k - 1]
      BY SMTT(60)
    <3>1. k - 1 \in 0 .. m
      OBVIOUS
    <3> HIDE DEF h
    <3> QED BY <3>1, <2>2
  <2>4. F(h, m + 1)
    BY <2>3
  <2>5. m + 1 \in 0 .. n
    OBVIOUS
  <2> HIDE DEF F, h
  <2> QED BY <2>4, <2>5
<1>3. n \in T
  <2>1. \A m \in 0 .. n - 1 : m \in T => m + 1 \in T
    BY <1>2
  <2> HIDE DEF T
  <2>2. \A k \in 0 .. n : k \in T
    BY <1>1, <2>1, UpTo
  <2> QED BY <2>2
<1> DEFINE h == CHOOSE h : F(h, n)
<1>4. F(h, n)
  BY <1>3
<1>5. Times(op, n, e) = h[n]
  BY DEF Times
<1> HIDE DEF h
<1>6. Runs(h, op, n, e)
  BY <1>4 DEF Runs
<1> QED BY <1>5, <1>6

-----------------------------------------------------------------------------
(* Moves of the cursor.                                                    *)
LEMMA OnceKept ==
  ASSUME NEW e, NEW all \in Seq(Snaps), NEW strict \in BOOLEAN, Kept(e, all, strict),
         NEW op \in {"left", "right", "delete", "backspace"}
  PROVE  Kept(Once(op, e), all, strict)
<1>1. CASE op = "left"
  <2>1. Once(op, e) = Left(e)
    BY <1>1 DEF Once
  <2> QED BY <2>1, LeftKept
<1>2. CASE op = "right"
  <2>1. Once(op, e) = Right(e)
    BY <1>2 DEF Once
  <2> QED BY <2>1, RightKept
<1>3. CASE op = "delete"
  <2>1. Once(op, e) = Delete(e)
    BY <1>3 DEF Once
  <2> QED BY <2>1, DeleteKept
<1>4. CASE op = "backspace"
  <2>1. Once(op, e) = Backspace(e)
    BY <1>4 DEF Once
  <2> QED BY <2>1, BackspaceKept
<1> QED BY <1>1, <1>2, <1>3, <1>4

LEMMA TimesKept ==
  ASSUME NEW e, NEW all \in Seq(Snaps), NEW strict \in BOOLEAN, Kept(e, all, strict),
         NEW op \in {"left", "right", "delete", "backspace"}, NEW n \in Nat
  PROVE  Kept(Times(op, n, e), all, strict)
<1>1. PICK h : Runs(h, op, n, e) /\ Times(op, n, e) = h[n]
  BY TimesRuns
<1> DEFINE T == {k \in 0 .. n : Kept(h[k], all, strict)}
<1>2. 0 \in T
  BY <1>1 DEF Runs
<1>3. ASSUME NEW k \in 0 .. n - 1, k \in T PROVE k + 1 \in T
  <2>1. k + 1 \in 1 .. n /\ k + 1 \in 0 .. n /\ (k + 1) - 1 = k
    OBVIOUS
  <2>2. h[k + 1] = Once(op, h[k])
    BY <1>1, <2>1 DEF Runs
  <2>3. Kept(h[k], all, strict)
    BY <1>3
  <2>4. Kept(Once(op, h[k]), all, strict)
    BY <2>3, OnceKept
  <2> QED BY <2>1, <2>2, <2>4
<1>4. \A k \in 0 .. n : k \in T
  <2>1. \A k \in 0 .. n - 1 : k \in T => k + 1 \in T
    BY <1>3
  <2> HIDE DEF T
  <2> QED BY <1>2, <2>1, UpTo
<1>5. n \in T
  BY <1>4
<1> QED BY <1>1, <1>5

Alike(e, f) ==
  /\ f.mark1 = e.mark1 /\ f.mark2 = e.mark2 /\ f.last_byte = e.last_byte
  /\ f.start_display = e.start_display
  /\ Text(f) = Text(e)

LEMMA LeftMoves ==
  ASSUME NEW e, Sound(e), e.curs1 # 0
  PROVE  Left(e).curs1 = e.curs1 - 1 /\ Alike(e, Left(e))
<1>1. IsEdit(e) /\ Tabled(e)
  BY DEF Sound
<1>2. e.curs1 \in Nat \ {0}
  BY <1>1 DEF Tabled
<1>3. Text(Left(e)) = Text(e)
  BY <1>1, LeftText
<1>4. /\ Left(e).curs1 = e.curs1 - 1 /\ Left(e).last_byte = e.last_byte
      /\ Left(e).mark1 = e.mark1 /\ Left(e).mark2 = e.mark2
      /\ Left(e).start_display = e.start_display
  BY <1>1, <1>2, LeftIs
<1> QED BY <1>3, <1>4 DEF Alike

LEMMA TimesLeft ==
  ASSUME NEW e, NEW all \in Seq(Snaps), NEW strict \in BOOLEAN, Kept(e, all, strict),
         NEW n \in Nat, n <= e.curs1
  PROVE  LET f == Times("left", n, e)
         IN Kept(f, all, strict) /\ f.curs1 = e.curs1 - n /\ Alike(e, f)
<1>1. PICK h : Runs(h, "left", n, e) /\ Times("left", n, e) = h[n]
  BY TimesRuns
<1>9. Sound(e) /\ e.curs1 \in Nat /\ e.curs2 \in Nat /\ e.last_byte = e.curs1 + e.curs2
  BY SnapshotIs DEF Kept, Sound, Tabled
<1> DEFINE G(f, k) == Kept(f, all, strict) /\ f.curs1 = e.curs1 - k /\ Alike(e, f)
           T == {k \in 0 .. n : G(h[k], k)}
<1>2. 0 \in T
  <2>1. h[0] = e
    BY <1>1 DEF Runs
  <2>2. Alike(e, e)
    BY DEF Alike
  <2> QED BY <2>1, <2>2, <1>9
<1>3. ASSUME NEW k \in 0 .. n - 1, k \in T PROVE k + 1 \in T
  <2>1. k + 1 \in 1 .. n /\ k + 1 \in 0 .. n /\ (k + 1) - 1 = k
    OBVIOUS
  <2> DEFINE f == h[k]
  <2>2. h[k + 1] = Once("left", f)
    BY <1>1, <2>1 DEF Runs
  <2>3. G(f, k)
    BY <1>3
  <2> HIDE DEF f
  <2>4. Once("left", f) = Left(f)
    BY DEF Once
  <2>5. Kept(Left(f), all, strict)
    BY <2>3, LeftKept
  <2>6. Sound(f) /\ f.last_byte = e.last_byte /\ f.curs2 = f.last_byte - f.curs1
    BY <2>3, SnapshotIs DEF Kept, Alike
  <2>7. f.curs1 # 0
    BY <2>3, <2>6, <1>9
  <2>8. Left(f).curs1 = f.curs1 - 1 /\ Alike(f, Left(f))
    BY <2>6, <2>7, LeftMoves
  <2>9. Left(f).curs1 = e.curs1 - (k + 1)
    BY <2>8, <2>3, <1>9
  <2>10. Alike(e, Left(f))
    BY <2>3, <2>8 DEF Alike
  <2> QED BY <2>1, <2>2, <2>4, <2>5, <2>9, <2>10
<1>4. \A k \in 0 .. n : k \in T
  <2>1. \A k \in 0 .. n - 1 : k \in T => k + 1 \in T
    BY <1>3
  <2> HIDE DEF T
  <2> QED BY <1>2, <2>1, UpTo
<1>5. n \in T
  BY <1>4
<1> QED BY <1>1, <1>5

LEMMA RightMoves ==
  ASSUME NEW e, Sound(e), e.curs2 # 0
  PROVE  Right(e).curs1 = e.curs1 + 1 /\ Alike(e, Right(e))
<1>1. IsEdit(e) /\ Tabled(e)
  BY DEF Sound
<1>2. e.curs2 \in Nat \ {0}
  BY <1>1 DEF Tabled
<1>3. Text(Right(e)) = Text(e)
  BY <1>1, RightText
<1>4. /\ Right(e).curs1 = e.curs1 + 1 /\ Right(e).last_byte = e.last_byte
      /\ Right(e).mark1 = e.mark1 /\ Right(e).mark2 = e.mark2
      /\ Right(e).start_display = e.start_display
  BY <1>1, <1>2, RightIs
<1> QED BY <1>3, <1>4 DEF Alike

LEMMA TimesRight ==
  ASSUME NEW e, NEW all \in Seq(Snaps), NEW strict \in BOOLEAN, Kept(e, all, strict),
         NEW n \in Nat, n <= e.curs2
  PROVE  LET f == Times("right", n, e)
         IN Kept(f, all, strict) /\ f.curs1 = e.curs1 + n /\ Alike(e, f)
<1>1. PICK h : Runs(h, "right", n, e) /\ Times("right", n, e) = h[n]
  BY TimesRuns
<1>9. Sound(e) /\ e.curs1 \in Nat /\ e.curs2 \in Nat /\ e.last_byte = e.curs1 + e.curs2
  BY SnapshotIs DEF Kept, Sound, Tabled
<1> DEFINE G(f, k) == Kept(f, all, strict) /\ f.curs1 = e.curs1 + k /\ Alike(e, f)
           T == {k \in 0 .. n : G(h[k], k)}
<1>2. 0 \in T
  <2>1. h[0] = e
    BY <1>1 DEF Runs
  <2>2. Alike(e, e)
    BY DEF Alike
  <2> QED BY <2>1, <2>2, <1>9
<1>3. ASSUME NEW k \in 0 .. n - 1, k \in T PROVE k + 1 \in T
  <2>1. k + 1 \in 1 .. n /\ k + 1 \in 0 .. n /\ (k + 1) - 1 = k
    OBVIOUS
  <2> DEFINE f == h[k]
  <2>2. h[k + 1] = Once("right", f)
    BY <1>1, <2>1 DEF Runs
  <2>3. G(f, k)
    BY <1>3
  <2> HIDE DEF f
  <2>4. Once("right", f) = Right(f)
    BY DEF Once
  <2>5. Kept(Right(f), all, strict)
    BY <2>3, RightKept
  <2>6. Sound(f) /\ f.last_byte = e.last_byte /\ f.curs2 = f.last_byte - f.curs1
    BY <2>3, SnapshotIs DEF Kept, Alike
  <2>7. f.curs2 # 0
    BY <2>3, <2>6, <1>9
  <2>8. Right(f).curs1 = f.curs1 + 1 /\ Alike(f, Right(f))
    BY <2>6, <2>7, RightMoves
  <2>9. Right(f).curs1 = e.curs1 + (k + 1)
    BY <2>8, <2>3, <1>9, SMTT(60)
  <2>10. Alike(e, Right(f))
    BY <2>3, <2>8 DEF Alike
  <2> QED BY <2>1, <2>2, <2>4, <2>5, <2>9, <2>10
<1>4. \A k \in 0 .. n : k \in T
  <2>1. \A k \in 0 .. n - 1 : k \in T => k + 1 \in T
    BY <1>3
  <2> HIDE DEF T
  <2> QED BY <1>2, <2>1, UpTo
<1>5. n \in T
  BY <1>4
<1> QED BY <1>1, <1>5

LEMMA MoveToIs ==
  ASSUME NEW e, NEW all \in Seq(Snaps), NEW strict \in BOOLEAN, Kept(e, all, strict),
         NEW p \in Int
  PROVE  LET f == MoveTo(e, p)
         IN /\ Kept(f, all, strict)
            /\ p \in 0 .. e.last_byte => f.curs1 = p /\ Alike(e, f)
<1>1. Sound(e) /\ e.curs1 \in Nat /\ e.curs2 \in Nat /\ e.curs2 = e.last_byte - e.curs1
      /\ e.last_byte \in Nat
  BY SnapshotIs DEF Kept
<1>2. CASE p - e.curs1 < 0
  <2> DEFINE n == - (p - e.curs1)
  <2>1. MoveTo(e, p) = Times("left", n, e)
    BY <1>2 DEF MoveTo, Move
  <2>2. n \in Nat /\ (p \in 0 .. e.last_byte => n <= e.curs1) /\ e.curs1 - n = p
    BY <1>1, <1>2
  <2> HIDE DEF n
  <2>3. Kept(Times("left", n, e), all, strict)
    BY <2>2, TimesKept
  <2>4. n <= e.curs1 => Times("left", n, e).curs1 = e.curs1 - n /\ Alike(e, Times("left", n, e))
    BY <2>2, TimesLeft
  <2> QED BY <2>1, <2>2, <2>3, <2>4
<1>3. CASE ~ (p - e.curs1 < 0)
  <2> DEFINE n == p - e.curs1
  <2>1. MoveTo(e, p) = Times("right", n, e)
    BY <1>3 DEF MoveTo, Move
  <2>2. n \in Nat /\ (p \in 0 .. e.last_byte => n <= e.curs2) /\ e.curs1 + n = p
    BY <1>1, <1>3
  <2> HIDE DEF n
  <2>3. Kept(Times("right", n, e), all, strict)
    BY <2>2, TimesKept
  <2>4. n <= e.curs2 => Times("right", n, e).curs1 = e.curs1 + n /\ Alike(e, Times("right", n, e))
    BY <2>2, TimesRight
  <2> QED BY <2>1, <2>2, <2>3, <2>4
<1> QED BY <1>2, <1>3

-----------------------------------------------------------------------------
(* A run of bytes taken out of a text.                                     *)
Cut(t, i, n) == [j \in 1 .. Len(t) - n |-> IF j <= i THEN t[j] ELSE t[j + n]]

LEMMA CutIs ==
  \A t \in Seq(Byte) : \A i \in 0 .. Len(t) : \A n \in 0 .. Len(t) - i :
     /\ Cut(t, i, n) \in Seq(Byte) /\ Len(Cut(t, i, n)) = Len(t) - n
     /\ \A j \in 1 .. Len(t) - n : Cut(t, i, n)[j] = IF j <= i THEN t[j] ELSE t[j + n]
<1> SUFFICES ASSUME NEW t \in Seq(Byte), NEW i \in 0 .. Len(t), NEW n \in 0 .. Len(t) - i
             PROVE  /\ Cut(t, i, n) \in Seq(Byte) /\ Len(Cut(t, i, n)) = Len(t) - n
                    /\ \A j \in 1 .. Len(t) - n :
                         Cut(t, i, n)[j] = IF j <= i THEN t[j] ELSE t[j + n]
  OBVIOUS
<1>1. Len(t) \in Nat /\ Len(t) - n \in Nat
  OBVIOUS
<1>2. \A j \in 1 .. Len(t) - n : (IF j <= i THEN t[j] ELSE t[j + n]) \in Byte
  <2> SUFFICES ASSUME NEW j \in 1 .. Len(t) - n
               PROVE  (IF j <= i THEN t[j] ELSE t[j + n]) \in Byte
    OBVIOUS
  <2>1. j \in 1 .. Len(t) /\ j + n \in 1 .. Len(t)
    BY <1>1
  <2> QED BY <2>1, SeqIs
<1>3. Cut(t, i, n) \in [1 .. Len(t) - n -> Byte]
  BY <1>2 DEF Cut
<1>4. Cut(t, i, n) \in Seq(Byte) /\ Len(Cut(t, i, n)) = Len(t) - n
  <2> DEFINE m == Len(t) - n
             c == Cut(t, i, n)
  <2>1. m \in Nat /\ c \in [1 .. m -> Byte]
    BY <1>1, <1>3
  <2> HIDE DEF m, c
  <2>2. c \in Seq(Byte) /\ Len(c) = m
    BY <2>1, BytesAre
  <2> QED BY <2>2 DEF m, c
<1> QED BY <1>4 DEF Cut

LEMMA CutNone ==
  ASSUME NEW t \in Seq(Byte), NEW i \in 0 .. Len(t)
  PROVE  Cut(t, i, 0) = t
<1>1. Len(t) \in Nat /\ 0 \in 0 .. Len(t) - i /\ Len(t) - 0 = Len(t)
  OBVIOUS
<1>2. /\ Cut(t, i, 0) \in Seq(Byte) /\ Len(Cut(t, i, 0)) = Len(t)
      /\ \A j \in 1 .. Len(t) : Cut(t, i, 0)[j] = IF j <= i THEN t[j] ELSE t[j + 0]
  BY <1>1, CutIs
<1>3. \A j \in 1 .. Len(t) : Cut(t, i, 0)[j] = t[j]
  BY <1>1, <1>2
<1> QED BY <1>2, <1>3, SameSeq

LEMMA CutAhead ==
  ASSUME NEW t \in Seq(Byte), NEW i \in 0 .. Len(t), NEW n \in Nat, i + n < Len(t)
  PROVE  Removed(Cut(t, i, n), i) = Cut(t, i, n + 1)
<1> DEFINE u == Cut(t, i, n)
           v == Cut(t, i, n + 1)
           r == Removed(u, i)
<1>1. Len(t) \in Nat /\ n \in 0 .. Len(t) - i /\ n + 1 \in 0 .. Len(t) - i
  OBVIOUS
<1>2. /\ u \in Seq(Byte) /\ Len(u) = Len(t) - n
      /\ \A j \in 1 .. Len(t) - n : u[j] = IF j <= i THEN t[j] ELSE t[j + n]
  BY <1>1, CutIs
<1>3. /\ v \in Seq(Byte) /\ Len(v) = Len(t) - (n + 1)
      /\ \A j \in 1 .. Len(t) - (n + 1) : v[j] = IF j <= i THEN t[j] ELSE t[j + (n + 1)]
  BY <1>1, CutIs
<1> HIDE DEF u, v
<1>4. i \in 0 .. Len(u) - 1
  BY <1>1, <1>2
<1>5. /\ r \in Seq(Byte) /\ Len(r) = Len(u) - 1
      /\ \A j \in 1 .. Len(u) - 1 : r[j] = IF j <= i THEN u[j] ELSE u[j + 1]
  BY <1>2, <1>4, RemovedIs
<1> HIDE DEF r
<1>6. Len(r) = Len(v)
  BY <1>1, <1>2, <1>3, <1>5
<1>7. ASSUME NEW j \in 1 .. Len(r) PROVE r[j] = v[j]
  <2>1. /\ j \in 1 .. Len(t) - n /\ j + 1 \in 1 .. Len(t) - n
        /\ j \in 1 .. Len(t) - (n + 1) /\ j \in 1 .. Len(u) - 1
        /\ (j + 1) + n = j + (n + 1)
    BY <1>1, <1>2, <1>5
  <2>2. CASE j <= i
    BY <2>1, <2>2, <1>2, <1>3, <1>5
  <2>3. CASE ~ (j <= i)
    <3>1. ~ (j + 1 <= i)
      BY <2>1, <2>3
    <3>2. r[j] = u[j + 1] /\ u[j + 1] = t[(j + 1) + n] /\ v[j] = t[j + (n + 1)]
      BY <2>1, <2>3, <3>1, <1>2, <1>3, <1>5
    <3> QED BY <3>2, <2>1
  <2> QED BY <2>2, <2>3
<1>8. r = v
  BY <1>3, <1>5, <1>6, <1>7, SameSeq
<1> QED BY <1>8 DEF r, v, u

LEMMA CutBehind ==
  ASSUME NEW t \in Seq(Byte), NEW i \in 0 .. Len(t), NEW n \in Nat, i + n <= Len(t), i > 0
  PROVE  Removed(Cut(t, i, n), i - 1) = Cut(t, i - 1, n + 1)
<1> DEFINE u == Cut(t, i, n)
           v == Cut(t, i - 1, n + 1)
           r == Removed(u, i - 1)
<1>1. Len(t) \in Nat /\ n \in 0 .. Len(t) - i /\ n + 1 \in 0 .. Len(t) - (i - 1) /\ i - 1 \in 0 .. Len(t)
  OBVIOUS
<1>2. /\ u \in Seq(Byte) /\ Len(u) = Len(t) - n
      /\ \A j \in 1 .. Len(t) - n : u[j] = IF j <= i THEN t[j] ELSE t[j + n]
  BY <1>1, CutIs
<1>3. /\ v \in Seq(Byte) /\ Len(v) = Len(t) - (n + 1)
      /\ \A j \in 1 .. Len(t) - (n + 1) : v[j] = IF j <= i - 1 THEN t[j] ELSE t[j + (n + 1)]
  BY <1>1, CutIs
<1> HIDE DEF u, v
<1>4. i - 1 \in 0 .. Len(u) - 1
  BY <1>1, <1>2
<1>5. /\ r \in Seq(Byte) /\ Len(r) = Len(u) - 1
      /\ \A j \in 1 .. Len(u) - 1 : r[j] = IF j <= i - 1 THEN u[j] ELSE u[j + 1]
  BY <1>2, <1>4, RemovedIs
<1> HIDE DEF r
<1>6. Len(r) = Len(v)
  BY <1>1, <1>2, <1>3, <1>5
<1>7. ASSUME NEW j \in 1 .. Len(r) PROVE r[j] = v[j]
  <2>1. /\ j \in 1 .. Len(t) - n /\ j + 1 \in 1 .. Len(t) - n
        /\ j \in 1 .. Len(t) - (n + 1) /\ j \in 1 .. Len(u) - 1
        /\ (j + 1) + n = j + (n + 1)
    BY <1>1, <1>2, <1>5
  <2>2. CASE j <= i - 1
    BY <2>1, <2>2, <1>2, <1>3, <1>5
  <2>3. CASE ~ (j <= i - 1)
    <3>1. ~ (j + 1 <= i)
      BY <2>1, <2>3
    <3>2. r[j] = u[j + 1] /\ u[j + 1] = t[(j + 1) + n] /\ v[j] = t[j + (n + 1)]
      BY <2>1, <2>3, <3>1, <1>2, <1>3, <1>5
    <3> QED BY <3>2, <2>1
  <2> QED BY <2>2, <2>3
<1>8. r = v
  BY <1>3, <1>5, <1>6, <1>7, SameSeq
<1> QED BY <1>8 DEF r, v, u

LEMMA DeleteTakes ==
  ASSUME NEW e, Sound(e), e.curs2 # 0
  PROVE  /\ Delete(e).curs1 = e.curs1 /\ Delete(e).last_byte = e.last_byte - 1
         /\ Text(Delete(e)) = Removed(Text(e), e.curs1)
<1>1. IsEdit(e) /\ Tabled(e)
  BY DEF Sound
<1>2. e.curs2 \in Nat \ {0} /\ e.last_byte \in Nat
  BY <1>1 DEF Tabled
<1>3. Text(Delete(e)) = Removed(Text(e), e.curs1)
  BY <1>1, DeleteText
<1>4. Delete(e).curs1 = e.curs1 /\ Delete(e).last_byte = e.last_byte + (-1)
  BY <1>1, <1>2, DeleteIs
<1> QED BY <1>2, <1>3, <1>4

LEMMA TimesDelete ==
  ASSUME NEW e, NEW all \in Seq(Snaps), NEW strict \in BOOLEAN, Kept(e, all, strict),
         NEW n \in Nat, n <= e.curs2
  PROVE  LET f == Times("delete", n, e)
         IN /\ Kept(f, all, strict) /\ f.curs1 = e.curs1 /\ f.last_byte = e.last_byte - n
            /\ Text(f) = Cut(Text(e), e.curs1, n)
<1>1. PICK h : Runs(h, "delete", n, e) /\ Times("delete", n, e) = h[n]
  BY TimesRuns
<1> DEFINE t == Text(e)
           i == e.curs1
<1>9. /\ i \in Nat /\ e.curs2 \in Nat /\ e.curs2 = e.last_byte - i /\ e.last_byte \in Nat
      /\ t \in Seq(Byte) /\ Len(t) = e.last_byte /\ i \in 0 .. Len(t)
  BY SnapshotIs DEF Kept
<1>10. n <= e.last_byte - i
  BY <1>9
<1> HIDE DEF t, i
<1> DEFINE G(f, k) == /\ Kept(f, all, strict) /\ f.curs1 = i
                      /\ f.last_byte = e.last_byte - k
                      /\ Text(f) = Cut(t, i, k)
           T == {k \in 0 .. n : G(h[k], k)}
<1>2. 0 \in T
  <2>1. h[0] = e
    BY <1>1 DEF Runs
  <2>2. Cut(t, i, 0) = t
    BY <1>9, CutNone
  <2>3. i = i /\ e.last_byte - 0 = e.last_byte /\ e.curs1 = i /\ Text(e) = t
    BY <1>9 DEF i, t
  <2>4. G(e, 0)
    BY <2>2, <2>3
  <2> HIDE DEF G
  <2> QED BY <2>1, <2>4
<1>3. ASSUME NEW k \in 0 .. n - 1, k \in T PROVE k + 1 \in T
  <2>1. k + 1 \in 1 .. n /\ k + 1 \in 0 .. n /\ (k + 1) - 1 = k /\ k \in Nat
    OBVIOUS
  <2> DEFINE f == h[k]
             g == Delete(f)
  <2>2. h[k + 1] = Once("delete", f)
    BY <1>1, <2>1 DEF Runs
  <2>3. G(f, k)
    BY <1>3
  <2> HIDE DEF f
  <2>4. Once("delete", f) = g
    BY DEF Once
  <2>5. Kept(g, all, strict)
    BY <2>3, DeleteKept
  <2>6. Sound(f) /\ f.curs2 = f.last_byte - f.curs1
    BY <2>3, SnapshotIs DEF Kept
  <2>7. f.curs2 # 0
    BY <2>3, <2>6, <1>9, <1>10
  <2>8. /\ g.curs1 = f.curs1 /\ g.last_byte = f.last_byte - 1
        /\ Text(g) = Removed(Text(f), f.curs1)
    BY <2>6, <2>7, DeleteTakes
  <2> HIDE DEF g
  <2>9. Text(f) = Cut(t, i, k) /\ f.curs1 = i
        /\ f.last_byte = e.last_byte - k
    BY <2>3
  <2>10. g.curs1 = i /\ Removed(Cut(t, i, k), i) = Cut(t, i, k + 1)
    <3>1. i + k < Len(t)
      BY <1>9, <1>10, <2>1
    <3> QED BY <3>1, <1>9, <2>1, <2>8, <2>9, CutAhead
  <2>11. g.last_byte = e.last_byte - (k + 1)
    BY <2>8, <2>9, <2>1, <1>9, SMTT(60)
  <2>12. G(g, k + 1)
    BY <2>5, <2>8, <2>9, <2>10, <2>11
  <2> HIDE DEF G
  <2> QED BY <2>1, <2>2, <2>4, <2>12
<1>4. \A k \in 0 .. n : k \in T
  <2>1. \A k \in 0 .. n - 1 : k \in T => k + 1 \in T
    BY <1>3
  <2> HIDE DEF T
  <2> QED BY <1>2, <2>1, UpTo
<1>5. n \in T
  BY <1>4
<1>6. G(h[n], n)
  BY <1>5
<1> QED BY <1>1, <1>6 DEF t, i

LEMMA BackspaceTakes ==
  ASSUME NEW e, Sound(e), e.curs1 # 0
  PROVE  /\ Backspace(e).curs1 = e.curs1 - 1 /\ Backspace(e).last_byte = e.last_byte - 1
         /\ Text(Backspace(e)) = Removed(Text(e), e.curs1 - 1)
<1>1. IsEdit(e) /\ Tabled(e)
  BY DEF Sound
<1>2. e.curs1 \in Nat \ {0} /\ e.last_byte \in Nat
  BY <1>1 DEF Tabled
<1>3. Text(Backspace(e)) = Removed(Text(e), e.curs1 - 1)
  BY <1>1, BackspaceText
<1>4. Backspace(e).curs1 = e.curs1 - 1 /\ Backspace(e).last_byte = e.last_byte + (-1)
  BY <1>1, <1>2, BackspaceIs
<1> QED BY <1>2, <1>3, <1>4

LEMMA TimesBackspace ==
  ASSUME NEW e, NEW all \in Seq(Snaps), NEW strict \in BOOLEAN, Kept(e, all, strict),
         NEW n \in Nat, n <= e.curs1
  PROVE  LET f == Times("backspace", n, e)
         IN /\ Kept(f, all, strict) /\ f.curs1 = e.curs1 - n /\ f.last_byte = e.last_byte - n
            /\ Text(f) = Cut(Text(e), e.curs1 - n, n)
<1>1. PICK h : Runs(h, "backspace", n, e) /\ Times("backspace", n, e) = h[n]
  BY TimesRuns
<1> DEFINE t == Text(e)
           i == e.curs1
<1>9. /\ i \in Nat /\ e.curs2 \in Nat /\ e.curs2 = e.last_byte - i /\ e.last_byte \in Nat
      /\ t \in Seq(Byte) /\ Len(t) = e.last_byte /\ i \in 0 .. Len(t)
  BY SnapshotIs DEF Kept
<1>10. n <= i
  BY <1>9
<1> HIDE DEF t, i
<1> DEFINE G(f, k) == /\ Kept(f, all, strict) /\ f.curs1 = i - k
                      /\ f.last_byte = e.last_byte - k
                      /\ Text(f) = Cut(t, i - k, k)
           T == {k \in 0 .. n : G(h[k], k)}
<1>2. 0 \in T
  <2>1. h[0] = e
    BY <1>1 DEF Runs
  <2>2. Cut(t, i, 0) = t
    BY <1>9, CutNone
  <2>3. i - 0 = i /\ e.last_byte - 0 = e.last_byte /\ e.curs1 = i /\ Text(e) = t
    BY <1>9 DEF i, t
  <2>4. G(e, 0)
    BY <2>2, <2>3
  <2> HIDE DEF G
  <2> QED BY <2>1, <2>4
<1>3. ASSUME NEW k \in 0 .. n - 1, k \in T PROVE k + 1 \in T
  <2>1. k + 1 \in 1 .. n /\ k + 1 \in 0 .. n /\ (k + 1) - 1 = k /\ k \in Nat
    OBVIOUS
  <2> DEFINE f == h[k]
             g == Backspace(f)
  <2>2. h[k + 1] = Once("backspace", f)
    BY <1>1, <2>1 DEF Runs
  <2>3. G(f, k)
    BY <1>3
  <2> HIDE DEF f
  <2>4. Once("backspace", f) = g
    BY DEF Once
  <2>5. Kept(g, all, strict)
    BY <2>3, BackspaceKept
  <2>6. Sound(f) /\ f.curs2 = f.last_byte - f.curs1
    BY <2>3, SnapshotIs DEF Kept
  <2>7. f.curs1 # 0
    BY <2>3, <2>6, <1>9, <1>10
  <2>8. /\ g.curs1 = f.curs1 - 1 /\ g.last_byte = f.last_byte - 1
        /\ Text(g) = Removed(Text(f), f.curs1 - 1)
    BY <2>6, <2>7, BackspaceTakes
  <2> HIDE DEF g
  <2>9. Text(f) = Cut(t, i - k, k) /\ f.curs1 = i - k
        /\ f.last_byte = e.last_byte - k
    BY <2>3
  <2>10. /\ g.curs1 = i - (k + 1) /\ f.curs1 - 1 = i - (k + 1)
         /\ Removed(Cut(t, i - k, k), i - (k + 1)) = Cut(t, i - (k + 1), k + 1)
    <3>1. i - k \in 0 .. Len(t) /\ (i - k) + k <= Len(t) /\ i - k > 0 /\ (i - k) - 1 = i - (k + 1)
      BY <1>9, <1>10, <2>1
    <3>2. Removed(Cut(t, i - k, k), (i - k) - 1) = Cut(t, (i - k) - 1, k + 1)
      BY <3>1, <1>9, <2>1, CutBehind
    <3>3. g.curs1 = i - (k + 1) /\ f.curs1 - 1 = i - (k + 1)
      BY <3>1, <2>8, <2>9
    <3> QED BY <3>1, <3>2, <3>3
  <2>11. g.last_byte = e.last_byte - (k + 1)
    BY <2>8, <2>9, <2>1, <1>9, SMTT(60)
  <2>12. G(g, k + 1)
    BY <2>5, <2>8, <2>9, <2>10, <2>11
  <2> HIDE DEF G
  <2> QED BY <2>1, <2>2, <2>4, <2>12
<1>4. \A k \in 0 .. n : k \in T
  <2>1. \A k \in 0 .. n - 1 : k \in T => k + 1 \in T
    BY <1>3
  <2> HIDE DEF T
  <2> QED BY <1>2, <2>1, UpTo
<1>5. n \in T
  BY <1>4
<1>6. G(h[n], n)
  BY <1>5
<1> QED BY <1>1, <1>6 DEF t, i

-----------------------------------------------------------------------------
(* A block put into a text: its last k bytes.                              *)
Spliced(t, i, b, k) ==
  [j \in 1 .. Len(t) + k |-> IF j <= i THEN t[j]
                             ELSE IF j <= i + k THEN b[Len(b) - k + (j - i)] ELSE t[j - k]]

LEMMA SplicedIs ==
  \A t \in Seq(Byte), b \in Seq(Byte) : \A i \in 0 .. Len(t) : \A k \in 0 .. Len(b) :
     /\ Spliced(t, i, b, k) \in Seq(Byte) /\ Len(Spliced(t, i, b, k)) = Len(t) + k
     /\ \A j \in 1 .. Len(t) + k :
          Spliced(t, i, b, k)[j] = IF j <= i THEN t[j]
                                   ELSE IF j <= i + k THEN b[Len(b) - k + (j - i)] ELSE t[j - k]
<1> SUFFICES ASSUME NEW t \in Seq(Byte), NEW b \in Seq(Byte), NEW i \in 0 .. Len(t),
                    NEW k \in 0 .. Len(b)
             PROVE  /\ Spliced(t, i, b, k) \in Seq(Byte) /\ Len(Spliced(t, i, b, k)) = Len(t) + k
                    /\ \A j \in 1 .. Len(t) + k :
                         Spliced(t, i, b, k)[j] =
                           IF j <= i THEN t[j]
                           ELSE IF j <= i + k THEN b[Len(b) - k + (j - i)] ELSE t[j - k]
  OBVIOUS
<1>1. Len(t) \in Nat /\ Len(b) \in Nat /\ Len(t) + k \in Nat
  OBVIOUS
<1> DEFINE x(j) == IF j <= i THEN t[j]
                   ELSE IF j <= i + k THEN b[Len(b) - k + (j - i)] ELSE t[j - k]
<1>2. \A j \in 1 .. Len(t) + k : x(j) \in Byte
  <2> SUFFICES ASSUME NEW j \in 1 .. Len(t) + k PROVE x(j) \in Byte
    OBVIOUS
  <2>1. CASE j <= i
    <3>1. j \in 1 .. Len(t)
      BY <2>1, <1>1
    <3>2. t[j] \in Byte
      BY <3>1, SeqIs
    <3> QED BY <3>2, <2>1
  <2>2. CASE ~ (j <= i) /\ j <= i + k
    <3>1. Len(b) - k + (j - i) \in 1 .. Len(b)
      BY <2>2, <1>1
    <3>2. b[Len(b) - k + (j - i)] \in Byte
      BY <3>1, SeqIs
    <3> QED BY <3>2, <2>2
  <2>3. CASE ~ (j <= i) /\ ~ (j <= i + k)
    <3>1. j - k \in 1 .. Len(t)
      BY <2>3, <1>1
    <3>2. t[j - k] \in Byte
      BY <3>1, SeqIs
    <3> QED BY <3>2, <2>3
  <2> QED BY <2>1, <2>2, <2>3
<1>3. Spliced(t, i, b, k) \in [1 .. Len(t) + k -> Byte]
  BY <1>2 DEF Spliced
<1>4. Spliced(t, i, b, k) \in Seq(Byte) /\ Len(Spliced(t, i, b, k)) = Len(t) + k
  <2> DEFINE m == Len(t) + k
             c == Spliced(t, i, b, k)
  <2>1. m \in Nat /\ c \in [1 .. m -> Byte]
    BY <1>1, <1>3
  <2> HIDE DEF m, c
  <2>2. c \in Seq(Byte) /\ Len(c) = m
    BY <2>1, BytesAre
  <2> QED BY <2>2 DEF m, c
<1> QED BY <1>4 DEF Spliced

LEMMA SplicedNone ==
  ASSUME NEW t \in Seq(Byte), NEW i \in 0 .. Len(t), NEW b \in Seq(Byte)
  PROVE  Spliced(t, i, b, 0) = t
<1>1. Len(t) \in Nat /\ Len(b) \in Nat /\ 0 \in 0 .. Len(b) /\ Len(t) + 0 = Len(t)
  OBVIOUS
<1> DEFINE u == Spliced(t, i, b, 0)
<1>2. /\ u \in Seq(Byte) /\ Len(u) = Len(t)
      /\ \A j \in 1 .. Len(t) + 0 :
           u[j] = IF j <= i THEN t[j] ELSE IF j <= i + 0 THEN b[Len(b) - 0 + (j - i)] ELSE t[j - 0]
  BY <1>1, SplicedIs
<1> HIDE DEF u
<1>3. \A j \in 1 .. Len(u) : u[j] = t[j]
  <2> SUFFICES ASSUME NEW j \in 1 .. Len(u) PROVE u[j] = t[j]
    OBVIOUS
  <2>1. j \in 1 .. Len(t) + 0 /\ j - 0 = j /\ i + 0 = i
    BY <1>1, <1>2
  <2> QED BY <2>1, <1>2
<1>4. u = t
  BY <1>2, <1>3, SameSeq
<1> QED BY <1>4 DEF u

LEMMA SplicedNext ==
  ASSUME NEW t \in Seq(Byte), NEW i \in 0 .. Len(t), NEW b \in Seq(Byte), NEW k \in 0 .. Len(b) - 1
  PROVE  Inserted(Spliced(t, i, b, k), i, b[Len(b) - k]) = Spliced(t, i, b, k + 1)
<1>1. /\ Len(t) \in Nat /\ Len(b) \in Nat /\ k \in 0 .. Len(b) /\ k + 1 \in 0 .. Len(b) /\ k \in Nat
      /\ i \in Nat /\ Len(b) - k \in 1 .. Len(b)
  OBVIOUS
<1> DEFINE u == Spliced(t, i, b, k)
           v == Spliced(t, i, b, k + 1)
           c == b[Len(b) - k]
           r == Inserted(u, i, c)
<1>2. /\ u \in Seq(Byte) /\ Len(u) = Len(t) + k
      /\ \A j \in 1 .. Len(t) + k :
           u[j] = IF j <= i THEN t[j] ELSE IF j <= i + k THEN b[Len(b) - k + (j - i)] ELSE t[j - k]
  BY <1>1, SplicedIs
<1>3. /\ v \in Seq(Byte) /\ Len(v) = Len(t) + (k + 1)
      /\ \A j \in 1 .. Len(t) + (k + 1) :
           v[j] = IF j <= i THEN t[j] ELSE IF j <= i + (k + 1) THEN b[Len(b) - (k + 1) + (j - i)]
                                           ELSE t[j - (k + 1)]
  BY <1>1, SplicedIs
<1>4. c \in Byte
  BY <1>1, SeqIs
<1> HIDE DEF u, v
<1>5. i \in 0 .. Len(u)
  BY <1>1, <1>2
<1>6. /\ r \in Seq(Byte) /\ Len(r) = Len(u) + 1
      /\ \A j \in 1 .. Len(u) + 1 : r[j] = IF j <= i THEN u[j] ELSE IF j = i + 1 THEN c ELSE u[j - 1]
  <2> HIDE DEF c
  <2> QED BY <1>2, <1>4, <1>5, InsertedIs, ZenonT(60)
<1> HIDE DEF r
<1>7. Len(r) = Len(v)
  <2>1. Len(u) = Len(t) + k /\ Len(v) = Len(t) + (k + 1) /\ Len(r) = Len(u) + 1
    BY <1>2, <1>3, <1>6, ZenonT(60)
  <2>2. Len(t) \in Nat /\ k \in Nat
    BY <1>1
  <2>3. Len(r) = Len(t) + k + 1
    BY <2>1
  <2> QED BY <2>1, <2>2, <2>3
<1>8. ASSUME NEW j \in 1 .. Len(r) PROVE r[j] = v[j]
  <2>1. j \in 1 .. Len(u) + 1 /\ j \in 1 .. Len(t) + (k + 1) /\ j \in Nat /\ j <= Len(t) + k + 1
    BY <1>1, <1>2, <1>6
  <2>2. CASE j <= i
    <3>1. j \in 1 .. Len(t) + k
      BY <2>1, <2>2, <1>1
    <3> QED BY <2>1, <2>2, <3>1, <1>2, <1>3, <1>6
  <2>3. CASE j = i + 1
    <3>1. ~ (j <= i) /\ j <= i + (k + 1) /\ Len(b) - (k + 1) + (j - i) = Len(b) - k
      BY <2>3, <1>1
    <3>2. r[j] = c /\ v[j] = b[Len(b) - (k + 1) + (j - i)]
      BY <2>1, <2>3, <3>1, <1>3, <1>6
    <3> QED BY <3>1, <3>2 DEF c
  <2>4. CASE ~ (j <= i) /\ ~ (j = i + 1)
    <3>1. j - 1 \in 1 .. Len(t) + k /\ ~ (j - 1 <= i)
      BY <2>1, <2>4, <1>1
    <3>2. r[j] = u[j - 1]
      BY <2>1, <2>4, <1>6
    <3>3. CASE j <= i + (k + 1)
      <4>1. j - 1 <= i + k /\ Len(b) - k + ((j - 1) - i) = Len(b) - (k + 1) + (j - i)
        BY <3>3, <2>1, <1>1
      <4>2. u[j - 1] = b[Len(b) - k + ((j - 1) - i)]
        BY <3>1, <4>1, <1>2
      <4>3. v[j] = b[Len(b) - (k + 1) + (j - i)]
        BY <2>1, <2>4, <3>3, <1>3
      <4> QED BY <3>2, <4>1, <4>2, <4>3
    <3>4. CASE ~ (j <= i + (k + 1))
      <4>1. ~ (j - 1 <= i + k) /\ (j - 1) - k = j - (k + 1)
        BY <3>4, <2>1, <1>1
      <4>2. u[j - 1] = t[(j - 1) - k]
        BY <3>1, <4>1, <1>2
      <4>3. v[j] = t[j - (k + 1)]
        BY <2>1, <2>4, <3>4, <1>3
      <4> QED BY <3>2, <4>1, <4>2, <4>3
    <3> QED BY <3>3, <3>4
  <2> QED BY <2>2, <2>3, <2>4
<1>9. r = v
  BY <1>3, <1>6, <1>7, <1>8, SameSeq
<1> QED BY <1>9 DEF r, v, u, c

-----------------------------------------------------------------------------
(* A block, back to front.                                                 *)
Inserts(h, b, e) ==
  h[0] = e /\ \A k \in 1 .. Len(b) : h[k] = InsertAhead(h[k - 1], b[Len(b) - k + 1])

LEMMA BlockInserts ==
  ASSUME NEW b \in Seq(Byte), NEW e
  PROVE  \E h : Inserts(h, b, e) /\ InsertBlock(e, b) = h[Len(b)]
<1> DEFINE n == Len(b)
<1>0. n \in Nat
  OBVIOUS
<1> HIDE DEF n
<1> DEFINE F(h, m) == h = [k \in 0 .. m |-> IF k = 0 THEN e ELSE InsertAhead(h[k - 1], b[Len(b) - k + 1])]
           T == {m \in 0 .. n : \E h : F(h, m)}
<1>1. 0 \in T
  <2> DEFINE h == [k \in 0 .. 0 |-> e]
  <2>1. F(h, 0)
    <3>1. \A k \in 0 .. 0 : k = 0
      OBVIOUS
    <3> QED BY <3>1
  <2> HIDE DEF F, h
  <2> QED BY <2>1, <1>0
<1>2. ASSUME NEW m \in 0 .. n - 1, m \in T PROVE m + 1 \in T
  <2>1. PICK g : F(g, m)
    BY <1>2
  <2> DEFINE h == [k \in 0 .. m + 1 |-> IF k = 0 THEN e ELSE InsertAhead(g[k - 1], b[Len(b) - k + 1])]
  <2>2. \A k \in 0 .. m : h[k] = g[k]
    <3> SUFFICES ASSUME NEW k \in 0 .. m PROVE h[k] = g[k]
      OBVIOUS
    <3>1. g[k] = IF k = 0 THEN e ELSE InsertAhead(g[k - 1], b[Len(b) - k + 1])
      BY <2>1
    <3>2. k \in 0 .. m + 1
      OBVIOUS
    <3>3. h[k] = IF k = 0 THEN e ELSE InsertAhead(g[k - 1], b[Len(b) - k + 1])
      BY <3>2
    <3> QED BY <3>1, <3>3
  <2>3. \A k \in 0 .. m + 1 : (IF k = 0 THEN e ELSE InsertAhead(h[k - 1], b[Len(b) - k + 1]))
                            = IF k = 0 THEN e ELSE InsertAhead(g[k - 1], b[Len(b) - k + 1])
    <3> HIDE DEF h, F
    <3>1. ASSUME NEW k \in 0 .. m + 1, k # 0 PROVE h[k - 1] = g[k - 1]
      <4>1. k - 1 \in 0 .. m
        BY <1>0, <3>1
      <4> QED BY <4>1, <2>2
    <3> QED BY <3>1
  <2>4. F(h, m + 1)
    BY <2>3
  <2>5. m + 1 \in 0 .. n
    BY <1>0
  <2> HIDE DEF F, h
  <2> QED BY <2>4, <2>5
<1>3. n \in T
  <2>1. \A m \in 0 .. n - 1 : m \in T => m + 1 \in T
    BY <1>2
  <2> HIDE DEF T
  <2>2. \A k \in 0 .. n : k \in T
    BY <1>0, <1>1, <2>1, UpTo
  <2> QED BY <2>2, <1>0
<1> DEFINE h == CHOOSE h : F(h, n)
<1>4. F(h, n)
  BY <1>3
<1>5. InsertBlock(e, b) = h[n]
  BY DEF InsertBlock, n
<1> HIDE DEF h
<1>6. Inserts(h, b, e)
  BY <1>0, <1>4 DEF Inserts, n
<1> QED BY <1>5, <1>6 DEF n

LEMMA InsertBlockKept ==
  ASSUME NEW e, NEW all \in Seq(Snaps), NEW strict \in BOOLEAN, Kept(e, all, strict),
         NEW b \in Seq(Byte)
  PROVE  Kept(InsertBlock(e, b), all, strict)
<1>1. PICK h : Inserts(h, b, e) /\ InsertBlock(e, b) = h[Len(b)]
  BY BlockInserts
<1> DEFINE n == Len(b)
           T == {k \in 0 .. n : Kept(h[k], all, strict)}
<1>6. n \in Nat
  OBVIOUS
<1>2. 0 \in T
  BY <1>1 DEF Inserts
<1>3. ASSUME NEW k \in 0 .. n - 1, k \in T PROVE k + 1 \in T
  <2>1. k + 1 \in 1 .. n /\ k + 1 \in 0 .. n /\ (k + 1) - 1 = k /\ n - (k + 1) + 1 \in 1 .. n
    OBVIOUS
  <2> DEFINE c == b[n - (k + 1) + 1]
  <2>5. c \in Byte
    BY <2>1, SeqIs
  <2>2. h[k + 1] = InsertAhead(h[k], c)
    BY <1>1, <2>1 DEF Inserts
  <2>3. Kept(h[k], all, strict)
    BY <1>3
  <2> HIDE DEF c, n
  <2>4. Kept(InsertAhead(h[k], c), all, strict)
    BY <2>3, <2>5, InsertAheadKept
  <2> QED BY <2>1, <2>2, <2>4
<1>4. \A k \in 0 .. n : k \in T
  <2>1. \A k \in 0 .. n - 1 : k \in T => k + 1 \in T
    BY <1>3
  <2> HIDE DEF T, n
  <2> QED BY <1>2, <1>6, <2>1, UpTo
<1>5. n \in T
  BY <1>4, <1>6
<1> QED BY <1>1, <1>5

LEMMA InsertAheadPuts ==
  ASSUME NEW e, Sound(e), NEW c \in Byte, ~ (e.last_byte >= SIZE_LIMIT)
  PROVE  LET f == InsertAhead(e, c)
         IN /\ f.curs1 = e.curs1 /\ f.last_byte = e.last_byte + 1
            /\ f.mark1 = e.mark1 + One(e.mark1 >= e.curs1)
            /\ f.mark2 = e.mark2 + One(e.mark2 >= e.curs1)
            /\ Text(f) = Inserted(Text(e), e.curs1, c)
<1>1. IsEdit(e) /\ Tabled(e)
  BY DEF Sound
<1>2. Text(InsertAhead(e, c)) = Inserted(Text(e), e.curs1, c)
  BY <1>1, InsertAheadText
<1> QED BY <1>1, <1>2, InsertAheadIs

(* Where a mark goes when k bytes are put ahead of the cursor at i.        *)
Shifted(m, i, k) == IF m >= i THEN m + k ELSE m

LEMMA InsertBlockIs ==
  ASSUME NEW e, NEW all \in Seq(Snaps), NEW strict \in BOOLEAN, Kept(e, all, strict),
         NEW b \in Seq(Byte), e.last_byte + Len(b) <= SIZE_LIMIT
  PROVE  LET f == InsertBlock(e, b)
         IN /\ f.curs1 = e.curs1 /\ f.last_byte = e.last_byte + Len(b)
            /\ f.mark1 = Shifted(e.mark1, e.curs1, Len(b))
            /\ f.mark2 = Shifted(e.mark2, e.curs1, Len(b))
            /\ Text(f) = Spliced(Text(e), e.curs1, b, Len(b))
<1>1. PICK h : Inserts(h, b, e) /\ InsertBlock(e, b) = h[Len(b)]
  BY BlockInserts
<1> DEFINE n == Len(b)
           t == Text(e)
           i == e.curs1
           m1 == e.mark1
           m2 == e.mark2
<1>6. n \in Nat /\ n = Len(b)
  OBVIOUS
<1>7. /\ i \in Nat /\ e.last_byte \in Nat /\ t \in Seq(Byte) /\ Len(t) = e.last_byte /\ i \in 0 .. Len(t)
  BY SnapshotIs DEF Kept
<1>8. m1 \in Int /\ m2 \in Int /\ SIZE_LIMIT \in Int
  BY SizeLimitIs DEF Kept, Sound, Plain
<1> DEFINE G(f, k) == /\ Kept(f, all, strict) /\ f.curs1 = i /\ f.last_byte = e.last_byte + k
                      /\ f.mark1 = Shifted(m1, i, k) /\ f.mark2 = Shifted(m2, i, k)
                      /\ Text(f) = Spliced(t, i, b, k)
           T == {k \in 0 .. n : G(h[k], k)}
<1>2. 0 \in T
  <2>1. h[0] = e
    BY <1>1 DEF Inserts
  <2>2. Spliced(t, i, b, 0) = t
    BY <1>7, SplicedNone
  <2>3. G(e, 0)
    BY <2>2, <1>7, <1>8 DEF Shifted
  <2> HIDE DEF G
  <2> QED BY <2>1, <2>3, <1>6
<1> HIDE DEF t, i, m1, m2
<1>3. ASSUME NEW k \in 0 .. n - 1, k \in T PROVE k + 1 \in T
  <2>1. /\ k + 1 \in 1 .. n /\ k + 1 \in 0 .. n /\ (k + 1) - 1 = k /\ n - (k + 1) + 1 = n - k
        /\ n - k \in 1 .. n /\ k \in Nat
    BY <1>6
  <2> DEFINE f == h[k]
             c == b[n - k]
             g == InsertAhead(f, c)
  <2>5. c \in Byte
    BY <2>1, SeqIs
  <2>2. h[k + 1] = g
    BY <1>1, <2>1 DEF Inserts
  <2>3. G(f, k)
    BY <1>3
  <2>14. Inserted(Spliced(t, i, b, k), i, c) = Spliced(t, i, b, k + 1)
    BY <1>7, SplicedNext
  <2> HIDE DEF c, f, n
  <2>4. Sound(f)
    BY <2>3 DEF Kept
  <2>6. ~ (f.last_byte >= SIZE_LIMIT)
    BY <2>3, <1>6, <1>7, <1>8
  <2>7. Kept(g, all, strict)
    BY <2>3, <2>5, InsertAheadKept
  <2>8. /\ g.curs1 = f.curs1 /\ g.last_byte = f.last_byte + 1
        /\ g.mark1 = f.mark1 + One(f.mark1 >= f.curs1)
        /\ g.mark2 = f.mark2 + One(f.mark2 >= f.curs1)
        /\ Text(g) = Inserted(Text(f), f.curs1, c)
    BY <2>4, <2>5, <2>6, InsertAheadPuts
  <2> HIDE DEF g
  <2>9. \A m \in Int : Shifted(m, i, k) + One(Shifted(m, i, k) >= i) = Shifted(m, i, k + 1)
    BY <1>7, <2>1 DEF Shifted, One
  <2>10. g.last_byte = e.last_byte + (k + 1)
    <3> DEFINE x == e.last_byte
               y == f.last_byte
    <3>1. g.last_byte = y + 1 /\ y = x + k
      BY <2>3, <2>8
    <3>2. x \in Nat /\ k \in Nat
      BY <1>7, <2>1
    <3> HIDE DEF x, y
    <3>3. g.last_byte = x + (k + 1)
      BY <3>1, <3>2
    <3> QED BY <3>3 DEF x
  <2>11. g.mark1 = Shifted(m1, i, k + 1) /\ g.mark2 = Shifted(m2, i, k + 1)
    BY <2>3, <2>8, <2>9, <1>8
  <2>12. G(g, k + 1)
    BY <2>3, <2>7, <2>8, <2>10, <2>11, <2>14
  <2> HIDE DEF G
  <2> QED BY <2>1, <2>2, <2>12
<1>4. \A k \in 0 .. n : k \in T
  <2>1. \A k \in 0 .. n - 1 : k \in T => k + 1 \in T
    BY <1>3
  <2> HIDE DEF T, n
  <2> QED BY <1>2, <1>6, <2>1, UpTo
<1>5. n \in T
  BY <1>4, <1>6
<1>9. G(h[n], n)
  BY <1>5
<1> QED BY <1>1, <1>9 DEF t, i, m1, m2

-----------------------------------------------------------------------------
(* Where lines begin and end.                                              *)
LEMMA BolIs ==
  ASSUME NEW e, Sound(e), NEW p \in Nat
  PROVE  /\ Bol(e, p) \in 0 .. p /\ GetByte(e, Bol(e, p) - 1) = Newline
         /\ \A i \in 0 .. p : GetByte(e, i - 1) = Newline => i <= Bol(e, p)
<1> DEFINE S == {i \in 0 .. p : GetByte(e, i - 1) = Newline}
<1>1. 0 \in S
  <2>1. 0 - 1 \in Int /\ 0 - 1 < 0
    OBVIOUS
  <2>2. GetByte(e, 0 - 1) = Newline
    BY <2>1, ByteIs DEF Sound
  <2> QED BY <2>2
<1>2. S \in SUBSET (0 .. p) /\ S # {} /\ 0 \in Int /\ p \in Int
  BY <1>1
<1>3. Max(S) \in S /\ \A m \in S : m <= Max(S)
  <2> HIDE DEF S
  <2> QED BY <1>2, Greatest
<1>4. Bol(e, p) = Max(S)
  BY DEF Bol
<1> QED BY <1>3, <1>4

LEMMA EolIs ==
  ASSUME NEW e, Sound(e), NEW p \in 0 .. e.last_byte
  PROVE  /\ Eol(e, p) \in p .. e.last_byte /\ GetByte(e, Eol(e, p)) = Newline
         /\ \A i \in p .. e.last_byte : GetByte(e, i) = Newline => Eol(e, p) <= i
<1> DEFINE S == {i \in p .. e.last_byte : GetByte(e, i) = Newline}
<1>1. e.last_byte \in Nat /\ p \in Int
  BY SnapshotIs
<1>2. e.last_byte \in S
  <2>1. e.last_byte \in Int /\ e.last_byte >= e.last_byte
    BY <1>1
  <2>2. GetByte(e, e.last_byte) = Newline
    BY <2>1, ByteIs DEF Sound
  <2> QED BY <2>2, <1>1
<1>3. S \in SUBSET (p .. e.last_byte) /\ S # {} /\ e.last_byte \in Int
  BY <1>1, <1>2
<1>4. Min(S) \in S /\ \A m \in S : Min(S) <= m
  <2> HIDE DEF S
  <2> QED BY <1>1, <1>3, Least
<1>5. Eol(e, p) = Min(S)
  BY DEF Eol
<1> QED BY <1>4, <1>5

LEMMA LinesBetween ==
  ASSUME NEW t, NEW a \in Nat, NEW b \in Nat, a <= b, LinesTo(t, a) # LinesTo(t, b)
  PROVE  \E i \in a + 1 .. b : t[i] = Newline
<1> SUFFICES ASSUME \A i \in a + 1 .. b : t[i] # Newline PROVE FALSE
  OBVIOUS
<1>1. \A i \in 1 .. b : t[i] = Newline => i \in 1 .. a
  <2> SUFFICES ASSUME NEW i \in 1 .. b, t[i] = Newline PROVE i \in 1 .. a
    OBVIOUS
  <2>1. i \notin a + 1 .. b
    OBVIOUS
  <2> QED BY <2>1
<1>2. \A i \in 1 .. a : i \in 1 .. b
  OBVIOUS
<1>3. {i \in 1 .. a : t[i] = Newline} = {i \in 1 .. b : t[i] = Newline}
  BY <1>1, <1>2
<1> QED BY <1>3 DEF LinesTo

(* There is a line above the cursor's, and one below.                      *)
LEMMA LineAbove ==
  ASSUME NEW e, Sound(e), e.curs_line # 0
  PROVE  Bol(e, e.curs1) \in 1 .. e.curs1
<1>1. /\ Text(e) \in Seq(Byte) /\ Len(Text(e)) = e.last_byte
      /\ e.curs1 \in 0 .. e.last_byte /\ e.last_byte \in Nat /\ e.curs1 \in Nat
  BY SnapshotIs
<1>2. LinesTo(Text(e), 0) # LinesTo(Text(e), e.curs1)
  BY LinesNone DEF Sound, Lined
<1>3. 0 <= e.curs1
  BY <1>1
<1>4. PICK i \in 0 + 1 .. e.curs1 : Text(e)[i] = Newline
  BY <1>1, <1>2, <1>3, LinesBetween
<1>5. i \in 1 .. e.last_byte /\ i \in 0 .. e.curs1 /\ i >= 1
  BY <1>1
<1>6. GetByte(e, i - 1) = Newline
  <2>1. \A j \in 1 .. e.last_byte : Text(e)[j] = GetByte(e, j - 1)
    BY TextIs DEF Sound
  <2> QED BY <2>1, <1>4, <1>5
<1>7. Bol(e, e.curs1) \in 0 .. e.curs1 /\ i <= Bol(e, e.curs1)
  BY <1>1, <1>5, <1>6, BolIs
<1> QED BY <1>1, <1>5, <1>7

LEMMA LineBelow ==
  ASSUME NEW e, Sound(e), e.curs_line # e.total_lines
  PROVE  Eol(e, e.curs1) \in e.curs1 .. e.last_byte - 1
<1>1. /\ Text(e) \in Seq(Byte) /\ Len(Text(e)) = e.last_byte
      /\ e.curs1 \in 0 .. e.last_byte /\ e.last_byte \in Nat /\ e.curs1 \in Nat
  BY SnapshotIs
<1>2. LinesTo(Text(e), e.curs1) # LinesTo(Text(e), e.last_byte)
  BY DEF Sound, Lined
<1>3. e.curs1 <= e.last_byte
  BY <1>1
<1>4. PICK i \in e.curs1 + 1 .. e.last_byte : Text(e)[i] = Newline
  BY <1>1, <1>2, <1>3, LinesBetween
<1>5. i \in 1 .. e.last_byte /\ i - 1 \in e.curs1 .. e.last_byte
  BY <1>1
<1>6. GetByte(e, i - 1) = Newline
  <2>1. \A j \in 1 .. e.last_byte : Text(e)[j] = GetByte(e, j - 1)
    BY TextIs DEF Sound
  <2> QED BY <2>1, <1>4, <1>5
<1>7. Eol(e, e.curs1) \in e.curs1 .. e.last_byte /\ Eol(e, e.curs1) <= i - 1
  BY <1>1, <1>5, <1>6, EolIs
<1> QED BY <1>1, <1>5, <1>7

-----------------------------------------------------------------------------
(* Commands that keep to one place.                                        *)
LEMMA KeptIs ==
  ASSUME NEW e, NEW all \in Seq(Snaps), NEW strict \in BOOLEAN, Kept(e, all, strict)
  PROVE  /\ Sound(e) /\ e.curs1 \in 0 .. e.last_byte /\ e.last_byte \in Nat /\ e.curs1 \in Nat
         /\ e.curs2 = e.last_byte - e.curs1 /\ e.prev_col \in Int
BY SnapshotIs DEF Kept, Sound, Plain

LEMMA ToPrevColKept ==
  ASSUME NEW e, NEW all \in Seq(Snaps), NEW strict \in BOOLEAN, Kept(e, all, strict),
         NEW p \in 0 .. e.last_byte
  PROVE  Kept(ToPrevCol(e, p), all, strict)
<1> DEFINE a == p + e.prev_col
           b == Eol(e, p)
<1>1. a \in Int /\ b \in Int
  <2>1. b \in p .. e.last_byte /\ e.prev_col \in Int /\ e.last_byte \in Nat
    BY KeptIs, EolIs
  <2> QED BY <2>1
<1>2. ToPrevCol(e, p) = MoveTo(e, Min({a, b}))
  BY DEF ToPrevCol
<1> HIDE DEF a, b
<1>3. Min({a, b}) \in Int
  <2>1. CASE a <= b
    <3>1. {a, b} \in SUBSET (a .. b) /\ {a, b} # {}
      BY <1>1, <2>1
    <3>2. Min({a, b}) \in {a, b}
      BY <1>1, <3>1, Least
    <3> QED BY <1>1, <3>2
  <2>2. CASE b <= a
    <3>1. {a, b} \in SUBSET (b .. a) /\ {a, b} # {}
      BY <1>1, <2>2
    <3>2. Min({a, b}) \in {a, b}
      BY <1>1, <3>1, Least
    <3> QED BY <1>1, <3>2
  <2> QED BY <1>1, <2>1, <2>2
<1> QED BY <1>2, <1>3, MoveToIs

LEMMA ToLineKept ==
  ASSUME NEW e, NEW all \in Seq(Snaps), NEW strict \in BOOLEAN, Kept(e, all, strict),
         NEW p \in 0 .. e.last_byte
  PROVE  Kept(ToLine(e, p), all, strict)
<1>1. p \in Int
  OBVIOUS
<1> DEFINE f == MoveTo(e, p)
           g == ToPrevCol(f, p)
<1>2. Kept(f, all, strict) /\ f.last_byte = e.last_byte
  BY <1>1, MoveToIs DEF Alike
<1>3. ToLine(e, p) = AtCharacter(g)
  BY DEF ToLine
<1> HIDE DEF f
<1>4. Kept(g, all, strict)
  BY <1>2, ToPrevColKept
<1> HIDE DEF g
<1>5. Kept(Right(g), all, strict)
  BY <1>4, RightKept
<1>6. Kept(Left(Right(g)), all, strict)
  BY <1>5, LeftKept
<1> QED BY <1>3, <1>4, <1>6 DEF AtCharacter

LEMMA UpKept ==
  ASSUME NEW e, NEW all \in Seq(Snaps), NEW strict \in BOOLEAN, Kept(e, all, strict)
  PROVE  Kept(Up(e), all, strict)
<1>1. CASE e.curs_line = 0
  BY <1>1 DEF Up
<1>2. CASE e.curs_line # 0
  <2> DEFINE a == Bol(e, e.curs1)
             b == Bol(e, a - 1)
  <2>1. a \in 1 .. e.curs1
    BY <1>2, KeptIs, LineAbove
  <2>2. Up(e) = ToLine(e, b)
    BY <1>2 DEF Up
  <2>3. e.curs1 \in Nat /\ e.last_byte \in Nat /\ e.curs1 <= e.last_byte /\ Sound(e)
    BY KeptIs
  <2> HIDE DEF a
  <2>4. a - 1 \in Nat /\ a - 1 <= e.last_byte
    BY <2>1, <2>3
  <2>5. b \in 0 .. a - 1
    BY <2>3, <2>4, BolIs
  <2> HIDE DEF b
  <2>6. b \in 0 .. e.last_byte
    BY <2>3, <2>4, <2>5
  <2> QED BY <2>2, <2>6, ToLineKept
<1> QED BY <1>1, <1>2

LEMMA DownKept ==
  ASSUME NEW e, NEW all \in Seq(Snaps), NEW strict \in BOOLEAN, Kept(e, all, strict)
  PROVE  Kept(Down(e), all, strict)
<1>1. CASE e.curs_line = e.total_lines
  BY <1>1 DEF Down
<1>2. CASE e.curs_line # e.total_lines
  <2> DEFINE a == Eol(e, e.curs1)
  <2>1. a \in e.curs1 .. e.last_byte - 1
    BY <1>2, KeptIs, LineBelow
  <2>2. Down(e) = ToLine(e, a + 1)
    BY <1>2 DEF Down
  <2>3. e.curs1 \in Nat /\ e.last_byte \in Nat
    BY KeptIs
  <2> HIDE DEF a
  <2>4. a + 1 \in 0 .. e.last_byte
    BY <2>1, <2>3
  <2> QED BY <2>2, <2>4, ToLineKept
<1> QED BY <1>1, <1>2

LEMMA TopKept ==
  ASSUME NEW e, NEW all \in Seq(Snaps), NEW strict \in BOOLEAN, Kept(e, all, strict)
  PROVE  Kept(Top(e), all, strict)
<1>1. CASE e.curs_line = 0
  BY <1>1 DEF Top
<1>2. CASE e.curs_line # 0
  <2> DEFINE f == MoveTo(e, 0)
  <2>4. e.last_byte \in Nat
    BY KeptIs
  <2>1. 0 \in 0 .. e.last_byte /\ 0 \in Int
    BY <2>4
  <2>2. Kept(f, all, strict) /\ f.last_byte = e.last_byte
    BY <2>1, MoveToIs DEF Alike
  <2>3. Top(e) = ToPrevCol(f, 0)
    BY <1>2 DEF Top
  <2> HIDE DEF f
  <2>5. 0 \in 0 .. f.last_byte
    BY <2>1, <2>2
  <2> QED BY <2>2, <2>3, <2>5, ToPrevColKept
<1> QED BY <1>1, <1>2

LEMMA HomeKept ==
  ASSUME NEW e, NEW all \in Seq(Snaps), NEW strict \in BOOLEAN, Kept(e, all, strict)
  PROVE  /\ Kept(MoveTo(e, Bol(e, e.curs1)), all, strict)
         /\ Kept(DeleteToLineBegin(e), all, strict)
<1> DEFINE a == Bol(e, e.curs1)
           n == e.curs1 - a
<1>1. e.curs1 \in Nat /\ Sound(e)
  BY KeptIs
<1>2. a \in 0 .. e.curs1
  BY <1>1, BolIs
<1>3. DeleteToLineBegin(e) = Times("backspace", n, e)
  BY DEF DeleteToLineBegin
<1> HIDE DEF a
<1>4. a \in Int /\ n \in Nat
  BY <1>1, <1>2
<1> HIDE DEF n
<1>5. Kept(MoveTo(e, a), all, strict)
  BY <1>4, MoveToIs
<1>6. Kept(Times("backspace", n, e), all, strict)
  BY <1>4, TimesKept
<1> QED BY <1>3, <1>5, <1>6 DEF a

LEMMA EndKept ==
  ASSUME NEW e, NEW all \in Seq(Snaps), NEW strict \in BOOLEAN, Kept(e, all, strict)
  PROVE  /\ Kept(MoveTo(e, Eol(e, e.curs1)), all, strict)
         /\ Kept(DeleteToLineEnd(e), all, strict)
<1> DEFINE a == Eol(e, e.curs1)
           n == a - e.curs1
<1>1. e.curs1 \in 0 .. e.last_byte /\ e.last_byte \in Nat /\ Sound(e)
  BY KeptIs
<1>2. a \in e.curs1 .. e.last_byte
  BY <1>1, EolIs
<1>3. DeleteToLineEnd(e) = Times("delete", n, e)
  BY DEF DeleteToLineEnd
<1> HIDE DEF a
<1>4. a \in Int /\ n \in Nat
  BY <1>1, <1>2
<1> HIDE DEF n
<1>5. Kept(MoveTo(e, a), all, strict)
  BY <1>4, MoveToIs
<1>6. Kept(Times("delete", n, e), all, strict)
  BY <1>4, TimesKept
<1> QED BY <1>3, <1>5, <1>6 DEF a

LEMMA DeleteLineKept ==
  ASSUME NEW e, NEW all \in Seq(Snaps), NEW strict \in BOOLEAN, Kept(e, all, strict)
  PROVE  Kept(DeleteLine(e), all, strict)
<1> DEFINE f == DeleteToLineEnd(e)
           g == Delete(f)
<1>1. Kept(f, all, strict)
  BY EndKept
<1>2. Kept(g, all, strict)
  BY <1>1, DeleteKept
<1>3. DeleteLine(e) = DeleteToLineBegin(g)
  BY DEF DeleteLine
<1> HIDE DEF g
<1> QED BY <1>2, <1>3, HomeKept

LEMMA CharKept ==
  ASSUME NEW e, NEW all \in Seq(Snaps), NEW strict \in BOOLEAN, Kept(e, all, strict),
         NEW c \in Byte, NEW overwrite
  PROVE  Kept(Char(e, c, overwrite), all, strict)
<1> DEFINE f == IF overwrite /\ GetByte(e, e.curs1) # Newline THEN Delete(e) ELSE e
<1>1. Kept(f, all, strict)
  BY DeleteKept
<1>2. Char(e, c, overwrite) = Insert(f, c)
  BY DEF Char
<1> HIDE DEF f
<1> QED BY <1>1, <1>2, InsertKept

-----------------------------------------------------------------------------
(* Marks.                                                                  *)
LEMMA MarkCodes ==
  ASSUME NEW e, Sound(e), NEW c \in Int,
         c - MARK_1 \in 0 .. e.last_byte \/ c - MARK_2 \in -1 .. e.last_byte
  PROVE  c < KEY_PRESS /\ Undone(c, Snapshot(e), Snapshot(e))
<1>1. /\ Snapshot(e) = <<Text(e), e.curs1>> /\ Len(Text(e)) = e.last_byte /\ e.last_byte \in Nat
  BY SnapshotIs
<1>2. e.last_byte <= SIZE_LIMIT /\ SIZE_LIMIT \in Int /\ SIZE_LIMIT < MARK_2 - MARK_1 - 2
  BY EditBufferAssumption, SizeLimitIs DEF Sound, Plain
<1>3. c < KEY_PRESS
  <2> DEFINE n == e.last_byte
             m == SIZE_LIMIT
  <2>1. n \in Nat /\ n <= m /\ m \in Int /\ m < MARK_2 - MARK_1 - 2
        /\ (c - MARK_1 \in 0 .. n \/ c - MARK_2 \in -1 .. n)
    BY <1>1, <1>2
  <2> HIDE DEF n, m
  <2> QED BY <2>1, SMT DEF MARK_1, MARK_2, KEY_PRESS
<1>4. Snapshot(e)[1] = Text(e)
  BY <1>1
<1>5. Undone(c, Snapshot(e), Snapshot(e))
  BY <1>1, <1>4 DEF Undone
<1> QED BY <1>3, <1>5

LEMMA MarkPushed ==
  ASSUME NEW e, NEW all \in Seq(Snaps), NEW strict \in BOOLEAN, Kept(e, all, strict),
         NEW c, Code(c),
         strict => c - MARK_1 \in 0 .. e.last_byte \/ c - MARK_2 \in -1 .. e.last_byte
  PROVE  /\ Kept(Push(e, c), all, strict) /\ SameBytes(e, Push(e, c)) /\ Alike(e, Push(e, c))
         /\ Snapshot(Push(e, c)) = Snapshot(e)
<1> DEFINE f == Push(e, c)
<1>1. Sound(e) /\ IsEdit(e) /\ Plain(e) /\ (strict => InRange(e))
  BY DEF Kept, Sound
<1>2. /\ IsEdit(f) /\ f.stack = Pushed(e, c)
      /\ \A x \in Fields \ {"stack"} : f[x] = e[x]
  BY <1>1, PushIs
<1> HIDE DEF f
<1>3. /\ SameBytes(e, f) /\ Beside(e, f) /\ f.start_display = e.start_display
      /\ f.start_line = e.start_line /\ f.prev_col = e.prev_col
      /\ f.mark1 = e.mark1 /\ f.mark2 = e.mark2 /\ f.stack_disable = e.stack_disable
      /\ f.last_byte = e.last_byte
  BY <1>2 DEF SameBytes, Beside, Fields
<1>4. Plain(f)
  BY <1>1, <1>3 DEF Plain
<1>5. /\ Sound(f) /\ Text(f) = Text(e) /\ Snapshot(f) = Snapshot(e)
      /\ (InRange(e) => InRange(f))
  BY <1>1, <1>2, <1>3, <1>4, BesideIs DEF InRange
<1>6. strict => c < KEY_PRESS /\ Undone(c, Snapshot(f), Snapshot(e))
  BY <1>1, <1>5, CodeIs, MarkCodes
<1>7. Kept(f, all, strict)
  BY <1>1, <1>2, <1>3, <1>5, <1>6, KeptPush
<1>8. Alike(e, f)
  BY <1>3, <1>5 DEF Alike
<1> QED BY <1>3, <1>5, <1>7, <1>8 DEF f

LEMMA MarkIsCode == \A m \in Int : m >= -2 => Code(MARK_1 + m) /\ Code(MARK_2 + m)
BY SMT DEF Code, MARK_1, MARK_2

LEMMA PushMarkersKept ==
  ASSUME NEW e, NEW all \in Seq(Snaps), NEW strict \in BOOLEAN, Kept(e, all, strict)
  PROVE  LET f == PushMarkers(e)
         IN Kept(f, all, strict) /\ SameBytes(e, f) /\ Alike(e, f) /\ Snapshot(f) = Snapshot(e)
<1>1. /\ e.mark1 \in Int /\ e.mark1 >= -2 /\ e.mark2 \in Int /\ e.mark2 >= -2
      /\ (strict => e.mark1 \in 0 .. e.last_byte /\ e.mark2 \in -1 .. e.last_byte)
  BY DEF Kept, Sound, Plain, InRange, Markable
<1> DEFINE a == MARK_1 + e.mark1
           b == MARK_2 + e.mark2
           g == Push(e, a)
           f == Push(g, b)
<1>2. Code(a) /\ Code(b) /\ a - MARK_1 = e.mark1 /\ b - MARK_2 = e.mark2
  <2>1. Code(a) /\ Code(b)
    BY <1>1, MarkIsCode
  <2>2. a - MARK_1 = e.mark1 /\ b - MARK_2 = e.mark2
    BY <1>1, SMT DEF MARK_1, MARK_2
  <2> QED BY <2>1, <2>2
<1>3. PushMarkers(e) = f
  BY DEF PushMarkers
<1> HIDE DEF a, b
<1>4. Kept(g, all, strict) /\ SameBytes(e, g) /\ Alike(e, g) /\ Snapshot(g) = Snapshot(e)
  BY <1>1, <1>2, MarkPushed
<1> HIDE DEF g
<1>5. g.last_byte = e.last_byte
  BY <1>4 DEF Alike
<1>6. Kept(f, all, strict) /\ SameBytes(g, f) /\ Alike(g, f) /\ Snapshot(f) = Snapshot(g)
  BY <1>1, <1>2, <1>4, <1>5, MarkPushed
<1> HIDE DEF f
<1>7. SameBytes(e, f) /\ Alike(e, f)
  BY <1>4, <1>6 DEF SameBytes, Alike
<1> QED BY <1>3, <1>4, <1>6, <1>7

LEMMA SetMarkersKept ==
  ASSUME NEW e, NEW all \in Seq(Snaps), NEW strict \in BOOLEAN, Kept(e, all, strict),
         NEW a \in Int, NEW b \in Int, a >= -2, b >= -2,
         strict => a \in 0 .. e.last_byte /\ b \in -1 .. e.last_byte
  PROVE  LET f == SetMarkers(e, a, b)
         IN Kept(f, all, strict) /\ Snapshot(f) = Snapshot(e)
<1> DEFINE f == SetMarkers(e, a, b)
<1>1. Sound(e) /\ (strict => Windowed(e))
  BY DEF Kept, InRange
<1>2. /\ Sound(f) /\ Snapshot(f) = Snapshot(e)
      /\ f.stack = e.stack /\ f.stack_disable = e.stack_disable
      /\ (Windowed(e) /\ a \in 0 .. e.last_byte /\ b \in -1 .. e.last_byte) => InRange(f)
  BY <1>1, MarkersSound
<1>3. strict => InRange(f)
  BY <1>1, <1>2
<1> HIDE DEF f
<1>4. Kept(f, all, strict)
  BY <1>2, <1>3 DEF Kept
<1> QED BY <1>2, <1>4 DEF f

LEMMA MarkCmdKept ==
  ASSUME NEW e, NEW all \in Seq(Snaps), NEW strict \in BOOLEAN, Kept(e, all, strict)
  PROVE  /\ Kept(MarkCmd(e), all, strict) /\ Kept(Unmark(e), all, strict)
         /\ Kept(MarkAll(e), all, strict)
<1> DEFINE f == PushMarkers(e)
<1>1. Kept(f, all, strict) /\ f.last_byte = e.last_byte
  BY PushMarkersKept DEF Alike
<1>2. e.curs1 \in 0 .. e.last_byte /\ e.last_byte \in Nat /\ e.curs1 \in Nat
  BY KeptIs
<1>3. /\ e.mark1 \in Int /\ e.mark1 >= -2
      /\ (strict => e.mark1 \in 0 .. e.last_byte)
  BY DEF Kept, Sound, Plain, InRange, Markable
<1> DEFINE n == e.last_byte
           c == e.curs1
           m == e.mark1
<1>4. MarkCmd(e) = SetMarkers(f, c, -1) \/ MarkCmd(e) = SetMarkers(f, m, c)
  BY DEF MarkCmd
<1>5. Unmark(e) = SetMarkers(f, 0, 0) /\ MarkAll(e) = SetMarkers(e, 0, n)
  BY DEF Unmark, MarkAll
<1>6. n = f.last_byte /\ n = e.last_byte
  BY <1>1
<1> HIDE DEF f, n, c, m
<1>7. /\ n \in Nat /\ c \in 0 .. n /\ c \in Int /\ c >= -2 /\ m \in Int /\ m >= -2
      /\ (strict => m \in 0 .. n)
      /\ -1 \in Int /\ -1 >= -2 /\ -1 \in -1 .. n /\ c \in -1 .. n
      /\ 0 \in 0 .. n /\ 0 \in -1 .. n /\ n \in -1 .. n /\ n >= -2 /\ 0 >= -2 /\ 0 \in Int /\ n \in Int
  BY <1>2, <1>3 DEF n, c, m
<1>8. Kept(SetMarkers(f, c, -1), all, strict)
  BY <1>1, <1>6, <1>7, SetMarkersKept
<1>9. Kept(SetMarkers(f, m, c), all, strict)
  BY <1>1, <1>6, <1>7, SetMarkersKept
<1>10. Kept(SetMarkers(f, 0, 0), all, strict)
  BY <1>1, <1>6, <1>7, SetMarkersKept
<1>11. Kept(SetMarkers(e, 0, n), all, strict)
  BY <1>6, <1>7, SetMarkersKept
<1> QED BY <1>4, <1>5, <1>8, <1>9, <1>10, <1>11

-----------------------------------------------------------------------------
(* The marked block.                                                       *)
LEMMA EndsAre ==
  ASSUME NEW a \in Int, NEW b \in Int
  PROVE  /\ Min({a, b}) \in Int /\ Max({a, b}) \in Int /\ Min({a, b}) <= Max({a, b})
         /\ Min({a, b}) \in {a, b} /\ Max({a, b}) \in {a, b}
<1> DEFINE S == {a, b}
<1>1. \E l, h \in Int : S \in SUBSET (l .. h) /\ S # {}
  <2>1. CASE a <= b
    <3>1. S \in SUBSET (a .. b) /\ S # {}
      BY <2>1
    <3> HIDE DEF S
    <3> QED BY <3>1
  <2>2. CASE b <= a
    <3>1. S \in SUBSET (b .. a) /\ S # {}
      BY <2>2
    <3> HIDE DEF S
    <3> QED BY <3>1
  <2> QED BY <2>1, <2>2
<1>2. a \in S /\ \A x \in S : x = a \/ x = b
  OBVIOUS
<1> HIDE DEF S
<1>3. PICK l \in Int, h \in Int : S \in SUBSET (l .. h) /\ S # {}
  BY <1>1
<1>4. Min(S) \in S /\ (\A m \in S : Min(S) <= m) /\ Max(S) \in S
  BY <1>3, Least, Greatest
<1>5. Min(S) <= Max(S) /\ Min(S) \in {a, b} /\ Max(S) \in {a, b}
  BY <1>2, <1>4
<1>6. Min(S) \in Int /\ Max(S) \in Int
  BY <1>5
<1> QED BY <1>5, <1>6 DEF S

LEMMA BlockIs ==
  ASSUME NEW e, Sound(e)
  PROVE  /\ StartMark(e) \in Int /\ EndMark(e) \in Int /\ StartMark(e) >= -2
         /\ StartMark(e) <= EndMark(e)
         /\ Markable(e) => StartMark(e) \in 0 .. e.last_byte /\ EndMark(e) \in 0 .. e.last_byte
         /\ EndMark(e) - StartMark(e) \in Nat
         /\ GetBlock(e) \in Seq(Byte) /\ Len(GetBlock(e)) = EndMark(e) - StartMark(e)
<1> DEFINE a == e.mark1
           b == IF e.mark2 >= 0 THEN e.mark2 ELSE e.curs1
           s == StartMark(e)
           t == EndMark(e)
<1>1. e.curs1 \in 0 .. e.last_byte /\ e.last_byte \in Nat /\ e.curs1 \in Nat
  BY SnapshotIs
<1>2. a \in Int /\ a >= -2 /\ e.mark2 \in Int
  BY DEF Sound, Plain
<1>3. b \in Nat
  BY <1>1, <1>2
<1>4. Markable(e) => a \in 0 .. e.last_byte /\ b \in 0 .. e.last_byte
  BY <1>1, <1>2 DEF Markable
<1>5. s = Min({a, b}) /\ t = Max({a, b})
  BY DEF StartMark, EndMark, MarkedEnds
<1>10. GetBlock(e) = [i \in 1 .. t - s |-> GetByte(e, s + i - 1)]
  BY DEF GetBlock
<1> HIDE DEF a, b, s, t
<1>6. s \in Int /\ t \in Int /\ s <= t /\ s \in {a, b} /\ t \in {a, b}
  BY <1>2, <1>3, <1>5, EndsAre
<1>7. s >= -2 /\ (Markable(e) => s \in 0 .. e.last_byte /\ t \in 0 .. e.last_byte)
  BY <1>2, <1>3, <1>4, <1>6
<1> DEFINE n == t - s
<1>8. n \in Nat
  BY <1>6
<1>9. \A i \in 1 .. n : GetByte(e, s + i - 1) \in Byte
  <2> SUFFICES ASSUME NEW i \in 1 .. n PROVE GetByte(e, s + i - 1) \in Byte
    OBVIOUS
  <2>1. s + i - 1 \in Int
    BY <1>6, <1>8
  <2> QED BY <2>1, ByteIs DEF Sound
<1>11. GetBlock(e) \in [1 .. n -> Byte]
  BY <1>9, <1>10
<1> HIDE DEF n
<1>12. GetBlock(e) \in Seq(Byte) /\ Len(GetBlock(e)) = n
  BY <1>8, <1>11, BytesAre
<1> QED BY <1>6, <1>7, <1>8, <1>12 DEF n, s, t

LEMMA BlockCopyKept ==
  ASSUME NEW e, NEW all \in Seq(Snaps), NEW strict \in BOOLEAN, Kept(e, all, strict),
         strict /\ Marked(e) => e.last_byte + Len(GetBlock(e)) <= SIZE_LIMIT
  PROVE  Kept(BlockCopy(e), all, strict)
<1> DEFINE s == StartMark(e)
           t == EndMark(e)
           b == GetBlock(e)
           g == PushMarkers(e)
           f == InsertBlock(g, b)
<1>1. Sound(e) /\ (strict => Markable(e)) /\ e.last_byte \in Nat
  BY KeptIs DEF Kept, InRange
<1>2. /\ s \in Int /\ t \in Int /\ s >= -2 /\ s <= t /\ b \in Seq(Byte) /\ Len(b) = t - s
      /\ strict => s \in 0 .. e.last_byte /\ t \in 0 .. e.last_byte
  BY <1>1, BlockIs
<1>3. Kept(g, all, strict) /\ g.last_byte = e.last_byte
  BY PushMarkersKept DEF Alike
<1>4. BlockCopy(e) = e \/ BlockCopy(e) = f \/ (Marked(e) /\ BlockCopy(e) = SetMarkers(f, s, t + t - s))
  BY DEF BlockCopy
<1>9. strict /\ Marked(e) => g.last_byte + Len(b) <= SIZE_LIMIT
  BY <1>3
<1> HIDE DEF s, t, b, g
<1>5. Kept(f, all, strict)
  BY <1>2, <1>3, InsertBlockKept
<1>6. strict /\ Marked(e) => f.last_byte = g.last_byte + Len(b)
  BY <1>2, <1>3, <1>9, InsertBlockIs
<1> HIDE DEF f
<1>7. CASE Marked(e)
  <2> DEFINE a == s
             c == t + t - s
  <2>1. a \in Int /\ c \in Int /\ a >= -2 /\ c >= -2
    BY <1>2
  <2>2. strict => a \in 0 .. f.last_byte /\ c \in -1 .. f.last_byte
    <3> SUFFICES ASSUME strict PROVE a \in 0 .. f.last_byte /\ c \in -1 .. f.last_byte
      OBVIOUS
    <3>1. f.last_byte = e.last_byte + (t - s)
      BY <1>2, <1>3, <1>6, <1>7
    <3> QED BY <3>1, <1>1, <1>2
  <2> HIDE DEF a, c
  <2>3. Kept(SetMarkers(f, a, c), all, strict)
    BY <1>5, <2>1, <2>2, SetMarkersKept
  <2> QED BY <1>4, <1>5, <2>3 DEF a, c
<1>8. CASE ~ Marked(e)
  BY <1>4, <1>5, <1>8
<1> QED BY <1>7, <1>8

(* The block is taken out, and where the cursor stands then.               *)
LEMMA BlockTaken ==
  ASSUME NEW e, NEW all \in Seq(Snaps), NEW strict \in BOOLEAN, Kept(e, all, strict)
  PROVE  LET s == StartMark(e)
             n == EndMark(e) - StartMark(e)
             f == Times("delete", n, MoveTo(PushMarkers(e), s))
         IN /\ Kept(f, all, strict)
            /\ strict => /\ f.curs1 = s /\ f.last_byte = e.last_byte - n
                         /\ Text(f) = Cut(Text(e), s, n)
<1> DEFINE s == StartMark(e)
           t == EndMark(e)
           n == t - s
           g == PushMarkers(e)
           h == MoveTo(g, s)
           f == Times("delete", n, h)
<1>1. Sound(e) /\ (strict => Markable(e)) /\ e.last_byte \in Nat
  BY KeptIs DEF Kept, InRange
<1>2. /\ s \in Int /\ t \in Int /\ s <= t /\ n \in Nat
      /\ strict => s \in 0 .. e.last_byte /\ t \in 0 .. e.last_byte
  BY <1>1, BlockIs
<1>3. Kept(g, all, strict) /\ g.last_byte = e.last_byte /\ Text(g) = Text(e)
  BY PushMarkersKept DEF Alike
<1> HIDE DEF s, t, g
<1>4. /\ Kept(h, all, strict)
      /\ strict => h.curs1 = s /\ h.last_byte = g.last_byte /\ Text(h) = Text(g)
  BY <1>2, <1>3, MoveToIs DEF Alike
<1> HIDE DEF h
<1>5. h.curs2 = h.last_byte - h.curs1
  BY <1>4, KeptIs
<1>6. strict => n <= h.curs2
  BY <1>1, <1>2, <1>3, <1>4, <1>5
<1> HIDE DEF n
<1>7. Kept(f, all, strict)
  BY <1>2, <1>4, TimesKept
<1>8. strict => /\ f.curs1 = h.curs1 /\ f.last_byte = h.last_byte - n
                /\ Text(f) = Cut(Text(h), h.curs1, n)
  BY <1>2, <1>4, <1>6, TimesDelete
<1> HIDE DEF f
<1>9. /\ Kept(f, all, strict)
      /\ strict => /\ f.curs1 = s /\ f.last_byte = e.last_byte - n
                   /\ Text(f) = Cut(Text(e), s, n)
  BY <1>3, <1>4, <1>7, <1>8
<1> QED BY <1>9 DEF f, h, g, n, s, t

LEMMA BlockDeleteKept ==
  ASSUME NEW e, NEW all \in Seq(Snaps), NEW strict \in BOOLEAN, Kept(e, all, strict)
  PROVE  Kept(BlockDelete(e), all, strict)
<1> DEFINE f == Times("delete", EndMark(e) - StartMark(e), MoveTo(PushMarkers(e), StartMark(e)))
<1>1. BlockDelete(e) = DeleteLine(e) \/ BlockDelete(e) = SetMarkers(f, 0, 0)
  BY DEF BlockDelete
<1>2. Kept(f, all, strict)
  BY BlockTaken
<1> HIDE DEF f
<1>3. Kept(SetMarkers(f, 0, 0), all, strict)
  <2>1. f.last_byte \in Nat
    BY <1>2, KeptIs
  <2>2. 0 \in Int /\ 0 >= -2 /\ 0 \in 0 .. f.last_byte /\ 0 \in -1 .. f.last_byte
    BY <2>1
  <2> QED BY <1>2, <2>2, SetMarkersKept
<1> QED BY <1>1, <1>3, DeleteLineKept

LEMMA BlockMoveKept ==
  ASSUME NEW e, NEW all \in Seq(Snaps), NEW strict \in BOOLEAN, Kept(e, all, strict)
  PROVE  Kept(BlockMove(e), all, strict)
<1> DEFINE s == StartMark(e)
           t == EndMark(e)
           c == e.curs1
           n == t - s
           b == GetBlock(e)
           g == Times("delete", n, MoveTo(PushMarkers(e), s))
           p == c - (IF c > s THEN n ELSE 0)
           h == MoveTo(g, p)
           f == InsertBlock(h, b)
<1>1. /\ Sound(e) /\ (strict => Markable(e)) /\ e.last_byte \in Nat /\ c \in 0 .. e.last_byte
      /\ e.last_byte <= SIZE_LIMIT /\ SIZE_LIMIT \in Int
  BY KeptIs, SizeLimitIs DEF Kept, InRange, Sound, Plain
<1>2. /\ s \in Int /\ t \in Int /\ s >= -2 /\ s <= t /\ n \in Nat /\ b \in Seq(Byte) /\ Len(b) = n
      /\ strict => s \in 0 .. e.last_byte /\ t \in 0 .. e.last_byte
  BY <1>1, BlockIs
<1>3. Kept(g, all, strict) /\ (strict => g.last_byte = e.last_byte - n)
  BY BlockTaken
<1>4. \/ BlockMove(e) = e
      \/ ~ (s <= c /\ c <= t) /\ BlockMove(e) = SetMarkers(f, f.curs1, f.curs1 + n)
  BY DEF BlockMove, MarkAhead
<1> HIDE DEF s, t, c, b, g
<1>5. CASE BlockMove(e) = e
  BY <1>5
<1>6. CASE ~ (s <= c /\ c <= t) /\ BlockMove(e) = SetMarkers(f, f.curs1, f.curs1 + n)
  <2>1. p \in Int /\ (strict => p \in 0 .. g.last_byte)
    BY <1>1, <1>2, <1>3, <1>6
  <2> HIDE DEF p
  <2>2. Kept(h, all, strict) /\ (strict => h.last_byte = g.last_byte /\ h.curs1 = p)
    BY <1>3, <2>1, MoveToIs DEF Alike
  <2>8. h.curs1 \in 0 .. h.last_byte /\ h.last_byte \in Nat /\ h.curs1 \in Nat
    BY <2>2, KeptIs
  <2> HIDE DEF h
  <2>3. strict => h.last_byte + Len(b) = e.last_byte /\ h.last_byte + Len(b) <= SIZE_LIMIT
    BY <1>1, <1>2, <1>3, <2>2
  <2>4. Kept(f, all, strict)
    BY <1>2, <2>2, InsertBlockKept
  <2>5. strict => f.curs1 = h.curs1 /\ f.last_byte = h.last_byte + Len(b)
    BY <1>2, <2>2, <2>3, InsertBlockIs
  <2>6. f.curs1 \in 0 .. f.last_byte /\ f.last_byte \in Nat /\ f.curs1 \in Nat
    BY <2>4, KeptIs
  <2> DEFINE x == f.curs1
             y == f.curs1 + n
  <2>7. /\ x \in Int /\ y \in Int /\ x >= -2 /\ y >= -2
        /\ strict => x \in 0 .. f.last_byte /\ y \in -1 .. f.last_byte
    <3>1. x \in Int /\ y \in Int /\ x >= -2 /\ y >= -2
      BY <1>2, <2>6
    <3>2. strict => y <= f.last_byte
      <4> SUFFICES ASSUME strict PROVE y <= f.last_byte
        OBVIOUS
      <4>1. f.last_byte = h.last_byte + n /\ f.curs1 = h.curs1 /\ h.curs1 <= h.last_byte
        BY <2>5, <2>8, <1>2
      <4> HIDE DEF n, f
      <4> QED BY <4>1, <2>8, <1>2
    <3> QED BY <3>1, <3>2, <2>6, <1>2
  <2> HIDE DEF x, y, f
  <2>9. Kept(SetMarkers(f, x, y), all, strict)
    BY <2>4, <2>7, SetMarkersKept
  <2> QED BY <2>9, <1>6 DEF x, y
<1> QED BY <1>4, <1>5, <1>6

-----------------------------------------------------------------------------
(* A key press on the stack.                                               *)
LEMMA PushKeyIs ==
  ASSUME NEW u, Ring(u), Roomy(u), Shape(Entries(u)), NEW c \in Int, c >= KEY_PRESS
  PROVE  LET v == PushAction(u, c)
             s == Entries(u)
         IN /\ Ring(v)
            /\ Again(u, c) => v = u /\ Len(s) >= 3 /\ s[Len(s)] = c
            /\ ~ Again(u, c) => Latest(Entries(v), Append(s, c))
<1> DEFINE s == Entries(u)
           d == Depth(u)
           v == PushAction(u, c)
<1>1. IsRing(u)
  BY DEF Ring
<1>2. /\ s \in Seq(Int) /\ Len(s) = d /\ d \in Nat
      /\ d >= 1 => Entry(u, u.stack_pointer - 1) = s[d]
      /\ d >= 2 => Entry(u, u.stack_pointer - 2) = s[d - 1]
  BY <1>1, EntriesAre
<1>3. Deep(u) => d >= 3
  BY <1>1, DeepIs
<1>4. ASSUME Deep(u)
      PROVE  /\ Counts(u) <=> s[d] < 0
             /\ LastPush(u) = IF s[d] < 0 THEN s[d - 1] ELSE s[d]
  BY <1>2, <1>3, <1>4 DEF Counts, LastPush
<1>5. ~ Cancels(u, c)
  <2> SUFFICES ASSUME Opposite(c, LastPush(u)) PROVE FALSE
    BY DEF Cancels
  <2>1. c < KEY_PRESS
    BY OppositeIs
  <2> QED BY <2>1, KeyPressIs
<1>6. \A k \in 1 .. d : s[k] \in Int /\ (s[k] >= 0 \/ (s[k] <= -2 /\ s[k - 1] < KEY_PRESS))
  BY <1>2 DEF Shape, Formed
<1>7. d >= 1 => d \in 1 .. d
  BY <1>2
<1>8. Ring(PushEntry(u, c)) /\ Latest(Entries(PushEntry(u, c)), Append(s, c))
  BY PushEntryIs DEF Latest
<1>9. CASE Again(u, c)
  <2>1. v = u
    <3>1. ~ (c < KEY_PRESS)
      BY KeyPressIs
    <3> QED BY <1>9, <1>5, <3>1 DEF PushAction
  <2>2. Deep(u) /\ LastPush(u) = c
    BY <1>9 DEF Again
  <2> HIDE DEF s, d, v
  <2>3. s[d] = c /\ d >= 3
    BY <2>2, <1>2, <1>3, <1>4, <1>6, <1>7, KeyPressIs
  <2> QED BY <2>1, <2>3, <1>2, <1>9 DEF s, v
<1>10. CASE ~ Again(u, c)
  <2>1. v = PushEntry(u, c)
    BY <1>10, <1>5 DEF PushAction
  <2> QED BY <2>1, <1>8, <1>10
<1> QED BY <1>9, <1>10

LEMMA KeyPushStands ==
  ASSUME NEW u, Ring(u), Roomy(u), NEW q, StandsFor(Entries(u), q),
         NEW c \in Nat, c >= KEY_PRESS, Code(c)
  PROVE  LET v == PushAction(u, c)
         IN /\ Ring(v)
            /\ Again(u, c) => v = u /\ q # <<>> /\ q[Len(q)] = c
            /\ ~ Again(u, c) =>
                 \E m \in 0 .. Len(q) + 1 :
                   StandsFor(Entries(v), SubSeq(Append(q, c), m + 1, Len(q) + 1))
<1> DEFINE v == PushAction(u, c)
           s == Entries(u)
<1>1. Shape(s) /\ Formed(s) /\ q \in Seq(Nat)
  BY DEF StandsFor, Shape
<1>2. PICK f : Layout(s, q, f)
  BY DEF StandsFor
<1>3. /\ Ring(v)
      /\ Again(u, c) => v = u /\ Len(s) >= 3 /\ s[Len(s)] = c
      /\ ~ Again(u, c) => Latest(Entries(v), Append(s, c))
  <2>1. c \in Int
    OBVIOUS
  <2> QED BY <1>1, <2>1, PushKeyIs
<1> HIDE DEF s, v
<1>4. Again(u, c) => q # <<>> /\ q[Len(q)] = c
  <2> SUFFICES ASSUME Again(u, c) PROVE q # <<>> /\ q[Len(q)] = c
    OBVIOUS
  <2>1. Len(s) >= 3 /\ s[Len(s)] = c /\ Len(s) \in Nat
    BY <1>1, <1>3, FormedIs
  <2>2. Len(s) > 0 /\ s[Len(s)] >= 0
    BY <2>1
  <2>3. Len(q) \in Nat /\ Len(q) # 0 /\ q[Len(q)] = s[Len(s)]
    BY <1>1, <1>2, <2>2, LayoutTop
  <2> QED BY <2>1, <2>3
<1>5. ASSUME ~ Again(u, c)
      PROVE  \E m \in 0 .. Len(q) + 1 :
               StandsFor(Entries(v), SubSeq(Append(q, c), m + 1, Len(q) + 1))
  <2>1. c >= 0 /\ c \in Int
    OBVIOUS
  <2> DEFINE s2 == Append(s, c)
             q2 == Append(q, c)
  <2>2. Formed(s2)
    BY <1>1, <2>1, FormedAppend
  <2>3. PICK g : Layout(s2, q2, g)
    BY <1>1, <1>2, <2>1, StandsAppend
  <2>4. q2 \in Seq(Nat) /\ Len(q2) = Len(q) + 1
    BY <1>1
  <2>5. Latest(Entries(v), s2)
    BY <1>3, <1>5
  <2> HIDE DEF s2, q2
  <2>6. \E m \in 0 .. Len(q2) : StandsFor(Entries(v), SubSeq(q2, m + 1, Len(q2)))
    BY <2>2, <2>3, <2>4, <2>5, StandsLatest
  <2> QED BY <2>4, <2>6 DEF q2
<1> QED BY <1>3, <1>4, <1>5 DEF v

(* What undo can lead back to once the key press is pushed.                *)
Noted(e, all) == IF Again(Grown(e.stack), KeyPress(e)) THEN all ELSE Append(all, Snapshot(e))

LEMMA KeyCodes ==
  \A d \in Nat : /\ KEY_PRESS + d \in Nat /\ KEY_PRESS + d >= KEY_PRESS /\ Code(KEY_PRESS + d)
                 /\ (KEY_PRESS + d) - KEY_PRESS = d
BY SMT DEF KEY_PRESS, Code, MARK_1

LEMMA KeyPushed ==
  ASSUME NEW e, NEW all \in Seq(Snaps), NEW strict \in BOOLEAN, Kept(e, all, strict)
  PROVE  LET f == Push(e, KeyPress(e))
         IN /\ Kept(f, Noted(e, all), strict) /\ SameBytes(e, f) /\ Alike(e, f)
            /\ Snapshot(f) = Snapshot(e) /\ Noted(e, all) \in Seq(Snaps)
            /\ strict /\ Again(Grown(e.stack), KeyPress(e)) =>
                 all # <<>> /\ all[Len(all)] = Snapshot(e)
<1> DEFINE c == KeyPress(e)
           f == Push(e, c)
           u == Grown(e.stack)
           v == PushAction(u, c)
           new == Noted(e, all)
           x == Snapshot(e)
           d == e.start_display
<1>1. /\ Sound(e) /\ IsEdit(e) /\ Plain(e) /\ e.stack_disable = FALSE /\ Ring(e.stack)
      /\ (strict => InRange(e))
  BY DEF Kept, Sound
<1>2. /\ IsEdit(f) /\ f.stack = Pushed(e, c)
      /\ \A y \in Fields \ {"stack"} : f[y] = e[y]
  BY <1>1, PushIs
<1>20. f.stack = v
  BY <1>1, <1>2 DEF Pushed
<1>21. /\ x \in Snaps /\ x = <<Text(e), e.curs1>> /\ Len(Text(e)) = e.last_byte /\ d \in Nat
       /\ (strict => d \in 0 .. e.last_byte)
  BY <1>1, SnapshotIs DEF Plain, InRange, Windowed
<1>22. c = KEY_PRESS + d
  BY DEF KeyPress
<1>23. new = IF Again(u, c) THEN all ELSE Append(all, x)
  BY DEF Noted
<1> HIDE DEF f
<1>3. /\ SameBytes(e, f) /\ Beside(e, f) /\ f.start_display = e.start_display
      /\ f.start_line = e.start_line /\ f.prev_col = e.prev_col
      /\ f.mark1 = e.mark1 /\ f.mark2 = e.mark2 /\ f.stack_disable = e.stack_disable
      /\ f.last_byte = e.last_byte
  BY <1>2 DEF SameBytes, Beside, Fields
<1>4. Plain(f)
  BY <1>1, <1>3 DEF Plain
<1>5. /\ Sound(f) /\ Text(f) = Text(e) /\ Snapshot(f) = x
      /\ (InRange(e) => InRange(f))
  BY <1>1, <1>2, <1>3, <1>4, BesideIs DEF InRange
<1>6. Alike(e, f)
  BY <1>3, <1>5 DEF Alike
<1>7. Ring(u) /\ Roomy(u) /\ Entries(u) = Entries(e.stack)
  BY <1>1, GrownIs
<1>8. PICK q : /\ StandsFor(Entries(u), q)
               /\ strict => \E k : Leads(q, all, x, k)
  BY <1>7 DEF Kept
<1> HIDE DEF c, u, v, new, d
<1>9. c \in Nat /\ c >= KEY_PRESS /\ Code(c) /\ c - KEY_PRESS = d
  BY <1>21, <1>22, KeyCodes
<1>10. /\ Ring(v)
       /\ Again(u, c) => v = u /\ q # <<>> /\ q[Len(q)] = c
       /\ ~ Again(u, c) =>
            \E m \in 0 .. Len(q) + 1 :
              StandsFor(Entries(v), SubSeq(Append(q, c), m + 1, Len(q) + 1))
  BY <1>7, <1>8, <1>9, KeyPushStands DEF v
<1>11. q \in Seq(Nat)
  BY <1>8 DEF StandsFor
<1>12. new \in Seq(Snaps)
  BY <1>21, <1>23
<1> HIDE DEF x
<1>13. CASE Again(u, c)
  <2>1. new = all /\ v = u
    BY <1>10, <1>13, <1>23
  <2>2. Kept(f, new, strict)
    BY <2>1, <1>1, <1>3, <1>5, <1>8, <1>10, <1>20 DEF Kept
  <2>3. strict => all # <<>> /\ all[Len(all)] = x
    <3> SUFFICES ASSUME strict PROVE all # <<>> /\ all[Len(all)] = x
      OBVIOUS
    <3>1. PICK k : Leads(q, all, x, k)
      BY <1>8
    <3>2. q # <<>> /\ q[Len(q)] >= KEY_PRESS
      BY <1>9, <1>10, <1>13
    <3>3. Len(all) > 0 /\ all[Len(all)] = x
      BY <1>11, <3>1, <3>2, LeadsBack
    <3> QED BY <3>3
  <2> QED BY <2>2, <2>3, <1>3, <1>5, <1>6, <1>12 DEF new, f, c, x, u
<1>14. CASE ~ Again(u, c)
  <2>1. PICK m \in 0 .. Len(q) + 1 : StandsFor(Entries(v), SubSeq(Append(q, c), m + 1, Len(q) + 1))
    BY <1>10, <1>14
  <2>2. new = Append(all, x)
    BY <1>14, <1>23
  <2> DEFINE q2 == Append(q, c)
             r == SubSeq(q2, m + 1, Len(q2))
  <2>3. q2 \in Seq(Nat) /\ Len(q2) = Len(q) + 1
    BY <1>9, <1>11
  <2>4. strict => \E k : Leads(r, new, x, k)
    <3> SUFFICES ASSUME strict PROVE \E k : Leads(r, new, x, k)
      OBVIOUS
    <3>1. PICK k : Leads(q, all, x, k)
      BY <1>8
    <3>2. c - KEY_PRESS \in 0 .. Len(x[1])
      BY <1>9, <1>21 DEF x
    <3>3. Leads(q2, new, x, k)
      BY <1>9, <1>11, <2>2, <3>1, <3>2, LeadsKeyPress
    <3> HIDE DEF q2
    <3>4. m \in 0 .. Len(q2)
      BY <2>3
    <3> QED BY <1>12, <2>3, <3>3, <3>4, LeadsLatest
  <2>5. StandsFor(Entries(v), r)
    BY <2>1, <2>3
  <2> HIDE DEF r
  <2>6. Kept(f, new, strict)
    BY <2>4, <2>5, <1>1, <1>3, <1>5, <1>10, <1>20 DEF Kept
  <2> QED BY <2>6, <1>3, <1>5, <1>6, <1>12, <1>14 DEF new, f, c, x, u
<1> QED BY <1>13, <1>14

-----------------------------------------------------------------------------
(* A key: what comes before the command, and the command.                  *)
LEMMA PushKeyPressIs ==
  ASSUME NEW e, NEW all \in Seq(Snaps), NEW strict \in BOOLEAN, Kept(e, all, strict)
  PROVE  LET f == PushKeyPress(e)
         IN /\ Kept(f, Noted(e, all), strict) /\ SameBytes(e, f) /\ Alike(e, f)
            /\ Snapshot(f) = Snapshot(e) /\ Noted(e, all) \in Seq(Snaps)
            /\ strict /\ Again(Grown(e.stack), KeyPress(e)) =>
                 all # <<>> /\ all[Len(all)] = Snapshot(e)
<1> DEFINE g == Push(e, KeyPress(e))
           c == MARK_1 + e.mark1
           new == Noted(e, all)
           h == Push(g, c)
<1>1. /\ Kept(g, new, strict) /\ SameBytes(e, g) /\ Alike(e, g)
      /\ Snapshot(g) = Snapshot(e) /\ new \in Seq(Snaps)
      /\ strict /\ Again(Grown(e.stack), KeyPress(e)) =>
           all # <<>> /\ all[Len(all)] = Snapshot(e)
  BY KeyPushed
<1>2. PushKeyPress(e) = g \/ PushKeyPress(e) = h
  BY DEF PushKeyPress
<1>3. e.mark1 \in Int /\ e.mark1 >= -2 /\ (strict => e.mark1 \in 0 .. e.last_byte)
  BY DEF Kept, Sound, Plain, InRange, Markable
<1>4. Code(c) /\ c - MARK_1 = e.mark1
  <2>1. c - MARK_1 = e.mark1
    BY <1>3, SMT DEF MARK_1
  <2> QED BY <1>3, <2>1, MarkIsCode
<1>5. g.last_byte = e.last_byte
  BY <1>1 DEF Alike
<1> HIDE DEF g, c, new
<1>6. /\ Kept(h, new, strict) /\ SameBytes(g, h) /\ Alike(g, h) /\ Snapshot(h) = Snapshot(g)
  BY <1>1, <1>3, <1>4, <1>5, MarkPushed
<1> HIDE DEF h
<1>7. SameBytes(e, h) /\ Alike(e, h) /\ Snapshot(h) = Snapshot(e)
  BY <1>1, <1>6 DEF SameBytes, Alike
<1> QED BY <1>1, <1>2, <1>6, <1>7 DEF new

LEMMA SameBlock ==
  ASSUME NEW e, NEW f, SameBytes(e, f), Alike(e, f)
  PROVE  /\ Marked(f) = Marked(e) /\ StartMark(f) = StartMark(e) /\ EndMark(f) = EndMark(e)
         /\ GetBlock(f) = GetBlock(e)
<1>1. Marked(f) = Marked(e) /\ StartMark(f) = StartMark(e) /\ EndMark(f) = EndMark(e)
  BY DEF Marked, StartMark, EndMark, MarkedEnds, SameBytes, Alike
<1>2. \A i : GetByte(f, i) = GetByte(e, i)
  BY SameTexts
<1> QED BY <1>1, <1>2 DEF GetBlock

LEMMA ExecuteKept ==
  ASSUME NEW e, NEW all \in Seq(Snaps), NEW strict \in BOOLEAN, Kept(e, all, strict),
         NEW command \in Commands,
         strict /\ command = "copy" /\ Marked(e) => e.last_byte + Len(GetBlock(e)) <= SIZE_LIMIT
  PROVE  Kept(Execute(e, command), all, strict)
<1>0. Newline \in Byte
  BY DEF Newline, Byte
<1>1. CASE command = "left"
  <2>1. Execute(e, command) = Left(e)
    BY <1>1 DEF Execute
  <2> QED BY <2>1, LeftKept
<1>2. CASE command = "right"
  <2>1. Execute(e, command) = Right(e)
    BY <1>2 DEF Execute
  <2> QED BY <2>1, RightKept
<1>3. CASE command = "up"
  <2>1. Execute(e, command) = Up(e)
    BY <1>3 DEF Execute
  <2> QED BY <2>1, UpKept
<1>4. CASE command = "down"
  <2>1. Execute(e, command) = Down(e)
    BY <1>4 DEF Execute
  <2> QED BY <2>1, DownKept
<1>5. CASE command = "top"
  <2>1. Execute(e, command) = Top(e)
    BY <1>5 DEF Execute
  <2> QED BY <2>1, TopKept
<1>6. CASE command = "return"
  <2>1. Execute(e, command) = Insert(e, Newline)
    BY <1>6 DEF Execute
  <2> QED BY <1>0, <2>1, InsertKept
<1>7. CASE command = "home"
  <2>1. Execute(e, command) = MoveTo(e, Bol(e, e.curs1))
    BY <1>7 DEF Execute
  <2> QED BY <2>1, HomeKept
<1>8. CASE command = "end"
  <2>1. Execute(e, command) = MoveTo(e, Eol(e, e.curs1))
    BY <1>8 DEF Execute
  <2> QED BY <2>1, EndKept
<1>9. CASE command = "backspace"
  <2>1. Execute(e, command) = Backspace(e)
    BY <1>9 DEF Execute
  <2> QED BY <2>1, BackspaceKept
<1>10. CASE command = "delete"
  <2>1. Execute(e, command) = Delete(e)
    BY <1>10 DEF Execute
  <2> QED BY <2>1, DeleteKept
<1>11. CASE command = "delete_line"
  <2>1. Execute(e, command) = DeleteLine(e)
    BY <1>11 DEF Execute
  <2> QED BY <2>1, DeleteLineKept
<1>12. CASE command = "delete_to_line_end"
  <2>1. Execute(e, command) = DeleteToLineEnd(e)
    BY <1>12 DEF Execute
  <2> QED BY <2>1, EndKept
<1>13. CASE command = "delete_to_line_begin"
  <2>1. Execute(e, command) = DeleteToLineBegin(e)
    BY <1>13 DEF Execute
  <2> QED BY <2>1, HomeKept
<1>14. CASE command = "mark"
  <2>1. Execute(e, command) = MarkCmd(e)
    BY <1>14 DEF Execute
  <2> QED BY <2>1, MarkCmdKept
<1>15. CASE command = "unmark"
  <2>1. Execute(e, command) = Unmark(e)
    BY <1>15 DEF Execute
  <2> QED BY <2>1, MarkCmdKept
<1>16. CASE command = "mark_all"
  <2>1. Execute(e, command) = MarkAll(e)
    BY <1>16 DEF Execute
  <2> QED BY <2>1, MarkCmdKept
<1>17. CASE command = "copy"
  <2>1. Execute(e, command) = BlockCopy(e)
    BY <1>17 DEF Execute
  <2> QED BY <1>17, <2>1, BlockCopyKept
<1>18. CASE command = "move"
  <2>1. Execute(e, command) = BlockMove(e)
    BY <1>18 DEF Execute
  <2> QED BY <2>1, BlockMoveKept
<1>19. CASE command = "block_delete"
  <2>1. Execute(e, command) = BlockDelete(e)
    BY <1>19 DEF Execute
  <2> QED BY <2>1, BlockDeleteKept
<1> QED BY <1>1, <1>2, <1>3, <1>4, <1>5, <1>6, <1>7, <1>8, <1>9, <1>10, <1>11, <1>12, <1>13, <1>14, <1>15, <1>16, <1>17, <1>18, <1>19 DEF Commands

LEMMA WithColumnKept ==
  ASSUME NEW e, NEW all \in Seq(Snaps), NEW strict \in BOOLEAN, Kept(e, all, strict)
  PROVE  LET f == WithColumn(e)
         IN Kept(f, all, strict) /\ Snapshot(f) = Snapshot(e) /\ f.stack = e.stack
<1> DEFINE f == WithColumn(e)
           c == Column(e)
<1>1. /\ Sound(e) /\ IsEdit(e) /\ Plain(e) /\ e.curs1 \in Nat /\ (strict => InRange(e))
  BY KeptIs DEF Kept, Sound
<1>2. c \in Int
  <2>1. Bol(e, e.curs1) \in 0 .. e.curs1
    BY <1>1, BolIs
  <2> QED BY <1>1, <2>1 DEF Column
<1> HIDE DEF c
<1>3. f = [x \in Fields |-> IF x = "prev_col" THEN c ELSE e[x]]
  BY <1>1 DEF WithColumn, IsEdit, Fields, c
<1> HIDE DEF f
<1>4. IsEdit(f)
  BY <1>3 DEF IsEdit
<1>5. /\ Beside(e, f) /\ f.start_display = e.start_display
      /\ f.start_line = e.start_line /\ f.prev_col = c
      /\ f.mark1 = e.mark1 /\ f.mark2 = e.mark2 /\ f.stack_disable = e.stack_disable
      /\ f.last_byte = e.last_byte /\ f.stack = e.stack
  BY <1>3 DEF SameBytes, Beside, Fields
<1>6. Plain(f)
  BY <1>1, <1>2, <1>5 DEF Plain
<1>7. /\ Sound(f) /\ Snapshot(f) = Snapshot(e) /\ (InRange(e) => InRange(f))
  BY <1>1, <1>4, <1>5, <1>6, BesideIs DEF InRange
<1>8. Kept(f, all, strict)
  BY <1>1, <1>5, <1>7 DEF Kept
<1> QED BY <1>5, <1>7, <1>8 DEF f

(* What is remembered after a key.                                         *)
LEMMA RememberedIs ==
  ASSUME NEW f, NEW all \in Seq(Snaps), Kept(f, all, TRUE)
  PROVE  LET n == KeyPresses(f.stack)
             r == SubSeq(all, Len(all) - n + 1, Len(all))
         IN Kept(f, r, TRUE) /\ n \in 0 .. Len(all) /\ r \in Seq(Snaps) /\ Len(r) = n
<1> DEFINE n == KeyPresses(f.stack)
           r == SubSeq(all, Len(all) - n + 1, Len(all))
<1>1. PICK q : StandsFor(Entries(f.stack), q) /\ InRange(f) /\ \E k : Leads(q, all, Snapshot(f), k)
  BY DEF Kept
<1>2. PICK k : Leads(q, all, Snapshot(f), k)
  BY <1>1
<1>3. PICK p, c : Walk(q, all, p, c) /\ c[0] = k
  BY <1>2 DEF Leads
<1>4. IsRing(f.stack) /\ q \in Seq(Nat)
  BY <1>1 DEF Kept, Ring, StandsFor
<1>5. Tally(q, c) /\ c[Len(q)] = Len(all)
  BY <1>3 DEF Walk
<1>6. n = Len(all) - k
  BY <1>1, <1>3, <1>4, <1>5, KeyPressesAre
<1>7. k \in 0 .. Len(all) /\ Len(all) \in Nat
  BY <1>2, <1>4, LeadsType
<1> HIDE DEF n
<1>8. Len(all) - n + 1 = k + 1 /\ n \in 0 .. Len(all)
  BY <1>6, <1>7
<1>9. r = SubSeq(all, k + 1, Len(all))
  BY <1>8
<1> HIDE DEF r
<1>10. Leads(q, r, Snapshot(f), 0)
  BY <1>2, <1>4, <1>9, LeadsFrom
<1>11. r \in Seq(Snaps) /\ Len(r) = n
  <2>1. Len(all) \in k .. Len(all)
    BY <1>7
  <2>2. r \in Seq(Snaps) /\ Len(r) = Len(all) - k
    BY <1>7, <1>9, <2>1, AllPart
  <2> QED BY <2>2, <1>6
<1>12. Kept(f, r, TRUE)
  BY <1>1, <1>10 DEF Kept
<1> QED BY <1>8, <1>11, <1>12 DEF n, r

-----------------------------------------------------------------------------
(* The window, and the fields undo sets by itself.                         *)
LEMMA LinesCounted ==
  ASSUME NEW e, Sound(e), NEW a \in Nat
  PROVE  /\ \A b \in Nat : CountLines(e, a, b) \in Nat /\ (b <= a => CountLines(e, a, b) = 0)
         /\ \A b \in a .. e.last_byte :
              CountLines(e, a, b) = LinesTo(Text(e), b) - LinesTo(Text(e), a)
<1> DEFINE S(b) == {i \in a .. b - 1 : i >= 0 /\ i < e.last_byte /\ GetByte(e, i) = Newline}
           t == Text(e)
           n == e.last_byte
           L(b) == LinesTo(t, b)
<1>1. /\ n \in Nat
      /\ \A j \in 1 .. n : t[j] = GetByte(e, j - 1)
  BY SnapshotIs, TextIs DEF Sound
<1>2. \A b \in Nat : IsFiniteSet(S(b)) /\ Cardinality(S(b)) \in Nat
  <2> SUFFICES ASSUME NEW b \in Nat PROVE IsFiniteSet(S(b)) /\ Cardinality(S(b)) \in Nat
    OBVIOUS
  <2>1. IsFiniteSet(a .. b - 1)
    <3>1. a \in Int /\ b - 1 \in Int
      OBVIOUS
    <3> QED BY <3>1, FS_Interval
  <2>2. S(b) \subseteq a .. b - 1
    OBVIOUS
  <2>3. IsFiniteSet(S(b))
    BY <2>1, <2>2, FS_Subset
  <2> QED BY <2>3, FS_CardinalityType
<1>3. \A b \in Nat : CountLines(e, a, b) = Cardinality(S(b))
  BY DEF CountLines
<1>4. \A b \in Nat : b <= a => S(b) = {}
  OBVIOUS
<1>5. \A b \in a .. n - 1 : Cardinality(S(b + 1)) = Cardinality(S(b)) + One(GetByte(e, b) = Newline)
  <2> SUFFICES ASSUME NEW b \in a .. n - 1
               PROVE  Cardinality(S(b + 1)) = Cardinality(S(b)) + One(GetByte(e, b) = Newline)
    OBVIOUS
  <2>0. b \in Nat /\ b \notin S(b) /\ b < n /\ b + 1 - 1 = b
    BY <1>1
  <2>9. IsFiniteSet(S(b)) /\ Cardinality(S(b)) \in Nat
    BY <2>0, <1>2
  <2>1. CASE GetByte(e, b) = Newline
    <3>1. S(b + 1) = S(b) \cup {b}
      BY <2>0, <2>1, <1>1
    <3>2. Cardinality(S(b) \cup {b}) = Cardinality(S(b)) + 1
      BY <2>0, <2>9, FS_AddElement
    <3> HIDE DEF S
    <3> QED BY <2>1, <3>1, <3>2 DEF One
  <2>2. CASE GetByte(e, b) # Newline
    <3>1. S(b + 1) = S(b)
      BY <2>0, <2>2, <1>1
    <3> HIDE DEF S
    <3> QED BY <2>2, <2>9, <3>1 DEF One
  <2> QED BY <2>1, <2>2
<1>6. \A b \in a .. n - 1 : L(b + 1) = L(b) + One(GetByte(e, b) = Newline)
  <2> SUFFICES ASSUME NEW b \in a .. n - 1
               PROVE  L(b + 1) = L(b) + One(GetByte(e, b) = Newline)
    OBVIOUS
  <2>1. b \in Nat /\ b + 1 \in 1 .. n /\ b + 1 - 1 = b
    BY <1>1
  <2>2. t[b + 1] = GetByte(e, b)
    BY <1>1, <2>1
  <2> HIDE DEF t
  <2>3. L(b + 1) = L(b) + One(t[b + 1] = Newline)
    BY <2>1, LinesNext
  <2> QED BY <2>2, <2>3
<1>7. \A b \in Nat : L(b) \in Nat
  BY LinesType
<1> DEFINE K(b) == Cardinality(S(b))
<1>8. K(a) = 0
  BY <1>4, FS_EmptySet
<1>9. \A b \in Nat : K(b) \in Nat
  BY <1>2
<1>10. \A b \in a .. n - 1 : K(b + 1) = K(b) + One(GetByte(e, b) = Newline)
  BY <1>5
<1> HIDE DEF S, K, L, t, n
<1>11. \A b \in a .. n : K(b) = L(b) - L(a)
  <2>1. CASE a <= n
    <3> DEFINE T == {k \in 0 .. n - a : K(a + k) = L(a + k) - L(a)}
    <3>1. 0 \in T
      BY <1>1, <1>7, <1>8, <2>1
    <3>2. \A k \in 0 .. n - a - 1 : k \in T => k + 1 \in T
      <4> SUFFICES ASSUME NEW k \in 0 .. n - a - 1, k \in T PROVE k + 1 \in T
        OBVIOUS
      <4>1. a + k \in a .. n - 1 /\ a + (k + 1) = a + k + 1 /\ k + 1 \in 0 .. n - a
            /\ a + k \in Nat /\ a + k + 1 \in Nat
        BY <1>1
      <4>2. K(a + k + 1) = K(a + k) + One(GetByte(e, a + k) = Newline)
        BY <1>10, <4>1
      <4>3. L(a + k + 1) = L(a + k) + One(GetByte(e, a + k) = Newline)
        BY <1>6, <4>1
      <4>4. One(GetByte(e, a + k) = Newline) \in Int
        BY DEF One
      <4>5. L(a + k) \in Nat /\ K(a + k) \in Nat /\ L(a) \in Nat /\ K(a + k) = L(a + k) - L(a)
        BY <1>7, <1>9, <4>1
      <4>6. K(a + k + 1) = L(a + k + 1) - L(a)
        BY <4>2, <4>3, <4>4, <4>5
      <4> QED BY <4>1, <4>6
    <3>3. n - a \in Nat
      BY <1>1, <2>1
    <3> HIDE DEF T
    <3>4. \A k \in 0 .. n - a : k \in T
      BY <3>1, <3>2, <3>3, UpTo
    <3> SUFFICES ASSUME NEW b \in a .. n PROVE K(b) = L(b) - L(a)
      OBVIOUS
    <3>5. b - a \in 0 .. n - a /\ a + (b - a) = b
      BY <1>1
    <3> QED BY <3>4, <3>5 DEF T
  <2>2. CASE ~ (a <= n)
    BY <1>1, <2>2
  <2> QED BY <2>1, <2>2
<1>12. \A b \in Nat : CountLines(e, a, b) = K(b)
  BY <1>3 DEF K
<1>13. \A b \in Nat : b <= a => K(b) = 0
  BY <1>4, FS_EmptySet DEF K
<1>14. \A b \in a .. n : b \in Nat
  BY <1>1
<1>15. \A b \in Nat : CountLines(e, a, b) \in Nat /\ (b <= a => CountLines(e, a, b) = 0)
  BY <1>9, <1>12, <1>13
<1>16. \A b \in a .. n : CountLines(e, a, b) = LinesTo(t, b) - LinesTo(t, a)
  BY <1>11, <1>12, <1>14 DEF L
<1> QED BY <1>15, <1>16 DEF t, n

LEMMA WindowBackIs ==
  ASSUME NEW e, Sound(e), NEW d \in Nat
  PROVE  LET f == WindowBack(e, d)
         IN /\ Sound(f) /\ Snapshot(f) = Snapshot(e) /\ f.last_byte = e.last_byte
            /\ f.stack = e.stack /\ f.stack_disable = e.stack_disable
            /\ InRange(e) /\ d \in 0 .. e.last_byte => InRange(f)
<1> DEFINE f == WindowBack(e, d)
           s == e.start_display
           y == e.start_line - CountLines(e, d, s) + CountLines(e, s, d)
<1>1. IsEdit(e) /\ Plain(e) /\ e.last_byte \in Nat /\ s \in Nat /\ e.start_line \in Int
  BY SnapshotIs DEF Sound, Plain
<1>2. /\ CountLines(e, d, s) \in Nat /\ CountLines(e, s, d) \in Nat
      /\ s <= d => CountLines(e, d, s) = 0
      /\ d <= s => CountLines(e, s, d) = 0
  BY <1>1, LinesCounted
<1>3. y \in Int
  BY <1>1, <1>2
<1>4. f = [x \in Fields |-> IF x = "start_display" THEN d ELSE IF x = "start_line" THEN y ELSE e[x]]
  BY <1>1 DEF WindowBack, IsEdit, Fields
<1> HIDE DEF f
<1>5. IsEdit(f)
  BY <1>4 DEF IsEdit
<1>6. /\ Beside(e, f) /\ f.start_display = d /\ f.start_line = y
      /\ f.prev_col = e.prev_col /\ f.mark1 = e.mark1 /\ f.mark2 = e.mark2
      /\ f.stack = e.stack /\ f.stack_disable = e.stack_disable /\ f.last_byte = e.last_byte
  BY <1>4 DEF Beside, SameBytes, Fields
<1>7. Plain(f)
  BY <1>1, <1>3, <1>6 DEF Plain
<1>8. /\ Sound(f) /\ Text(f) = Text(e) /\ Snapshot(f) = Snapshot(e)
      /\ Markable(e) => Markable(f)
  BY <1>5, <1>6, <1>7, BesideIs
<1>9. ASSUME InRange(e), d \in 0 .. e.last_byte PROVE Windowed(f)
  <2> DEFINE L(b) == LinesTo(Text(e), b)
  <2>1. s \in 0 .. e.last_byte /\ e.start_line = L(s) /\ L(s) \in Nat /\ L(d) \in Nat
    BY <1>9, LinesType DEF InRange, Windowed
  <2>2. s <= d => CountLines(e, s, d) = L(d) - L(s)
    <3>1. s <= d => d \in s .. e.last_byte
      BY <1>9, <2>1
    <3> HIDE DEF s
    <3> QED BY <1>1, <3>1, LinesCounted
  <2>3. d <= s => CountLines(e, d, s) = L(s) - L(d)
    <3>1. d <= s => s \in d .. e.last_byte
      BY <1>9, <2>1
    <3> HIDE DEF s
    <3> QED BY <1>1, <3>1, LinesCounted
  <2> HIDE DEF L, s
  <2>4. y = L(d)
    BY <1>1, <1>2, <2>1, <2>2, <2>3
  <2>5. d \in 0 .. f.last_byte
    BY <1>6, <1>9
  <2>6. f.start_line = LinesTo(Text(f), d)
    BY <1>6, <1>8, <2>4 DEF L
  <2> QED BY <1>6, <2>5, <2>6 DEF Windowed
<1> QED BY <1>6, <1>8, <1>9 DEF InRange, f

LEMMA SwitchedIs ==
  ASSUME NEW e, Sound(e), NEW b
  PROVE  LET f == [e EXCEPT !.stack_disable = b]
         IN /\ Sound(f) /\ Snapshot(f) = Snapshot(e) /\ f.last_byte = e.last_byte
            /\ f.stack = e.stack /\ f.stack_disable = b
            /\ InRange(e) => InRange(f)
<1> DEFINE f == [e EXCEPT !.stack_disable = b]
<1>1. IsEdit(e) /\ Plain(e)
  BY DEF Sound
<1>4. f = [x \in Fields |-> IF x = "stack_disable" THEN b ELSE e[x]]
  BY <1>1 DEF IsEdit, Fields
<1> HIDE DEF f
<1>5. IsEdit(f)
  BY <1>4 DEF IsEdit
<1>6. /\ Beside(e, f) /\ f.start_display = e.start_display /\ f.start_line = e.start_line
      /\ f.prev_col = e.prev_col /\ f.mark1 = e.mark1 /\ f.mark2 = e.mark2
      /\ f.stack = e.stack /\ f.stack_disable = b /\ f.last_byte = e.last_byte
  BY <1>4 DEF Beside, SameBytes, Fields
<1>7. Plain(f)
  BY <1>1, <1>6 DEF Plain
<1>8. /\ Sound(f) /\ Text(f) = Text(e) /\ Snapshot(f) = Snapshot(e)
      /\ Markable(e) => Markable(f)
      /\ Windowed(e) => Windowed(f)
  BY <1>5, <1>6, <1>7, BesideIs
<1> QED BY <1>6, <1>8 DEF InRange, f

LEMMA PoppedIs ==
  ASSUME NEW e, Sound(e), NEW u
  PROVE  LET f == [e EXCEPT !.stack = u]
         IN /\ Sound(f) /\ Snapshot(f) = Snapshot(e) /\ f.last_byte = e.last_byte
            /\ f.stack = u /\ f.stack_disable = e.stack_disable
            /\ InRange(e) => InRange(f)
<1> DEFINE f == [e EXCEPT !.stack = u]
<1>1. IsEdit(e) /\ Plain(e)
  BY DEF Sound
<1>4. f = [x \in Fields |-> IF x = "stack" THEN u ELSE e[x]]
  BY <1>1 DEF IsEdit, Fields
<1> HIDE DEF f
<1>5. IsEdit(f)
  BY <1>4 DEF IsEdit
<1>6. /\ Beside(e, f) /\ f.start_display = e.start_display /\ f.start_line = e.start_line
      /\ f.prev_col = e.prev_col /\ f.mark1 = e.mark1 /\ f.mark2 = e.mark2
      /\ f.stack = u /\ f.stack_disable = e.stack_disable /\ f.last_byte = e.last_byte
  BY <1>4 DEF Beside, SameBytes, Fields
<1>7. Plain(f)
  BY <1>1, <1>6 DEF Plain
<1>8. /\ Sound(f) /\ Text(f) = Text(e) /\ Snapshot(f) = Snapshot(e)
      /\ Markable(e) => Markable(f)
      /\ Windowed(e) => Windowed(f)
  BY <1>5, <1>6, <1>7, BesideIs
<1> QED BY <1>6, <1>8 DEF InRange, f

-----------------------------------------------------------------------------
(* How often the loop of an undo runs, and what it does.                   *)
Sums(h, u) ==
  /\ h[0] = 1
  /\ \A k \in 1 .. Depth(u) : h[k] = h[k - 1] + Weight(Entry(u, u.stack_bottom + k - 1))

LEMMA PopsRuns ==
  ASSUME NEW u, Depth(u) \in Nat
  PROVE  \E h : Sums(h, u) /\ Pops(u) = h[Depth(u)]
<1> DEFINE n == Depth(u)
           W(k) == Weight(Entry(u, u.stack_bottom + k - 1))
           F(h, m) == h = [k \in 0 .. m |-> IF k = 0 THEN 1 ELSE h[k - 1] + W(k)]
           T == {m \in 0 .. n : \E h : F(h, m)}
<1>0. n \in Nat
  OBVIOUS
<1> HIDE DEF n, W
<1>1. 0 \in T
  <2> DEFINE h == [k \in 0 .. 0 |-> 1]
  <2>1. F(h, 0)
    <3>1. \A k \in 0 .. 0 : k = 0
      OBVIOUS
    <3> QED BY <3>1
  <2> HIDE DEF F, h
  <2> QED BY <1>0, <2>1
<1>2. ASSUME NEW m \in 0 .. n - 1, m \in T PROVE m + 1 \in T
  <2>1. PICK g : F(g, m)
    BY <1>2
  <2> DEFINE h == [k \in 0 .. m + 1 |-> IF k = 0 THEN 1 ELSE g[k - 1] + W(k)]
  <2>2. \A k \in 0 .. m : h[k] = g[k]
    <3> SUFFICES ASSUME NEW k \in 0 .. m PROVE h[k] = g[k]
      OBVIOUS
    <3>1. g[k] = IF k = 0 THEN 1 ELSE g[k - 1] + W(k)
      BY <2>1
    <3>2. k \in 0 .. m + 1
      OBVIOUS
    <3>3. h[k] = IF k = 0 THEN 1 ELSE g[k - 1] + W(k)
      BY <3>2
    <3> QED BY <3>1, <3>3
  <2>3. \A k \in 0 .. m + 1 : (IF k = 0 THEN 1 ELSE h[k - 1] + W(k))
                            = IF k = 0 THEN 1 ELSE g[k - 1] + W(k)
    <3> HIDE DEF h
    <3>1. \A k \in 0 .. m + 1 : k # 0 => h[k - 1] = g[k - 1]
      <4> SUFFICES ASSUME NEW k \in 0 .. m + 1, k # 0 PROVE h[k - 1] = g[k - 1]
        OBVIOUS
      <4>1. k - 1 \in 0 .. m
        OBVIOUS
      <4> QED BY <4>1, <2>2
    <3> QED BY <3>1, Zenon
  <2>4. F(h, m + 1)
    BY <2>3
  <2>5. m + 1 \in 0 .. n
    BY <1>0
  <2> HIDE DEF F, h
  <2> QED BY <2>4, <2>5
<1>3. n \in T
  <2>1. \A m \in 0 .. n - 1 : m \in T => m + 1 \in T
    BY <1>2
  <2> HIDE DEF T
  <2>2. \A k \in 0 .. n : k \in T
    BY <1>0, <1>1, <2>1, UpTo
  <2> QED BY <1>0, <2>2
<1> DEFINE h == CHOOSE h : F(h, n)
<1>4. F(h, n)
  BY <1>3
<1>5. Pops(u) = h[n]
  BY DEF Pops, n, W
<1> HIDE DEF h
<1>6. Sums(h, u)
  BY <1>0, <1>4 DEF Sums, n, W
<1> QED BY <1>5, <1>6 DEF n

LEMMA PopsEnough ==
  ASSUME NEW u, Ring(u), NEW q, StandsFor(Entries(u), q)
  PROVE  Pops(u) \in Nat /\ Len(q) \in Nat /\ Pops(u) >= Len(q) + 1
<1> DEFINE s == Entries(u)
           n == Depth(u)
<1>1. /\ n \in Nat /\ Len(s) = n
      /\ \A k \in 1 .. n : Entry(u, u.stack_bottom + k - 1) = s[k]
  <2>1. n \in Nat /\ Len(s) = n
    BY EntriesAre, DepthIs DEF Ring
  <2> QED BY <2>1 DEF Entries
<1>2. Formed(s) /\ q \in Seq(Nat)
  BY DEF StandsFor, Shape
<1>3. PICK f : Layout(s, q, f)
  BY DEF StandsFor
<1>4. PICK h : Sums(h, u) /\ Pops(u) = h[n]
  BY <1>1, PopsRuns
<1>5. /\ h[0] = 1
      /\ \A k \in 1 .. n : h[k] = h[k - 1] + Weight(s[k])
  BY <1>1, <1>4 DEF Sums
<1> HIDE DEF s, n
<1>6. f[0] = 0 /\ f[n] = Len(q) /\ Len(q) \in Nat
  BY <1>1, <1>2, <1>3 DEF Layout
<1> DEFINE T == {k \in 0 .. n : h[k] \in Nat /\ h[k] >= f[k] + 1}
<1>7. 0 \in T
  BY <1>1, <1>5, <1>6
<1>8. \A k \in 0 .. n - 1 : k \in T => k + 1 \in T
  <2> SUFFICES ASSUME NEW k \in 0 .. n - 1, k \in T PROVE k + 1 \in T
    OBVIOUS
  <2>1. k + 1 \in 1 .. n /\ k + 1 - 1 = k /\ k + 1 \in 0 .. n /\ k + 1 \in 1 .. Len(s)
    BY <1>1
  <2>2. f[k] \in Nat /\ f[k + 1] \in Nat /\ s[k + 1] \in Int
    <3>1. /\ (k + 1) - 1 \in 0 .. Len(s) /\ f[(k + 1) - 1] \in Nat /\ f[k + 1] \in Nat
          /\ s[k + 1] \in Int
      BY <1>2, <1>3, <2>1, LayoutStep
    <3> QED BY <2>1, <3>1
  <2>3. /\ s[k + 1] >= 0 => f[k + 1] = f[k] + 1
        /\ s[k + 1] < 0 => f[k + 1] = f[k] - s[k + 1] - 1
    BY <1>3, <2>1 DEF Layout
  <2>4. h[k + 1] = h[k] + Weight(s[k + 1])
    BY <1>5, <2>1
  <2>5. h[k] \in Nat /\ h[k] >= f[k] + 1
    OBVIOUS
  <2>6. CASE s[k + 1] >= 0
    <3>1. Weight(s[k + 1]) = 1
      BY <2>2, <2>6 DEF Weight
    <3>2. h[k + 1] \in Nat /\ h[k + 1] >= f[k + 1] + 1
      BY <2>2, <2>3, <2>4, <2>5, <2>6, <3>1
    <3> QED BY <2>1, <3>2
  <2>7. CASE s[k + 1] < 0
    <3>1. Weight(s[k + 1]) = - s[k + 1]
      BY <2>7 DEF Weight
    <3>2. h[k + 1] \in Nat /\ h[k + 1] >= f[k + 1] + 1
      BY <2>2, <2>3, <2>4, <2>5, <2>7, <3>1
    <3> QED BY <2>1, <3>2
  <2> QED BY <2>2, <2>6, <2>7
<1> HIDE DEF T
<1>9. \A k \in 0 .. n : k \in T
  BY <1>1, <1>7, <1>8, UpTo
<1>10. h[n] \in Nat /\ h[n] >= f[n] + 1
  BY <1>1, <1>9 DEF T
<1> QED BY <1>4, <1>6, <1>10

UndoRuns(h, n, e) ==
  /\ h[0] = [e |-> [e EXCEPT !.stack_disable = TRUE], ac |-> 0]
  /\ \A k \in 1 .. n : h[k] = UndoOne(h[k - 1])

LEMMA DoUndoRuns ==
  ASSUME NEW e, Pops(e.stack) \in Nat
  PROVE  \E h : LET n == Pops(e.stack)
                IN UndoRuns(h, n, e) /\ DoUndo(e) = UndoEnds(h[n].e, h[n].ac)
<1> DEFINE n == Pops(e.stack)
           r == [e |-> [e EXCEPT !.stack_disable = TRUE], ac |-> 0]
           F(h, m) == h = [k \in 0 .. m |-> IF k = 0 THEN r ELSE UndoOne(h[k - 1])]
           T == {m \in 0 .. n : \E h : F(h, m)}
<1>0. n \in Nat
  OBVIOUS
<1> HIDE DEF n, r
<1>1. 0 \in T
  <2> DEFINE h == [k \in 0 .. 0 |-> r]
  <2>1. F(h, 0)
    <3>1. \A k \in 0 .. 0 : k = 0
      OBVIOUS
    <3> QED BY <3>1
  <2> HIDE DEF F, h
  <2> QED BY <1>0, <2>1
<1>2. ASSUME NEW m \in 0 .. n - 1, m \in T PROVE m + 1 \in T
  <2>1. PICK g : F(g, m)
    BY <1>2
  <2> DEFINE h == [k \in 0 .. m + 1 |-> IF k = 0 THEN r ELSE UndoOne(g[k - 1])]
  <2>2. \A k \in 0 .. m : h[k] = g[k]
    <3> SUFFICES ASSUME NEW k \in 0 .. m PROVE h[k] = g[k]
      OBVIOUS
    <3>1. g[k] = IF k = 0 THEN r ELSE UndoOne(g[k - 1])
      BY <2>1
    <3>2. k \in 0 .. m + 1
      OBVIOUS
    <3>3. h[k] = IF k = 0 THEN r ELSE UndoOne(g[k - 1])
      BY <3>2
    <3> QED BY <3>1, <3>3
  <2>3. \A k \in 0 .. m + 1 : (IF k = 0 THEN r ELSE UndoOne(h[k - 1]))
                            = IF k = 0 THEN r ELSE UndoOne(g[k - 1])
    <3> HIDE DEF h
    <3>1. \A k \in 0 .. m + 1 : k # 0 => h[k - 1] = g[k - 1]
      <4> SUFFICES ASSUME NEW k \in 0 .. m + 1, k # 0 PROVE h[k - 1] = g[k - 1]
        OBVIOUS
      <4>1. k - 1 \in 0 .. m
        OBVIOUS
      <4> QED BY <4>1, <2>2
    <3> QED BY <3>1, Zenon
  <2>4. F(h, m + 1)
    BY <2>3
  <2>5. m + 1 \in 0 .. n
    BY <1>0
  <2> HIDE DEF F, h
  <2> QED BY <2>4, <2>5
<1>3. n \in T
  <2>1. \A m \in 0 .. n - 1 : m \in T => m + 1 \in T
    BY <1>2
  <2> HIDE DEF T
  <2>2. \A k \in 0 .. n : k \in T
    BY <1>0, <1>1, <2>1, UpTo
  <2> QED BY <1>0, <2>2
<1> DEFINE h == CHOOSE h : F(h, n)
<1>4. F(h, n)
  BY <1>3
<1>5. DoUndo(e) = UndoEnds(h[n].e, h[n].ac)
  BY DEF DoUndo, n, r
<1> HIDE DEF h
<1>6. UndoRuns(h, n, e)
  <2>1. h[0] = r
    BY <1>0, <1>4
  <2>2. \A k \in 1 .. n : h[k] = UndoOne(h[k - 1])
    BY <1>0, <1>4
  <2> QED BY <2>1, <2>2 DEF UndoRuns, r
<1> QED BY <1>5, <1>6 DEF n

-----------------------------------------------------------------------------
(* The loop of an undo, on the way and at its end.                         *)
Standing(e, q, all, strict) ==
  /\ StandsFor(Entries(e.stack), q)
  /\ strict => InRange(e) /\ Leads(q, all, Snapshot(e), 0)

UnderWay(r, q, all, x, strict) ==
  /\ r.ac \in Nat /\ ~ AtKeyPress(r.ac) /\ Rewinds(r.e) /\ Standing(r.e, q, all, strict)
  /\ q = <<>> => Snapshot(r.e) = x

Before(all) == SubSeq(all, 1, Len(all) - 1)

Stopped(r, all, x, strict) ==
  /\ r.ac \in Nat /\ AtKeyPress(r.ac) /\ Rewinds(r.e)
  /\ strict /\ r.ac >= KEY_PRESS => r.ac - KEY_PRESS \in 0 .. r.e.last_byte
  /\ \E q : /\ all = <<>> => Standing(r.e, q, all, strict)
            /\ all # <<>> => Standing(r.e, q, Before(all), strict)
  /\ strict => Snapshot(r.e) = IF all = <<>> THEN x ELSE all[Len(all)]

LEMMA StandsFirst ==
  ASSUME NEW s, NEW q, StandsFor(s, q), q # <<>>
  PROVE  q[1] >= KEY_PRESS /\ Len(q) \in Nat /\ Len(q) > 0 /\ q \in Seq(Nat)
<1>1. PICK f : Layout(s, q, f)
  BY DEF StandsFor
<1>2. Formed(s) /\ q \in Seq(Nat) /\ (Len(s) > 0 => s[1] >= KEY_PRESS)
  BY DEF StandsFor, Shape
<1>3. Len(q) \in Nat /\ Len(q) > 0
  BY <1>2
<1>4. Len(s) \in Nat /\ Len(s) > 0
  <2>1. Len(s) = 0 <=> Len(q) = 0
    BY <1>1, <1>2, LayoutTop
  <2>2. Len(s) \in Nat
    BY <1>2, FormedIs
  <2> QED BY <1>3, <2>1, <2>2
<1>5. 1 \in 1 .. Len(s)
  BY <1>4
<1>6. s[1] \in Int /\ s[1] >= KEY_PRESS /\ s[1] >= 0
  <2>1. s[1] \in Int /\ s[1] >= KEY_PRESS
    BY <1>2, <1>4, <1>5, FormedIs
  <2> QED BY <2>1, KeyPressIs
<1>7. f[1] = f[0] + 1 /\ q[f[1]] = s[1] /\ f[0] = 0
  <2>1. f[1] = f[1 - 1] + 1 /\ q[f[1]] = s[1] /\ f[0] = 0
    BY <1>1, <1>5, <1>6 DEF Layout
  <2> QED BY <2>1
<1> QED BY <1>2, <1>3, <1>6, <1>7

LEMMA CodesEnd ==
  /\ \A a : Code(a) /\ a < KEY_PRESS => ~ AtKeyPress(a) /\ a \in Nat
  /\ \A a : Code(a) /\ a >= KEY_PRESS => AtKeyPress(a) /\ a \in Nat
  /\ AtKeyPress(STACK_BOTTOM) /\ STACK_BOTTOM \in Nat /\ ~ (STACK_BOTTOM >= KEY_PRESS)
  /\ ~ AtKeyPress(0)
<1>1. /\ AtKeyPress(STACK_BOTTOM) /\ STACK_BOTTOM \in Nat /\ ~ (STACK_BOTTOM >= KEY_PRESS)
      /\ ~ AtKeyPress(0)
  BY SMT DEF AtKeyPress, STACK_BOTTOM, KEY_PRESS
<1>2. \A a : Code(a) /\ a >= KEY_PRESS => AtKeyPress(a) /\ a \in Nat
  BY CodeIs DEF AtKeyPress
<1>3. \A a : Code(a) /\ a < KEY_PRESS => ~ AtKeyPress(a) /\ a \in Nat
  BY CodeIs, SMT DEF Code, AtKeyPress, STACK_BOTTOM, KEY_PRESS, CURS_LEFT, CURS_RIGHT, DELCHAR,
                BACKSPACE, MARK_1
<1> QED BY <1>1, <1>2, <1>3

LEMMA UndoOneIs ==
  ASSUME NEW r, NEW q, NEW all \in Seq(Snaps), NEW x, NEW strict \in BOOLEAN,
         UnderWay(r, q, all, x, strict)
  PROVE  \/ Stopped(UndoOne(r), all, x, strict)
         \/ /\ q # <<>> /\ UnderWay(UndoOne(r), SubSeq(q, 1, Len(q) - 1), all, x, strict)
<1> DEFINE e == r.e
           p == PopAction(e.stack)
           f == [e EXCEPT !.stack = p.stack]
           a == p.action
           g == UndoOne(r)
           q2 == SubSeq(q, 1, Len(q) - 1)
<1>1. /\ Rewinds(e) /\ Sound(e) /\ Ring(e.stack) /\ StandsFor(Entries(e.stack), q)
      /\ ~ AtKeyPress(r.ac) /\ e.stack_disable = TRUE
      /\ strict => InRange(e) /\ Leads(q, all, Snapshot(e), 0)
      /\ q = <<>> => Snapshot(e) = x
  BY DEF UnderWay, Standing, Rewinds
<1>2. g = [e |-> IF AtKeyPress(a) THEN f ELSE Reversed(f, a), ac |-> a]
  BY <1>1 DEF UndoOne
<1>3. g.e = (IF AtKeyPress(a) THEN f ELSE Reversed(f, a)) /\ g.ac = a
  BY <1>2
<1>4. /\ Ring(p.stack)
      /\ q = <<>> => a = STACK_BOTTOM /\ StandsFor(Entries(p.stack), q)
      /\ q # <<>> => /\ a = q[Len(q)] /\ Code(a)
                     /\ StandsFor(Entries(p.stack), q2)
  BY <1>1, PopStands
<1>5. /\ Sound(f) /\ Snapshot(f) = Snapshot(e) /\ f.last_byte = e.last_byte
      /\ f.stack = p.stack /\ f.stack_disable = TRUE /\ (InRange(e) => InRange(f))
  BY <1>1, PoppedIs
<1>6. q \in Seq(Nat)
  BY <1>1 DEF StandsFor
<1>7. Rewinds(f)
  BY <1>4, <1>5 DEF Rewinds
<1>20. /\ Snapshot(e) = <<Text(e), e.curs1>> /\ Len(Text(e)) = e.last_byte
       /\ Snapshot(e)[1] = Text(e) /\ Snapshot(e) \in Snaps
  BY <1>1, SnapshotIs
<1> HIDE DEF e, p, f, a, g, q2
<1>8. CASE q = <<>>
  <2>1. AtKeyPress(a) /\ a \in Nat /\ ~ (a >= KEY_PRESS) /\ g.e = f /\ g.ac = a
    BY <1>3, <1>4, <1>8, CodesEnd
  <2>2. Standing(f, q, all, strict)
    BY <1>1, <1>4, <1>5, <1>8 DEF Standing
  <2>3. strict => all = <<>>
    <3> SUFFICES ASSUME strict PROVE all = <<>>
      OBVIOUS
    <3>1. PICK pp, c : Walk(q, all, pp, c) /\ c[0] = 0
      BY <1>1 DEF Leads
    <3>2. Len(all) = 0
      BY <1>8, <3>1 DEF Walk
    <3> QED BY <3>2
  <2>4. ~strict => Standing(f, q, Before(all), strict)
    BY <2>2 DEF Standing
  <2>5. strict => Snapshot(f) = x
    BY <1>1, <1>5, <1>8
  <2> QED BY <1>7, <2>1, <2>2, <2>3, <2>4, <2>5 DEF Stopped, g
<1>9. CASE q # <<>> /\ a >= KEY_PRESS
  <2>1. AtKeyPress(a) /\ a \in Nat /\ g.e = f /\ g.ac = a
    BY <1>3, <1>4, <1>9, CodesEnd
  <2>2. strict => /\ Len(all) > 0 /\ all[Len(all)] = Snapshot(e)
                  /\ a - KEY_PRESS \in 0 .. e.last_byte
                  /\ Leads(q2, Before(all), Snapshot(e), 0)
    <3> SUFFICES ASSUME strict
                 PROVE /\ Len(all) > 0 /\ all[Len(all)] = Snapshot(e)
                       /\ a - KEY_PRESS \in 0 .. e.last_byte
                       /\ Leads(q2, Before(all), Snapshot(e), 0)
      OBVIOUS
    <3>1. Leads(q, all, Snapshot(e), 0) /\ q[Len(q)] = a
      BY <1>1, <1>4, <1>9
    <3>2. /\ Len(all) > 0 /\ all[Len(all)] = Snapshot(e)
          /\ a - KEY_PRESS \in 0 .. Len(Snapshot(e)[1])
          /\ Leads(q2, Before(all), Snapshot(e), 0)
      BY <1>6, <1>9, <3>1, LeadsBack DEF q2, Before
    <3> QED BY <3>2, <1>20
  <2>3. Standing(f, q2, Before(all), strict)
    BY <1>1, <1>4, <1>5, <1>9, <2>2 DEF Standing
  <2>4. strict => all # <<>> /\ Snapshot(f) = all[Len(all)]
    BY <1>5, <2>2
  <2>5. strict => a - KEY_PRESS \in 0 .. f.last_byte
    BY <1>5, <2>2
  <2>6. ~strict => Standing(f, q2, all, strict)
    BY <2>3 DEF Standing
  <2> QED BY <1>7, <2>1, <2>3, <2>4, <2>5, <2>6 DEF Stopped, g
<1>10. CASE q # <<>> /\ ~ (a >= KEY_PRESS)
  <2> DEFINE h == Reversed(f, a)
  <2>0. a < KEY_PRESS /\ Code(a)
    BY <1>4, <1>10, CodeIs, KeyPressIs
  <2>1. ~ AtKeyPress(a) /\ a \in Nat /\ g.e = h /\ g.ac = a
    BY <1>3, <2>0, CodesEnd
  <2>2. /\ Rewinds(h) /\ Entries(h.stack) = Entries(f.stack)
        /\ \A y : Undone(a, Snapshot(f), y) => Snapshot(h) = y /\ (InRange(f) => InRange(h))
    BY <1>7, <2>0, ReversedIs
  <2>3. strict => InRange(h) /\ Leads(q2, all, Snapshot(h), 0)
    <3> SUFFICES ASSUME strict PROVE InRange(h) /\ Leads(q2, all, Snapshot(h), 0)
      OBVIOUS
    <3>1. Leads(q, all, Snapshot(e), 0) /\ q[Len(q)] = a
      BY <1>1, <1>4, <1>10
    <3>2. \E y \in Snaps : Undone(a, Snapshot(e), y) /\ Leads(q2, all, y, 0)
      BY <1>6, <1>10, <2>0, <3>1, LeadsBack DEF q2
    <3> QED BY <1>1, <1>5, <2>2, <3>2
  <2>4. Standing(h, q2, all, strict)
    BY <1>4, <1>5, <1>10, <2>2, <2>3 DEF Standing
  <2>5. q2 # <<>>
    <3> SUFFICES ASSUME q2 = <<>> PROVE FALSE
      OBVIOUS
    <3>1. q[1] >= KEY_PRESS /\ Len(q) \in Nat /\ Len(q) > 0
      BY <1>1, <1>10, StandsFirst
    <3>2. Len(q) = 1
      <4>1. Len(q) - 1 \in 0 .. Len(q) /\ 0 \in 0 .. Len(q)
        BY <3>1
      <4>4. Len(SubSeq(q, 0 + 1, Len(q) - 1)) = Len(q) - 1 - 0
        BY <1>6, <4>1, PartIs
      <4>2. Len(q2) = Len(q) - 1
        BY <3>1, <4>4 DEF q2
      <4>3. Len(q2) = 0
        OBVIOUS
      <4> QED BY <3>1, <4>2, <4>3
    <3> QED BY <1>4, <1>10, <3>1, <3>2
  <2> HIDE DEF h
  <2>6. UnderWay(g, q2, all, x, strict)
    BY <2>1, <2>2, <2>4, <2>5 DEF UnderWay
  <2> QED BY <1>10, <2>6 DEF g, q2
<1> QED BY <1>8, <1>9, <1>10

-----------------------------------------------------------------------------
(* An undo.                                                                *)
LEMMA KeptWhole ==
  ASSUME NEW e, NEW all \in Seq(Snaps), NEW strict \in BOOLEAN, Kept(e, all, strict),
         strict => Len(all) = KeyPresses(e.stack)
  PROVE  \E q : Standing(e, q, all, strict)
<1>1. PICK q : /\ StandsFor(Entries(e.stack), q)
               /\ strict => InRange(e) /\ \E k : Leads(q, all, Snapshot(e), k)
  BY DEF Kept
<1>2. IsRing(e.stack) /\ q \in Seq(Nat) /\ Len(all) \in Nat
  BY <1>1 DEF Kept, Ring, StandsFor
<1>3. ASSUME strict PROVE Leads(q, all, Snapshot(e), 0)
  <2>1. PICK k : Leads(q, all, Snapshot(e), k)
    BY <1>1, <1>3
  <2>2. PICK p, c : Walk(q, all, p, c) /\ c[0] = k
    BY <2>1 DEF Leads
  <2>3. Tally(q, c) /\ c[Len(q)] = Len(all)
    BY <2>2 DEF Walk
  <2>4. KeyPresses(e.stack) = Len(all) - k
    BY <1>1, <1>2, <2>2, <2>3, KeyPressesAre
  <2>5. k \in 0 .. Len(all)
    BY <1>2, <2>1, LeadsType
  <2>6. k = 0
    BY <1>2, <1>3, <2>4, <2>5
  <2> QED BY <2>1, <2>6
<1> QED BY <1>1, <1>3 DEF Standing

LEMMA StandingWhole ==
  ASSUME NEW e, Sound(e), Ring(e.stack), e.stack_disable = FALSE,
         NEW q, NEW all \in Seq(Snaps), NEW strict \in BOOLEAN, Standing(e, q, all, strict)
  PROVE  Kept(e, all, strict) /\ (strict => Len(all) = KeyPresses(e.stack))
<1>1. Kept(e, all, strict)
  BY DEF Kept, Standing
<1>2. IsRing(e.stack) /\ q \in Seq(Nat) /\ StandsFor(Entries(e.stack), q) /\ Len(all) \in Nat
  BY DEF Standing, Ring, StandsFor
<1>3. ASSUME strict PROVE Len(all) = KeyPresses(e.stack)
  <2>1. Leads(q, all, Snapshot(e), 0)
    BY <1>3 DEF Standing
  <2>2. PICK p, c : Walk(q, all, p, c) /\ c[0] = 0
    BY <2>1 DEF Leads
  <2>3. Tally(q, c) /\ c[Len(q)] = Len(all)
    BY <2>2 DEF Walk
  <2>4. KeyPresses(e.stack) = Len(all) - 0
    BY <1>2, <2>2, <2>3, KeyPressesAre
  <2> QED BY <1>2, <2>4
<1> QED BY <1>1, <1>3

LEMMA BeforeIs ==
  ASSUME NEW all \in Seq(Snaps), all # <<>>
  PROVE  /\ Before(all) \in Seq(Snaps) /\ Len(Before(all)) = Len(all) - 1 /\ Len(all) \in Nat
         /\ \A i \in 1 .. Len(all) - 1 : Before(all)[i] = all[i]
         /\ all[Len(all)] \in Snaps /\ Len(all) >= 1
<1>1. Len(all) \in Nat /\ Len(all) >= 1
  OBVIOUS
<1>2. 0 \in 0 .. Len(all) /\ Len(all) - 1 \in 0 .. Len(all)
  BY <1>1
<1>3. LET r == SubSeq(all, 0 + 1, Len(all) - 1)
      IN r \in Seq(Snaps) /\ Len(r) = Len(all) - 1 - 0 /\ \A i \in 1 .. Len(all) - 1 - 0 : r[i] = all[i + 0]
  BY <1>2, AllPart
<1>4. 0 + 1 = 1 /\ Len(all) - 1 - 0 = Len(all) - 1 /\ \A i \in 1 .. Len(all) - 1 : i + 0 = i
  BY <1>1
<1>5. /\ Before(all) \in Seq(Snaps) /\ Len(Before(all)) = Len(all) - 1
      /\ \A i \in 1 .. Len(all) - 1 : Before(all)[i] = all[i]
  BY <1>3, <1>4 DEF Before
<1> QED BY <1>1, <1>5

LEMMA DoUndoIs ==
  ASSUME NEW e, NEW all \in Seq(Snaps), NEW strict \in BOOLEAN, Kept(e, all, strict),
         strict => Len(all) = KeyPresses(e.stack)
  PROVE  LET f == DoUndo(e)
             r == IF all = <<>> THEN all ELSE Before(all)
         IN /\ Kept(f, r, strict) /\ r \in Seq(Snaps)
            /\ strict => /\ Snapshot(f) = IF all = <<>> THEN Snapshot(e) ELSE all[Len(all)]
                         /\ Len(r) = KeyPresses(f.stack)
<1> DEFINE n == Pops(e.stack)
           e0 == [e EXCEPT !.stack_disable = TRUE]
           x == Snapshot(e)
           f == DoUndo(e)
           rest == IF all = <<>> THEN all ELSE Before(all)
<1>1. Sound(e) /\ Ring(e.stack) /\ e.stack_disable = FALSE
  BY DEF Kept
<1>2. PICK q : Standing(e, q, all, strict)
  BY KeptWhole
<1>3. StandsFor(Entries(e.stack), q) /\ q \in Seq(Nat)
  BY <1>2 DEF Standing, StandsFor
<1>4. n \in Nat /\ Len(q) \in Nat /\ n >= Len(q) + 1
  BY <1>1, <1>3, PopsEnough
<1>5. PICK h : UndoRuns(h, n, e) /\ f = UndoEnds(h[n].e, h[n].ac)
  BY <1>4, DoUndoRuns
<1>6. /\ Sound(e0) /\ Snapshot(e0) = x /\ e0.stack = e.stack /\ e0.stack_disable = TRUE
      /\ InRange(e) => InRange(e0)
  BY <1>1, SwitchedIs
<1>7. UnderWay(h[0], q, all, x, strict)
  <2>1. h[0].e = e0 /\ h[0].ac = 0
    BY <1>5 DEF UndoRuns
  <2>2. Rewinds(e0)
    BY <1>1, <1>6 DEF Rewinds
  <2>3. Standing(e0, q, all, strict)
    BY <1>2, <1>6 DEF Standing
  <2>4. 0 \in Nat /\ ~ AtKeyPress(0)
    BY CodesEnd
  <2> HIDE DEF e0
  <2> QED BY <1>6, <2>1, <2>2, <2>3, <2>4 DEF UnderWay
<1> HIDE DEF n, e0, x, f
<1> DEFINE T == {k \in 0 .. n : \/ Stopped(h[k], all, x, strict)
                                \/ \E q2 : /\ UnderWay(h[k], q2, all, x, strict)
                                           /\ Len(q2) \in Nat /\ Len(q2) = Len(q) - k}
<1>8. 0 \in T
  <2>1. Len(q) = Len(q) - 0
    BY <1>4
  <2> QED BY <1>4, <1>7, <2>1
<1>9. \A k \in 0 .. n - 1 : k \in T => k + 1 \in T
  <2> SUFFICES ASSUME NEW k \in 0 .. n - 1, k \in T PROVE k + 1 \in T
    OBVIOUS
  <2>1. k + 1 \in 1 .. n /\ k + 1 \in 0 .. n /\ k + 1 - 1 = k
    BY <1>4
  <2>2. h[k + 1] = UndoOne(h[k])
    BY <1>5, <2>1 DEF UndoRuns
  <2>3. CASE Stopped(h[k], all, x, strict)
    <3>1. AtKeyPress(h[k].ac)
      BY <2>3 DEF Stopped
    <3>2. h[k + 1] = h[k]
      BY <2>2, <3>1 DEF UndoOne
    <3> QED BY <2>1, <2>3, <3>2
  <2>4. CASE ~ Stopped(h[k], all, x, strict)
    <3>1. PICK q2 : /\ UnderWay(h[k], q2, all, x, strict)
                    /\ Len(q2) \in Nat /\ Len(q2) = Len(q) - k
      BY <2>4
    <3>2. \/ Stopped(h[k + 1], all, x, strict)
          \/ q2 # <<>> /\ UnderWay(h[k + 1], SubSeq(q2, 1, Len(q2) - 1), all, x, strict)
      BY <2>2, <3>1, UndoOneIs
    <3>3. ASSUME q2 # <<>>
          PROVE  LET q3 == SubSeq(q2, 1, Len(q2) - 1)
                 IN Len(q3) \in Nat /\ Len(q3) = Len(q) - (k + 1)
      <4>1. q2 \in Seq(Nat)
        BY <3>1 DEF UnderWay, Standing, StandsFor
      <4>2. Len(q2) >= 1 /\ 0 \in 0 .. Len(q2) /\ Len(q2) - 1 \in 0 .. Len(q2)
        BY <3>3, <4>1
      <4>3. Len(SubSeq(q2, 0 + 1, Len(q2) - 1)) = Len(q2) - 1 - 0
        BY <4>1, <4>2, PartIs
      <4>4. Len(SubSeq(q2, 1, Len(q2) - 1)) = Len(q2) - 1
        BY <4>2, <4>3
      <4> QED BY <1>4, <3>1, <4>2, <4>4
    <3> QED BY <2>1, <3>2, <3>3
  <2> QED BY <2>3, <2>4
<1> HIDE DEF T
<1>10. \A k \in 0 .. n : k \in T
  BY <1>4, <1>8, <1>9, UpTo
<1> DEFINE g == h[n].e
           a == h[n].ac
<1>11. Stopped(h[n], all, x, strict)
  <2>1. n \in T
    BY <1>4, <1>10
  <2>2. ~ (\E q2 : Len(q2) \in Nat /\ Len(q2) = Len(q) - n)
    BY <1>4
  <2> QED BY <2>1, <2>2 DEF T
<1>12. /\ a \in Nat /\ Rewinds(g) /\ Sound(g) /\ Ring(g.stack) /\ g.last_byte \in Nat
       /\ strict /\ a >= KEY_PRESS => a - KEY_PRESS \in 0 .. g.last_byte
       /\ \E q2 : Standing(g, q2, rest, strict)
       /\ strict => Snapshot(g) = IF all = <<>> THEN x ELSE all[Len(all)]
  BY <1>11, SnapshotIs DEF Stopped, Rewinds
<1> HIDE DEF g, a
<1> DEFINE b == IF a >= KEY_PRESS THEN WindowBack(g, a - KEY_PRESS) ELSE g
<1>13. f = [b EXCEPT !.stack_disable = FALSE]
  BY <1>5 DEF UndoEnds, g, a
<1>14. /\ Sound(b) /\ Snapshot(b) = Snapshot(g) /\ b.stack = g.stack
       /\ strict /\ InRange(g) => InRange(b)
  <2>1. CASE a >= KEY_PRESS
    <3>1. a - KEY_PRESS \in Nat
      BY <1>12, <2>1, KeyPressIs
    <3>2. LET w == WindowBack(g, a - KEY_PRESS)
          IN /\ Sound(w) /\ Snapshot(w) = Snapshot(g) /\ w.stack = g.stack
             /\ InRange(g) /\ a - KEY_PRESS \in 0 .. g.last_byte => InRange(w)
      BY <1>12, <3>1, WindowBackIs
    <3>3. b = WindowBack(g, a - KEY_PRESS)
      BY <2>1
    <3> HIDE DEF b
    <3> QED BY <1>12, <2>1, <3>2, <3>3
  <2>2. CASE ~ (a >= KEY_PRESS)
    BY <1>12, <2>2
  <2> QED BY <2>1, <2>2
<1> HIDE DEF b
<1>15. /\ Sound(f) /\ Snapshot(f) = Snapshot(b) /\ f.stack = b.stack /\ f.stack_disable = FALSE
       /\ InRange(b) => InRange(f)
  BY <1>13, <1>14, SwitchedIs
<1>16. rest \in Seq(Snaps)
  BY BeforeIs
<1> HIDE DEF rest
<1>17. PICK q2 : Standing(g, q2, rest, strict)
  BY <1>12
<1>18. Standing(f, q2, rest, strict) /\ Ring(f.stack)
  BY <1>12, <1>14, <1>15, <1>17 DEF Standing
<1>19. Kept(f, rest, strict) /\ (strict => Len(rest) = KeyPresses(f.stack))
  BY <1>15, <1>16, <1>18, StandingWhole
<1>20. strict => Snapshot(f) = IF all = <<>> THEN Snapshot(e) ELSE all[Len(all)]
  BY <1>12, <1>14, <1>15 DEF x
<1> QED BY <1>16, <1>19, <1>20 DEF f, rest

-----------------------------------------------------------------------------
(* A file that was just loaded.                                            *)
LEMMA EmptyStackIs ==
  LET u == EmptyStack(START_STACK_SIZE)
  IN Ring(u) /\ Entries(u) = <<>> /\ StandsFor(Entries(u), <<>>)
<1> DEFINE u == EmptyStack(START_STACK_SIZE)
           n == START_STACK_SIZE
<1>1. n \in Nat /\ n > 5 /\ n > Slack
  BY UndoStackAssumption
<1>2. /\ u = [undo_stack |-> [i \in 0 .. n - 1 |-> 0], stack_pointer |-> 0,
              stack_bottom |-> 0, stack_size |-> n]
  BY DEF EmptyStack
<1> HIDE DEF u, n
<1>3. /\ u.undo_stack = [i \in 0 .. n - 1 |-> 0] /\ u.stack_pointer = 0
      /\ u.stack_bottom = 0 /\ u.stack_size = n
  BY <1>2
<1>4. IsRing(u)
  <2>1. u = [x \in {"undo_stack", "stack_pointer", "stack_bottom", "stack_size"} |-> u[x]]
    BY <1>2
  <2>2. u.undo_stack \in [0 .. n - 1 -> Int]
    BY <1>3
  <2>3. 0 \in 0 .. n - 1
    BY <1>1
  <2> QED BY <1>1, <1>3, <2>1, <2>2, <2>3 DEF IsRing
<1>5. Depth(u) = 0
  BY <1>3, <1>4, DepthIs
<1>6. Ring(u)
  BY <1>1, <1>3, <1>4, <1>5 DEF Ring
<1>7. Entries(u) = <<>>
  BY <1>5 DEF Entries
<1>8. Shape(<<>>)
  BY DEF Shape, Formed
<1>9. Layout(<<>>, <<>>, [k \in 0 .. 0 |-> 0])
  BY DEF Layout
<1>10. StandsFor(<<>>, <<>>)
  BY <1>8, <1>9 DEF StandsFor
<1> QED BY <1>6, <1>7, <1>10 DEF u

LEMMA LeadsNowhere ==
  ASSUME NEW x \in Snaps
  PROVE  Leads(<<>>, <<>>, x, 0)
<1> DEFINE p == [i \in 0 .. 0 |-> x]
           c == [i \in 0 .. 0 |-> 0]
<1>1. Tally(<<>>, c)
  BY DEF Tally
<1>2. Walk(<<>>, <<>>, p, c)
  BY <1>1 DEF Walk
<1>3. p[Len(<<>>)] = x /\ c[0] = 0
  OBVIOUS
<1> QED BY <1>2, <1>3 DEF Leads

LEMMA LoadedIs ==
  ASSUME NEW t \in Contents
  PROVE  LET e == LoadedText(t)
         IN Sound(e) /\ InRange(e) /\ e.stack_disable = FALSE /\ Text(e) = t /\ e.curs1 = 0
            /\ e.stack = EmptyStack(START_STACK_SIZE)
<1> DEFINE e == LoadedText(t)
           n == Len(t)
           B == EDIT_BUF_SIZE
           P(k, i) == k * B + (B - i - 1)
           V(k, i) == IF P(k, i) < n THEN t[n - P(k, i)] ELSE 0
           lines == Cardinality({i \in DOMAIN t : t[i] = Newline})
<1>1. /\ t \in Seq(Byte) /\ n \in Nat /\ n < SIZE_LIMIT /\ DOMAIN t = 1 .. n
      /\ \A i \in 1 .. n : t[i] \in Byte
  <2>1. t \in Seq(Byte) /\ n < SIZE_LIMIT
    BY EditBufferAssumption DEF Byte
  <2> QED BY <2>1
<1>2. B \in Nat /\ B > 1 /\ SIZE_LIMIT \in Int
  BY EditBufferAssumption, SizeLimitIs
<1>3. e = [buffers1 |-> <<>>,
           buffers2 |-> [k \in 0 .. BlockOf(n) |-> [i \in 0 .. B - 1 |-> V(k, i)]],
           curs1 |-> 0, curs2 |-> n, last_byte |-> n,
           curs_line |-> 0, total_lines |-> lines,
           prev_col |-> 0, start_display |-> 0, start_line |-> 0,
           mark1 |-> 0, mark2 |-> 0,
           stack |-> EmptyStack(START_STACK_SIZE), stack_disable |-> FALSE]
  BY DEF LoadedText
<1> HIDE DEF e, n, B, lines, V
<1>4. /\ IsEdit(e) /\ e.buffers1 = <<>>
      /\ e.buffers2 = [k \in 0 .. BlockOf(n) |-> [i \in 0 .. B - 1 |-> V(k, i)]]
      /\ e.curs1 = 0 /\ e.curs2 = n /\ e.last_byte = n
      /\ e.curs_line = 0 /\ e.total_lines = lines
      /\ e.prev_col = 0 /\ e.start_display = 0 /\ e.start_line = 0
      /\ e.mark1 = 0 /\ e.mark2 = 0
      /\ e.stack = EmptyStack(START_STACK_SIZE) /\ e.stack_disable = FALSE
  BY <1>3 DEF IsEdit, Fields
<1>5. \A k \in Nat : \A i \in 0 .. B - 1 : V(k, i) \in Byte
  <2> SUFFICES ASSUME NEW k \in Nat, NEW i \in 0 .. B - 1 PROVE V(k, i) \in Byte
    OBVIOUS
  <2> DEFINE m == k * B
  <2>1. m \in Nat
    BY <1>2
  <2> HIDE DEF m
  <2>2. P(k, i) = m + (B - i - 1)
    BY DEF m
  <2>3. P(k, i) \in Nat
    BY <1>2, <2>1, <2>2
  <2> HIDE DEF P
  <2>4. P(k, i) < n => n - P(k, i) \in 1 .. n
    BY <1>1, <2>3
  <2>5. 0 \in Byte
    BY DEF Byte
  <2>6. P(k, i) < n => t[n - P(k, i)] \in Byte
    BY <1>1, <2>4
  <2>7. V(k, i) = IF P(k, i) < n THEN t[n - P(k, i)] ELSE 0
    BY DEF V
  <2> QED BY <2>5, <2>6, <2>7
<1>6. BlockOf(n) \in Nat
  BY <1>1, Places
<1>7. Tabled(e)
  <2>1. e.buffers1 \in [Blocks1(e.curs1) -> Block]
    <3>1. Blocks1(0) = {}
      BY DEF Blocks1
    <3> QED BY <1>4, <3>1
  <2>2. \A k \in 0 .. BlockOf(n) : [i \in 0 .. B - 1 |-> V(k, i)] \in Block
    BY <1>5, <1>6 DEF Block, B
  <2>3. e.buffers2 \in [Blocks2(e.curs2) -> Block]
    BY <1>4, <2>2 DEF Blocks2
  <2> QED BY <1>1, <1>4, <2>1, <2>3 DEF Tabled
<1>8. \A p \in 0 .. n - 1 : At2(e, p) = t[n - p]
  <2> SUFFICES ASSUME NEW p \in 0 .. n - 1 PROVE At2(e, p) = t[n - p]
    OBVIOUS
  <2>0. p \in Nat /\ p < n
    BY <1>1
  <2> DEFINE k == BlockOf(p)
             i == Back(p)
  <2>1. /\ k \in Nat /\ Forth(p) \in 0 .. B - 1 /\ i \in 0 .. B - 1
        /\ p = B * k + Forth(p) /\ i = B - Forth(p) - 1
    BY <2>0, Places DEF B, Back
  <2>2. k <= BlockOf(n)
    BY <1>1, <2>0, PlacesUp
  <2>3. k \in DOMAIN e.buffers2 /\ e.buffers2[k][i] = V(k, i)
    BY <1>4, <1>6, <2>1, <2>2
  <2>4. At2(e, p) = V(k, i)
    BY <2>3 DEF At2, Get
  <2>5. P(k, i) = p
    <3> DEFINE m == k * B
    <3>1. m \in Nat /\ B * k = m
      BY <1>2, <2>1
    <3>2. P(k, i) = m + (B - i - 1)
      OBVIOUS
    <3> HIDE DEF m, P, k, i
    <3> QED BY <1>2, <2>0, <2>1, <3>1, <3>2
  <2> HIDE DEF P, k, i
  <2> QED BY <2>0, <2>4, <2>5 DEF V
<1>9. Text(e) = t
  <2>1. Text(e) \in Seq(Byte) /\ Len(Text(e)) = n
    BY <1>4, <1>7, TextIs
  <2>2. ASSUME NEW j \in 1 .. n PROVE Text(e)[j] = t[j]
    <3>1. j - 1 \in Int /\ j - 1 >= 0 /\ j - 1 < n /\ n - (j - 1) - 1 \in 0 .. n - 1
          /\ n - (n - (j - 1) - 1) = j
      BY <1>1
    <3>2. Text(e)[j] = GetByte(e, j - 1)
      BY <1>4, <1>7, TextIs
    <3>3. GetByte(e, j - 1) = At2(e, n - (j - 1) - 1)
      BY <1>4, <1>7, <3>1, ByteIs
    <3> QED BY <1>8, <3>1, <3>2, <3>3
  <2>3. Len(t) = n
    BY DEF n
  <2> QED BY <1>1, <2>1, <2>2, <2>3, SameSeq
<1>10. Lined(e) /\ Windowed(e)
  <2>1. LinesTo(t, 0) = 0
    BY LinesNone
  <2>2. LinesTo(t, n) = lines
    BY <1>1 DEF LinesTo, lines
  <2> QED BY <1>1, <1>4, <1>9, <2>1, <2>2 DEF Lined, Windowed
<1>11. Plain(e) /\ Markable(e)
  BY <1>1, <1>2, <1>4 DEF Plain, Markable
<1> QED BY <1>4, <1>7, <1>9, <1>10, <1>11 DEF Sound, InRange, e

-----------------------------------------------------------------------------
(* A key as a whole.                                                       *)
LEMMA LooseKept ==
  ASSUME NEW e, NEW all, Kept(e, all, FALSE), NEW all2
  PROVE  Kept(e, all2, FALSE)
BY DEF Kept

LEMMA TypedKept ==
  ASSUME NEW e, NEW all \in Seq(Snaps), NEW strict \in BOOLEAN, Kept(e, all, strict),
         NEW c \in Chars, NEW overwrite
  PROVE  Kept(WithColumn(Char(PushKeyPress(e), c, overwrite)), Noted(e, all), strict)
<1> DEFINE f == PushKeyPress(e)
           g == Char(f, c, overwrite)
           r == Noted(e, all)
<1>1. Kept(f, r, strict) /\ r \in Seq(Snaps)
  BY PushKeyPressIs
<1>2. c \in Byte
  BY EditBufferAssumption DEF Byte
<1> HIDE DEF f, r
<1>3. Kept(g, r, strict)
  BY <1>1, <1>2, CharKept
<1> HIDE DEF g
<1>4. Kept(WithColumn(g), r, strict)
  BY <1>1, <1>3, WithColumnKept
<1> QED BY <1>4 DEF f, g, r

LEMMA PerformedKept ==
  ASSUME NEW e, NEW all \in Seq(Snaps), NEW strict \in BOOLEAN, Kept(e, all, strict),
         NEW command \in Commands,
         strict /\ command = "copy" /\ Marked(e) =>
           ~ (e.last_byte + Len(GetBlock(e)) > SIZE_LIMIT)
  PROVE  /\ Kept(Executed(Execute(PushKeyPress(e), command), command), Noted(e, all), strict)
         /\ Kept(WithColumn(PushKeyPress(e)), Noted(e, all), strict)
<1> DEFINE f == PushKeyPress(e)
           g == Execute(f, command)
           r == Noted(e, all)
<1>1. Kept(f, r, strict) /\ r \in Seq(Snaps) /\ SameBytes(e, f) /\ Alike(e, f)
  BY PushKeyPressIs
<1>2. e.last_byte \in Nat /\ Len(GetBlock(e)) \in Nat /\ SIZE_LIMIT \in Int
  <2>1. Sound(e)
    BY DEF Kept
  <2>2. GetBlock(e) \in Seq(Byte)
    BY <2>1, BlockIs
  <2> QED BY <2>1, <2>2, SnapshotIs, SizeLimitIs
<1> HIDE DEF f, r
<1>3. strict /\ command = "copy" /\ Marked(f) => f.last_byte + Len(GetBlock(f)) <= SIZE_LIMIT
  <2>1. f.last_byte = e.last_byte
    BY <1>1 DEF SameBytes
  <2>2. Marked(f) = Marked(e) /\ GetBlock(f) = GetBlock(e)
    BY <1>1, SameBlock
  <2> QED BY <1>2, <2>1, <2>2
<1>4. Kept(g, r, strict)
  BY <1>1, <1>3, ExecuteKept
<1> HIDE DEF g
<1>5. Kept(WithColumn(g), r, strict) /\ Kept(WithColumn(f), r, strict)
  BY <1>1, <1>4, WithColumnKept
<1>6. Kept(Executed(g, command), r, strict)
  BY <1>4, <1>5 DEF Executed
<1> QED BY <1>5, <1>6 DEF f, g, r

LEMMA ScrolledKept ==
  ASSUME NEW e, NEW all \in Seq(Snaps), NEW strict \in BOOLEAN, Kept(e, all, strict),
         NEW d \in 0 .. e.last_byte
  PROVE  LET f == WindowBack(e, d)
         IN Kept(f, all, strict) /\ Snapshot(f) = Snapshot(e) /\ f.stack = e.stack
<1> DEFINE f == WindowBack(e, d)
<1>1. Sound(e) /\ e.stack_disable = FALSE /\ Ring(e.stack) /\ e.last_byte \in Nat
  BY SnapshotIs DEF Kept
<1>2. d \in Nat
  BY <1>1
<1>3. /\ Sound(f) /\ Snapshot(f) = Snapshot(e)
      /\ f.stack = e.stack /\ f.stack_disable = e.stack_disable
      /\ InRange(e) => InRange(f)
  BY <1>1, <1>2, WindowBackIs
<1> HIDE DEF f
<1>4. Kept(f, all, strict)
  BY <1>1, <1>3 DEF Kept
<1> QED BY <1>3, <1>4 DEF f

-----------------------------------------------------------------------------
(* The inductive invariant: buffer, counters and ring are sound and the    *)
(* ring stands for codes that can be undone; as long as no copy was cut    *)
(* off, window and marks are in range, and undoing what the ring stands    *)
(* for leads through exactly the texts and cursors of past.                *)
BufferInv ==
  /\ Kept(edit, <<>>, FALSE)
  /\ last \in {"key", "undo"} /\ cut \in BOOLEAN
  /\ keys \in 0 .. MaxKeys /\ scrolls \in 0 .. MaxScrolls
  /\ ~cut => /\ past \in Seq(Snaps) /\ Kept(edit, past, TRUE)
             /\ Len(past) = KeyPresses(edit.stack)

LEMMA BufferInvInit == BufferInit => BufferInv
<1> SUFFICES ASSUME BufferInit PROVE BufferInv
  OBVIOUS
<1>1. PICK t \in Contents : edit = LoadedText(t)
  BY DEF BufferInit
<1>2. /\ Sound(edit) /\ InRange(edit) /\ edit.stack_disable = FALSE
      /\ edit.stack = EmptyStack(START_STACK_SIZE)
  BY <1>1, LoadedIs
<1>3. /\ Ring(edit.stack) /\ StandsFor(Entries(edit.stack), <<>>)
  BY <1>2, EmptyStackIs
<1>4. Leads(<<>>, <<>>, Snapshot(edit), 0)
  BY <1>2, SnapshotIs, LeadsNowhere
<1>5. Standing(edit, <<>>, <<>>, TRUE) /\ <<>> \in Seq(Snaps)
  BY <1>2, <1>3, <1>4 DEF Standing
<1>6. Kept(edit, <<>>, TRUE) /\ Len(<<>>) = KeyPresses(edit.stack)
  BY <1>2, <1>3, <1>5, StandingWhole
<1>7. Kept(edit, <<>>, FALSE)
  BY <1>6 DEF Kept
<1>8. past = <<>> /\ last = "key" /\ cut = FALSE /\ keys = 0 /\ scrolls = 0
  BY DEF BufferInit
<1>9. keys \in 0 .. MaxKeys /\ scrolls \in 0 .. MaxScrolls
  BY <1>8, EditBufferAssumption
<1>10. past \in Seq(Snaps) /\ Kept(edit, past, TRUE) /\ Len(past) = KeyPresses(edit.stack)
  BY <1>5, <1>6, <1>8
<1> QED BY <1>7, <1>8, <1>9, <1>10 DEF BufferInv

(* A key that keeps the buffer keeps the invariant.                        *)
LEMMA KeyInv ==
  ASSUME BufferInv, NEW f, Key(f), Kept(f, <<>>, FALSE), cut' \in BOOLEAN, cut => cut',
         ~ cut' => Kept(f, Noted(edit, past), TRUE) /\ Noted(edit, past) \in Seq(Snaps)
  PROVE  BufferInv'
<1>1. /\ edit' = f /\ past' = Remembered(edit, f) /\ last' = "key"
      /\ keys < MaxKeys /\ keys' = keys + 1 /\ scrolls' = scrolls
  BY DEF Key
<1>2. Kept(edit', <<>>, FALSE)
  BY <1>1
<1>3. keys' \in 0 .. MaxKeys /\ scrolls' \in 0 .. MaxScrolls
  BY <1>1, EditBufferAssumption DEF BufferInv
<1>4. ASSUME ~ cut'
      PROVE  past' \in Seq(Snaps) /\ Kept(edit', past', TRUE) /\ Len(past') = KeyPresses(edit'.stack)
  <2> DEFINE all == Noted(edit, past)
             n == KeyPresses(f.stack)
             r == SubSeq(all, Len(all) - n + 1, Len(all))
  <2>1. Remembered(edit, f) = r
    BY DEF Remembered, Noted
  <2>2. Kept(f, all, TRUE) /\ all \in Seq(Snaps)
    BY <1>4
  <2> HIDE DEF all
  <2>3. Kept(f, r, TRUE) /\ r \in Seq(Snaps) /\ Len(r) = n
    BY <2>2, RememberedIs
  <2> QED BY <1>1, <2>1, <2>3
<1>5. last' \in {"key", "undo"}
  BY <1>1
<1> QED BY <1>2, <1>3, <1>4, <1>5 DEF BufferInv

LEMMA PastNoted ==
  ASSUME BufferInv, ~cut
  PROVE  Noted(edit, past) \in Seq(Snaps)
<1>1. past \in Seq(Snaps) /\ Kept(edit, past, TRUE)
  BY DEF BufferInv
<1> QED BY <1>1, PushKeyPressIs

LEMMA BufferInvNext == BufferInv /\ [BufferNext]_buffer_vars => BufferInv'
<1> SUFFICES ASSUME BufferInv, [BufferNext]_buffer_vars PROVE BufferInv'
  OBVIOUS
<1>1. /\ Kept(edit, <<>>, FALSE) /\ cut \in BOOLEAN /\ <<>> \in Seq(Snaps)
      /\ FALSE \in BOOLEAN /\ TRUE \in BOOLEAN
      /\ ~cut => /\ past \in Seq(Snaps) /\ Kept(edit, past, TRUE)
                 /\ Len(past) = KeyPresses(edit.stack) /\ Noted(edit, past) \in Seq(Snaps)
  <2>1. <<>> \in Seq(Snaps)
    OBVIOUS
  <2>2. ~cut => Noted(edit, past) \in Seq(Snaps)
    BY PastNoted
  <2>3. /\ Kept(edit, <<>>, FALSE) /\ cut \in BOOLEAN
        /\ ~cut => /\ past \in Seq(Snaps) /\ Kept(edit, past, TRUE)
                   /\ Len(past) = KeyPresses(edit.stack)
    BY DEF BufferInv
  <2> QED BY <2>1, <2>2, <2>3
<1>2. ASSUME NEW c \in Chars, NEW overwrite \in BOOLEAN, Type(c, overwrite) PROVE BufferInv'
  <2> DEFINE f == WithColumn(Char(PushKeyPress(edit), c, overwrite))
  <2>1. Key(f) /\ cut' = cut
    BY <1>2 DEF Type
  <2>2. Kept(f, Noted(edit, <<>>), FALSE)
    BY <1>1, TypedKept
  <2>3. ~cut => Kept(f, Noted(edit, past), TRUE)
    BY <1>1, TypedKept
  <2> HIDE DEF f
  <2>4. Kept(f, <<>>, FALSE)
    BY <2>2, LooseKept
  <2> QED BY <1>1, <2>1, <2>3, <2>4, KeyInv
<1>3. ASSUME NEW command \in Commands, Perform(command) PROVE BufferInv'
  <2> DEFINE f == Executed(Execute(PushKeyPress(edit), command), command)
             g == WithColumn(PushKeyPress(edit))
             late == /\ command = "copy" /\ Marked(edit)
                     /\ edit.last_byte + Len(GetBlock(edit)) > SIZE_LIMIT
  <2>1. (Key(f) \/ Key(g)) /\ cut' = (cut \/ late)
    BY <1>3 DEF Perform
  <2>2. Kept(f, Noted(edit, <<>>), FALSE) /\ Kept(g, Noted(edit, <<>>), FALSE)
    BY <1>1, PerformedKept
  <2>3. ~cut /\ ~late => Kept(f, Noted(edit, past), TRUE) /\ Kept(g, Noted(edit, past), TRUE)
    BY <1>1, PerformedKept
  <2> HIDE DEF f, g, late
  <2>4. Kept(f, <<>>, FALSE) /\ Kept(g, <<>>, FALSE)
    BY <2>2, LooseKept
  <2>5. /\ cut' \in BOOLEAN /\ (cut => cut') /\ (~cut' => ~cut /\ ~late)
    BY <2>1
  <2>6. CASE Key(f)
    BY <1>1, <2>3, <2>4, <2>5, <2>6, KeyInv
  <2>7. CASE Key(g)
    BY <1>1, <2>3, <2>4, <2>5, <2>7, KeyInv
  <2> QED BY <2>1, <2>6, <2>7
<1>4. CASE Undo
  <2> DEFINE f == DoUndo(edit)
             g == WithColumn(f)
             r == IF past = <<>> THEN past ELSE Before(past)
  <2>1. /\ edit' = g /\ past' = r /\ last' = "undo" /\ cut' = cut /\ scrolls' = scrolls
        /\ keys < MaxKeys /\ keys' = keys + 1
    BY <1>4 DEF Undo, Front, Before
  <2>2. \E x : Kept(f, x, FALSE) /\ x \in Seq(Snaps)
    BY <1>1, DoUndoIs
  <2>3. ~cut => Kept(f, r, TRUE) /\ r \in Seq(Snaps) /\ Len(r) = KeyPresses(f.stack)
    BY <1>1, DoUndoIs
  <2> HIDE DEF f, r
  <2>4. \E x : Kept(g, x, FALSE)
    BY <1>1, <2>2, WithColumnKept
  <2>5. Kept(g, <<>>, FALSE)
    BY <2>4, LooseKept
  <2>6. ~cut => Kept(g, r, TRUE) /\ g.stack = f.stack
    BY <1>1, <2>3, WithColumnKept
  <2> HIDE DEF g
  <2>7. keys' \in 0 .. MaxKeys /\ scrolls' \in 0 .. MaxScrolls
    BY <2>1, EditBufferAssumption DEF BufferInv
  <2> QED BY <1>1, <2>1, <2>3, <2>5, <2>6, <2>7 DEF BufferInv
<1>5. CASE Scroll
  <2>1. PICK d \in 0 .. edit.last_byte : edit' = WindowBack(edit, d)
    BY <1>5 DEF Scroll
  <2>2. /\ UNCHANGED <<past, last, cut, keys>>
        /\ scrolls < MaxScrolls /\ scrolls' = scrolls + 1
    BY <1>5 DEF Scroll
  <2>3. Kept(edit', <<>>, FALSE) /\ edit'.stack = edit.stack
    BY <1>1, <2>1, ScrolledKept
  <2>4. ~cut => Kept(edit', past, TRUE)
    BY <1>1, <2>1, ScrolledKept
  <2>5. scrolls' \in 0 .. MaxScrolls
    BY <2>2, EditBufferAssumption DEF BufferInv
  <2> QED BY <1>1, <2>2, <2>3, <2>4, <2>5 DEF BufferInv
<1>6. CASE UNCHANGED buffer_vars
  BY <1>6 DEF BufferInv, buffer_vars
<1> QED BY <1>2, <1>3, <1>4, <1>5, <1>6 DEF BufferNext

LEMMA BufferInvHolds == BufferSpec => []BufferInv
<1> QED BY BufferInvInit, BufferInvNext, PTL DEF BufferSpec

-----------------------------------------------------------------------------
LEMMA BufferInvShows == BufferInv => BufferIsConsistent
<1> SUFFICES ASSUME BufferInv PROVE BufferIsConsistent
  OBVIOUS
<1> DEFINE e == edit
<1>1. /\ Sound(e) /\ Tabled(e) /\ Plain(e) /\ Lined(e) /\ e.stack_disable = FALSE
      /\ Ring(e.stack) /\ IsRing(e.stack)
  BY DEF BufferInv, Kept, Sound, Ring
<1>2. ~cut => InRange(e) /\ Len(past) = KeyPresses(e.stack)
  BY DEF BufferInv, Kept
<1>3. /\ e.curs1 \in Nat /\ e.curs2 \in Nat /\ e.last_byte = e.curs1 + e.curs2
      /\ e.last_byte \in Nat /\ e.last_byte <= SIZE_LIMIT /\ SIZE_LIMIT \in Int
      /\ e.curs1 <= SIZE_LIMIT /\ e.curs2 <= SIZE_LIMIT
      /\ e.curs1 \in 0 .. e.last_byte /\ e.last_byte \in 0 .. e.last_byte
  <2>1. /\ e.curs1 \in Nat /\ e.curs2 \in Nat /\ e.last_byte = e.curs1 + e.curs2
        /\ e.last_byte <= SIZE_LIMIT /\ SIZE_LIMIT \in Int
    BY <1>1, SizeLimitIs DEF Tabled, Plain
  <2> QED BY <2>1
<1>4. BufferTypeOK
  <2>1. /\ e.stack.stack_pointer \in 0 .. e.stack.stack_size - 1
        /\ e.stack.stack_bottom \in 0 .. e.stack.stack_size - 1
    BY <1>1 DEF IsRing
  <2>2. e.last_byte \in 0 .. SIZE_LIMIT
    BY <1>3
  <2>3. /\ last \in {"key", "undo"} /\ cut \in BOOLEAN
        /\ keys \in 0 .. MaxKeys /\ scrolls \in 0 .. MaxScrolls
    BY DEF BufferInv
  <2> QED BY <1>1, <1>2, <1>3, <2>1, <2>2, <2>3 DEF BufferTypeOK
<1>5. BlocksAllocated
  <2>1. DOMAIN e.buffers1 = Blocks1(e.curs1) /\ DOMAIN e.buffers2 = Blocks2(e.curs2)
    BY <1>1 DEF Tabled
  <2>2. ASSUME NEW p \in Nat, p <= SIZE_LIMIT PROVE BlockOf(p) \in 0 .. MAXBUFF
    <3>1. BlockOf(p) \in Nat /\ BlockOf(p) <= MAXBUFF /\ MAXBUFF \in Nat
      BY <2>2, Places, FewBlocks, EditBufferAssumption
    <3> QED BY <3>1
  <2>3. Blocks1(e.curs1) \subseteq 0 .. MAXBUFF
    <3>1. \A p \in 0 .. e.curs1 - 1 : p \in Nat /\ p <= SIZE_LIMIT
      BY <1>3
    <3> QED BY <2>2, <3>1 DEF Blocks1
  <2>4. Blocks2(e.curs2) \subseteq 0 .. MAXBUFF
    <3>1. BlockOf(e.curs2) \in 0 .. MAXBUFF /\ MAXBUFF \in Nat
      BY <1>3, <2>2, EditBufferAssumption
    <3> QED BY <3>1 DEF Blocks2
  <2> QED BY <1>3, <2>1, <2>3, <2>4 DEF BlocksAllocated, Blocks1, Blocks2
<1>6. \A n \in 0 .. e.last_byte : CountLines(e, 0, n) = LinesTo(Text(e), n)
  <2> SUFFICES ASSUME NEW n \in 0 .. e.last_byte PROVE CountLines(e, 0, n) = LinesTo(Text(e), n)
    OBVIOUS
  <2>1. CountLines(e, 0, n) = LinesTo(Text(e), n) - LinesTo(Text(e), 0)
    BY <1>1, LinesCounted
  <2>2. LinesTo(Text(e), n) \in Nat /\ LinesTo(Text(e), 0) = 0
    <3>1. n \in Nat
      BY <1>3
    <3> QED BY <3>1, LinesType, LinesNone
  <2> QED BY <2>1, <2>2
<1>7. CountersMatch
  <2>1. /\ e.curs_line = CountLines(e, 0, e.curs1)
        /\ e.total_lines = CountLines(e, 0, e.last_byte)
    BY <1>1, <1>3, <1>6 DEF Lined
  <2>2. ~cut => /\ e.start_display \in 0 .. e.last_byte
                /\ e.start_line = CountLines(e, 0, e.start_display)
    BY <1>2, <1>6 DEF InRange, Windowed
  <2> QED BY <2>1, <2>2 DEF CountersMatch
<1>8. MarksInRange
  BY <1>2 DEF InRange, Markable, MarksInRange
<1> QED BY <1>4, <1>5, <1>7, <1>8 DEF BufferIsConsistent

(* In every reachable state of the editor buffer, whatever was typed,      *)
(* marked, copied, moved, deleted, scrolled and undone, what edit.c keeps  *)
(* beside the text agrees with it: exactly the blocks that hold text are   *)
(* allocated and the tables are not overrun, the counters of lines are     *)
(* right, the undo ring stays within its bounds, and window and marks stay *)
(* inside the text unless a block copy was cut off at the limit.           *)
THEOREM BufferStaysConsistent == BufferSpec => []BufferIsConsistent
BY BufferInvHolds, BufferInvShows, PTL

-----------------------------------------------------------------------------
(* Ends of sequences of texts and cursors.                                 *)
Ends(s, t) ==
  /\ Len(s) <= Len(t)
  /\ \A i \in 1 .. Len(s) : s[i] = t[Len(t) - Len(s) + i]

LEMMA EndsSuffix ==
  ASSUME NEW s \in Seq(Snaps), NEW t \in Seq(Snaps), Ends(s, t)
  PROVE  IsSuffix(s, t)
<1> DEFINE m == Len(s)
           n == Len(t)
           a == [i \in 1 .. m |-> s[(m - i) + 1]]
           b == [i \in 1 .. n |-> t[(n - i) + 1]]
<1>1. /\ m \in Nat /\ n \in Nat /\ m <= n
      /\ \A i \in 1 .. m : s[i] \in Snaps /\ s[i] = t[n - m + i]
      /\ \A i \in 1 .. n : t[i] \in Snaps
  BY DEF Ends
<1>2. Reverse(s) = a /\ Reverse(t) = b
  BY DEF Reverse
<1> HIDE DEF m, n
<1>3. a \in Seq(Snaps) /\ b \in Seq(Snaps) /\ Len(a) = m /\ Len(b) = n
  <2>1. \A i \in 1 .. m : s[(m - i) + 1] \in Snaps
    BY <1>1
  <2>2. \A i \in 1 .. n : t[(n - i) + 1] \in Snaps
    BY <1>1
  <2>3. a \in Seq(Snaps) /\ Len(a) = m
    BY <1>1, <2>1
  <2>4. b \in Seq(Snaps) /\ Len(b) = n
    BY <1>1, <2>2
  <2> QED BY <2>3, <2>4
<1>4. \A i \in 1 .. m : a[i] = b[i]
  <2> SUFFICES ASSUME NEW i \in 1 .. m PROVE a[i] = b[i]
    OBVIOUS
  <2>1. i \in 1 .. n /\ (m - i) + 1 \in 1 .. m /\ n - m + ((m - i) + 1) = (n - i) + 1
    BY <1>1
  <2>2. a[i] = s[(m - i) + 1] /\ b[i] = t[(n - i) + 1]
    BY <2>1
  <2>3. s[(m - i) + 1] = t[n - m + ((m - i) + 1)]
    BY <1>1, <2>1
  <2> QED BY <2>1, <2>2, <2>3
<1> HIDE DEF a, b
<1>5. SubSeq(a, 1, m) = SubSeq(b, 1, m)
  BY <1>1, <1>3, <1>4
<1> QED BY <1>1, <1>2, <1>3, <1>5 DEF IsSuffix, IsPrefix

LEMMA EndsAppend ==
  ASSUME NEW s \in Seq(Snaps), NEW t \in Seq(Snaps), Ends(s, t), NEW x \in Snaps
  PROVE  Ends(Append(s, x), Append(t, x))
<1>1. Len(s) \in Nat /\ Len(t) \in Nat /\ Len(s) <= Len(t)
  BY DEF Ends
<1>2. Len(Append(s, x)) = Len(s) + 1 /\ Len(Append(t, x)) = Len(t) + 1
  OBVIOUS
<1>3. ASSUME NEW i \in 1 .. Len(s) + 1
      PROVE  Append(s, x)[i] = Append(t, x)[(Len(t) + 1) - (Len(s) + 1) + i]
  <2>1. (Len(t) + 1) - (Len(s) + 1) + i = Len(t) - Len(s) + i
    BY <1>1
  <2>2. CASE i = Len(s) + 1
    <3>1. Len(t) - Len(s) + i = Len(t) + 1
      BY <1>1, <2>2
    <3> QED BY <2>1, <2>2, <3>1
  <2>3. CASE i # Len(s) + 1
    <3>1. i \in 1 .. Len(s) /\ Len(t) - Len(s) + i \in 1 .. Len(t)
      BY <1>1, <2>3
    <3>2. s[i] = t[Len(t) - Len(s) + i]
      BY <3>1 DEF Ends
    <3> QED BY <2>1, <3>1, <3>2
  <2> QED BY <2>2, <2>3
<1> QED BY <1>1, <1>2, <1>3, SMTT(60) DEF Ends

LEMMA EmptyEnds ==
  ASSUME NEW t \in Seq(Snaps)
  PROVE  Ends(<<>>, t)
<1>1. Len(t) \in Nat /\ Len(<<>>) = 0
  OBVIOUS
<1> QED BY <1>1 DEF Ends

LEMMA EndsSame ==
  ASSUME NEW t \in Seq(Snaps)
  PROVE  Ends(t, t)
<1>1. Len(t) \in Nat /\ \A i \in 1 .. Len(t) : Len(t) - Len(t) + i = i
  OBVIOUS
<1> QED BY <1>1 DEF Ends

-----------------------------------------------------------------------------
(* The history without repetitions.                                        *)
Behind(h, s) ==
  /\ h[0] = <<>>
  /\ \A k \in 1 .. Len(s) - 1 :
       h[k] = IF s[k + 1] = s[k] THEN h[k - 1] ELSE Append(h[k - 1], s[k])

LEMMA DistinctRuns ==
  ASSUME NEW s, Len(s) \in Nat, Len(s) >= 1
  PROVE  \E h : Behind(h, s) /\ Distinct(s) = h[Len(s) - 1]
<1> DEFINE n == Len(s) - 1
           N(x, k) == IF s[k + 1] = s[k] THEN x ELSE Append(x, s[k])
           F(h, m) == h = [k \in 0 .. m |-> IF k = 0 THEN <<>> ELSE N(h[k - 1], k)]
           T == {m \in 0 .. n : \E h : F(h, m)}
<1>0. n \in Nat
  OBVIOUS
<1> HIDE DEF n, N
<1>1. 0 \in T
  <2> DEFINE h == [k \in 0 .. 0 |-> <<>>]
  <2>1. F(h, 0)
    <3>1. \A k \in 0 .. 0 : k = 0
      OBVIOUS
    <3> QED BY <3>1
  <2> HIDE DEF F, h
  <2> QED BY <1>0, <2>1
<1>2. ASSUME NEW m \in 0 .. n - 1, m \in T PROVE m + 1 \in T
  <2>1. PICK g : F(g, m)
    BY <1>2
  <2> DEFINE h == [k \in 0 .. m + 1 |-> IF k = 0 THEN <<>> ELSE N(g[k - 1], k)]
  <2>2. \A k \in 0 .. m : h[k] = g[k]
    <3> SUFFICES ASSUME NEW k \in 0 .. m PROVE h[k] = g[k]
      OBVIOUS
    <3>1. g[k] = IF k = 0 THEN <<>> ELSE N(g[k - 1], k)
      BY <2>1
    <3>2. k \in 0 .. m + 1
      OBVIOUS
    <3>3. h[k] = IF k = 0 THEN <<>> ELSE N(g[k - 1], k)
      BY <3>2
    <3> QED BY <3>1, <3>3
  <2>3. \A k \in 0 .. m + 1 : (IF k = 0 THEN <<>> ELSE N(h[k - 1], k))
                            = IF k = 0 THEN <<>> ELSE N(g[k - 1], k)
    <3> HIDE DEF h
    <3>1. \A k \in 0 .. m + 1 : k # 0 => h[k - 1] = g[k - 1]
      <4> SUFFICES ASSUME NEW k \in 0 .. m + 1, k # 0 PROVE h[k - 1] = g[k - 1]
        OBVIOUS
      <4>1. k - 1 \in 0 .. m
        OBVIOUS
      <4> QED BY <4>1, <2>2
    <3> QED BY <3>1, Zenon
  <2>4. F(h, m + 1)
    BY <2>3
  <2>5. m + 1 \in 0 .. n
    BY <1>0
  <2> HIDE DEF F, h
  <2> QED BY <2>4, <2>5
<1>3. n \in T
  <2>1. \A m \in 0 .. n - 1 : m \in T => m + 1 \in T
    BY <1>2
  <2> HIDE DEF T
  <2>2. \A k \in 0 .. n : k \in T
    BY <1>0, <1>1, <2>1, UpTo
  <2> QED BY <1>0, <2>2
<1> DEFINE h == CHOOSE h : F(h, n)
<1>4. F(h, n)
  BY <1>3
<1> HIDE DEF h
<1>5. Distinct(s) = h[n]
  BY DEF Distinct, n, N, h
<1>6. Behind(h, s)
  <2>1. h[0] = <<>>
    BY <1>0, <1>4
  <2>2. \A k \in 1 .. n : h[k] = N(h[k - 1], k)
    BY <1>0, <1>4
  <2> QED BY <2>1, <2>2 DEF Behind, n, N
<1> QED BY <1>5, <1>6 DEF n

LEMMA BehindType ==
  ASSUME NEW s \in Seq(Snaps), NEW h, Behind(h, s), Len(s) >= 1
  PROVE  \A k \in 0 .. Len(s) - 1 : h[k] \in Seq(Snaps)
<1> DEFINE n == Len(s) - 1
           T == {k \in 0 .. n : h[k] \in Seq(Snaps)}
<1>1. n \in Nat /\ \A k \in 1 .. n : s[k] \in Snaps /\ s[k + 1] \in Snaps
  OBVIOUS
<1>2. 0 \in T
  <2>1. h[0] = <<>> /\ <<>> \in Seq(Snaps)
    BY DEF Behind
  <2>2. 0 \in 0 .. n
    BY <1>1
  <2>3. h[0] \in Seq(Snaps)
    BY <2>1
  <2> HIDE DEF n
  <2> QED BY <2>2, <2>3
<1>3. \A k \in 0 .. n - 1 : k \in T => k + 1 \in T
  <2> SUFFICES ASSUME NEW k \in 0 .. n - 1, k \in T PROVE k + 1 \in T
    OBVIOUS
  <2>1. k + 1 \in 1 .. n /\ k + 1 \in 0 .. n /\ k + 1 - 1 = k
    BY <1>1
  <2>2. h[k + 1] = IF s[k + 1 + 1] = s[k + 1] THEN h[k] ELSE Append(h[k], s[k + 1])
    BY <2>1 DEF Behind
  <2>3. h[k] \in Seq(Snaps) /\ s[k + 1] \in Snaps
    BY <1>1, <2>1
  <2>4. h[k + 1] \in Seq(Snaps)
    BY <2>2, <2>3
  <2> QED BY <2>1, <2>4
<1> HIDE DEF T, n
<1>4. \A k \in 0 .. n : k \in T
  BY <1>1, <1>2, <1>3, UpTo
<1> QED BY <1>4 DEF T, n

LEMMA DistinctOne ==
  ASSUME NEW x
  PROVE  Distinct(<<x>>) = <<>>
<1>1. Len(<<x>>) = 1
  OBVIOUS
<1>2. PICK h : Behind(h, <<x>>) /\ Distinct(<<x>>) = h[Len(<<x>>) - 1]
  BY <1>1, DistinctRuns
<1> QED BY <1>1, <1>2 DEF Behind

(* One more at the end.                                                    *)
LEMMA DistinctAppend ==
  ASSUME NEW s \in Seq(Snaps), s # <<>>, NEW x \in Snaps
  PROVE  /\ Distinct(s) \in Seq(Snaps)
         /\ Distinct(Append(s, x))
              = IF x = s[Len(s)] THEN Distinct(s) ELSE Append(Distinct(s), s[Len(s)])
<1> DEFINE n == Len(s)
           t == Append(s, x)
<1>1. /\ n \in Nat /\ n >= 1 /\ t \in Seq(Snaps) /\ Len(t) = n + 1 /\ t[n + 1] = x
      /\ \A k \in 1 .. n : t[k] = s[k]
  OBVIOUS
<1>2. PICK h : Behind(h, s) /\ Distinct(s) = h[n - 1]
  BY <1>1, DistinctRuns
<1>3. PICK g : Behind(g, t) /\ Distinct(t) = g[n]
  <2>1. Len(t) \in Nat /\ Len(t) >= 1 /\ Len(t) - 1 = n
    BY <1>1
  <2> HIDE DEF t, n
  <2> QED BY <2>1, DistinctRuns
<1>4. /\ h[0] = <<>> /\ \A k \in 1 .. n - 1 : h[k] = IF s[k + 1] = s[k] THEN h[k - 1] ELSE Append(h[k - 1], s[k])
      /\ g[0] = <<>> /\ \A k \in 1 .. n : g[k] = IF t[k + 1] = t[k] THEN g[k - 1] ELSE Append(g[k - 1], t[k])
  BY <1>1, <1>2, <1>3 DEF Behind
<1>5. n - 1 \in 0 .. n - 1 /\ h[n - 1] \in Seq(Snaps)
  <2>1. \A k \in 0 .. n - 1 : h[k] \in Seq(Snaps)
    BY <1>1, <1>2, BehindType
  <2> QED BY <1>1, <2>1
<1> HIDE DEF t, n
<1> DEFINE T == {k \in 0 .. n - 1 : g[k] = h[k]}
<1>6. 0 \in T
  BY <1>1, <1>4
<1>7. \A k \in 0 .. n - 1 - 1 : k \in T => k + 1 \in T
  <2> SUFFICES ASSUME NEW k \in 0 .. n - 1 - 1, k \in T PROVE k + 1 \in T
    OBVIOUS
  <2>1. k + 1 \in 1 .. n - 1 /\ k + 1 \in 1 .. n /\ k + 1 + 1 \in 1 .. n /\ k + 1 - 1 = k
        /\ k + 1 \in 0 .. n - 1
    BY <1>1
  <2>2. t[k + 1] = s[k + 1] /\ t[k + 1 + 1] = s[k + 1 + 1] /\ g[k] = h[k]
    BY <1>1, <2>1
  <2>3. h[k + 1] = IF s[k + 1 + 1] = s[k + 1] THEN h[k] ELSE Append(h[k], s[k + 1])
    BY <1>4, <2>1
  <2>4. g[k + 1] = IF t[k + 1 + 1] = t[k + 1] THEN g[k] ELSE Append(g[k], t[k + 1])
    BY <1>4, <2>1
  <2>5. g[k + 1] = h[k + 1]
    BY <2>2, <2>3, <2>4
  <2> QED BY <2>1, <2>5
<1> HIDE DEF T
<1>8. \A k \in 0 .. n - 1 : k \in T
  <2>1. n - 1 \in Nat
    BY <1>1
  <2> QED BY <1>6, <1>7, <2>1, UpTo
<1>9. g[n - 1] = h[n - 1]
  BY <1>5, <1>8 DEF T
<1>10. g[n] = IF x = s[n] THEN h[n - 1] ELSE Append(h[n - 1], s[n])
  <2>1. n \in 1 .. n
    BY <1>1
  <2>2. g[n] = IF t[n + 1] = t[n] THEN g[n - 1] ELSE Append(g[n - 1], t[n])
    BY <1>4, <2>1, SMTT(60)
  <2> QED BY <1>1, <1>9, <2>1, <2>2
<1> QED BY <1>2, <1>3, <1>5, <1>10 DEF t, n

(* The end of a history ends its history without repetitions.              *)
LEMMA DistinctEnds ==
  ASSUME NEW s \in Seq(Snaps), NEW m \in Nat, m < Len(s)
  PROVE  LET r == SubSeq(s, m + 1, Len(s))
         IN /\ r \in Seq(Snaps) /\ Len(r) = Len(s) - m /\ r[Len(r)] = s[Len(s)]
            /\ Distinct(r) \in Seq(Snaps) /\ Distinct(s) \in Seq(Snaps)
            /\ Ends(Distinct(r), Distinct(s))
<1> DEFINE n == Len(s)
           r == SubSeq(s, m + 1, n)
           l == n - m
<1>1. n \in Nat /\ n >= 1 /\ l \in Nat /\ l >= 1
  OBVIOUS
<1>2. r \in Seq(Snaps) /\ Len(r) = l /\ \A i \in 1 .. l : r[i] = s[i + m]
  <2>1. m \in 0 .. Len(s) /\ n \in m .. Len(s)
    OBVIOUS
  <2> QED BY <2>1, AllPart
<1>3. PICK h : Behind(h, s) /\ Distinct(s) = h[n - 1]
  BY <1>1, DistinctRuns
<1>4. PICK g : Behind(g, r) /\ Distinct(r) = g[l - 1]
  <2>1. Len(r) \in Nat /\ Len(r) >= 1 /\ Len(r) = l
    BY <1>1, <1>2
  <2> HIDE DEF r, l
  <2> QED BY <2>1, DistinctRuns
<1>5. \A k \in 0 .. n - 1 : h[k] \in Seq(Snaps)
  BY <1>1, <1>3, BehindType
<1>6. \A k \in 0 .. l - 1 : g[k] \in Seq(Snaps)
  <2> HIDE DEF r
  <2> QED BY <1>1, <1>2, <1>4, BehindType
<1>7. /\ \A k \in 1 .. n - 1 : h[k] = IF s[k + 1] = s[k] THEN h[k - 1] ELSE Append(h[k - 1], s[k])
      /\ g[0] = <<>> /\ \A k \in 1 .. l - 1 : g[k] = IF r[k + 1] = r[k] THEN g[k - 1] ELSE Append(g[k - 1], r[k])
  BY <1>2, <1>3, <1>4 DEF Behind
<1>8. \A i \in 1 .. n : s[i] \in Snaps
  OBVIOUS
<1>20. n = l + m /\ m \in Nat
  OBVIOUS
<1> HIDE DEF n, r, l
<1> DEFINE T == {k \in 0 .. l - 1 : Ends(g[k], h[k + m])}
<1>9. 0 \in T
  <2>1. 0 + m \in 0 .. n - 1
    BY <1>1, <1>20
  <2>2. Ends(<<>>, h[0 + m])
    BY <1>5, <2>1, EmptyEnds
  <2> QED BY <1>1, <1>7, <2>2
<1>10. \A k \in 0 .. l - 1 - 1 : k \in T => k + 1 \in T
  <2> SUFFICES ASSUME NEW k \in 0 .. l - 1 - 1, k \in T PROVE k + 1 \in T
    OBVIOUS
  <2>1. /\ k \in 0 .. l - 1 /\ k + 1 \in 0 .. l - 1 /\ k + 1 \in 1 .. l - 1 /\ k + 1 \in 1 .. l
        /\ k + 1 + 1 \in 1 .. l /\ k + 1 - 1 = k
        /\ k + m \in 0 .. n - 1 /\ k + 1 + m \in 1 .. n - 1 /\ k + 1 + m \in 1 .. n
        /\ k + 1 + m - 1 = k + m /\ k + 1 + 1 + m = k + 1 + m + 1
    BY <1>1, <1>20
  <2>2. r[k + 1] = s[k + 1 + m] /\ r[k + 1 + 1] = s[k + 1 + m + 1] /\ s[k + 1 + m] \in Snaps
    BY <1>2, <1>8, <2>1
  <2>3. g[k + 1] = IF r[k + 1 + 1] = r[k + 1] THEN g[k] ELSE Append(g[k], r[k + 1])
    BY <1>7, <2>1
  <2>4. h[k + 1 + m] = IF s[k + 1 + m + 1] = s[k + 1 + m] THEN h[k + m] ELSE Append(h[k + m], s[k + 1 + m])
    BY <1>7, <2>1
  <2>5. g[k] \in Seq(Snaps) /\ h[k + m] \in Seq(Snaps) /\ Ends(g[k], h[k + m])
    BY <1>5, <1>6, <2>1
  <2>6. Ends(Append(g[k], s[k + 1 + m]), Append(h[k + m], s[k + 1 + m]))
    BY <2>2, <2>5, EndsAppend
  <2>7. Ends(g[k + 1], h[k + 1 + m])
    BY <2>2, <2>3, <2>4, <2>5, <2>6
  <2> QED BY <2>1, <2>7
<1> HIDE DEF T
<1>11. \A k \in 0 .. l - 1 : k \in T
  <2>1. l - 1 \in Nat
    BY <1>1
  <2> QED BY <1>9, <1>10, <2>1, UpTo
<1>12. l - 1 \in 0 .. l - 1 /\ l - 1 + m = n - 1 /\ n - 1 \in 0 .. n - 1
  BY <1>1, <1>20
<1>13. Ends(g[l - 1], h[n - 1])
  BY <1>11, <1>12 DEF T
<1>14. r[l] = s[n]
  BY <1>1, <1>2, <1>20
<1> QED BY <1>2, <1>3, <1>4, <1>5, <1>6, <1>12, <1>13, <1>14, ZenonT(30) DEF n, r, l

-----------------------------------------------------------------------------
(* What a key and an undo do to the history without repetitions.           *)
LEMMA KeyHistory ==
  ASSUME NEW w \in Seq(Snaps), NEW x \in Snaps, NEW all \in Seq(Snaps),
         all = Append(w, x) \/ (all = w /\ w # <<>> /\ w[Len(w)] = x),
         NEW m \in 0 .. Len(all), NEW y \in Snaps
  PROVE  LET a == Distinct(Append(w, x))
             b == Distinct(Append(SubSeq(all, m + 1, Len(all)), y))
         IN /\ y = x => IsSuffix(b, a)
            /\ y # x => IsSuffix(b, Append(a, x))
<1> DEFINE n == Len(all)
           r == SubSeq(all, m + 1, n)
           a == Distinct(Append(w, x))
           b == Distinct(Append(r, y))
<1>1. all # <<>> /\ n \in Nat /\ n >= 1 /\ all[n] = x
  <2>1. Len(Append(w, x)) = Len(w) + 1 /\ Append(w, x)[Len(w) + 1] = x /\ Len(w) \in Nat
    OBVIOUS
  <2>2. CASE all = Append(w, x)
    BY <2>1, <2>2
  <2>3. CASE all = w /\ w # <<>> /\ w[Len(w)] = x
    BY <2>3
  <2> QED BY <2>2, <2>3
<1>2. Distinct(all) = a /\ a \in Seq(Snaps)
  <2>1. Distinct(all) \in Seq(Snaps)
    BY <1>1, DistinctAppend
  <2>2. CASE all = Append(w, x)
    BY <2>1, <2>2
  <2>3. CASE all = w /\ w # <<>> /\ w[Len(w)] = x
    BY <2>1, <2>3, DistinctAppend
  <2> QED BY <2>1, <2>2, <2>3
<1> HIDE DEF a
<1>3. Append(a, x) \in Seq(Snaps)
  BY <1>2
<1>4. CASE m = n
  <2>1. r = <<>>
    BY <1>1, <1>4
  <2>2. b = <<>>
    <3>1. Append(<<>>, y) = <<y>>
      OBVIOUS
    <3> QED BY <2>1, <3>1, DistinctOne
  <2>3. <<>> \in Seq(Snaps)
    OBVIOUS
  <2>4. Ends(<<>>, a) /\ Ends(<<>>, Append(a, x))
    BY <1>2, <1>3, EmptyEnds
  <2>5. IsSuffix(<<>>, a) /\ IsSuffix(<<>>, Append(a, x))
    BY <1>2, <1>3, <2>3, <2>4, EndsSuffix
  <2> HIDE DEF b, r
  <2> QED BY <2>2, <2>5 DEF a, b, r, n
<1>5. CASE m # n
  <2>1. m \in Nat /\ m < n
    BY <1>1, <1>5
  <2>2. /\ r \in Seq(Snaps) /\ Len(r) = n - m /\ r[Len(r)] = x
        /\ Distinct(r) \in Seq(Snaps) /\ Ends(Distinct(r), a)
    BY <1>1, <1>2, <2>1, DistinctEnds
  <2>3. r # <<>>
    <3> HIDE DEF r
    <3>1. Len(r) >= 1
      BY <1>1, <2>1, <2>2
    <3> QED BY <3>1
  <2> HIDE DEF r
  <2>4. b = IF y = x THEN Distinct(r) ELSE Append(Distinct(r), x)
    BY <2>2, <2>3, DistinctAppend
  <2>5. Ends(Append(Distinct(r), x), Append(a, x)) /\ Append(Distinct(r), x) \in Seq(Snaps)
    BY <1>2, <2>2, EndsAppend
  <2>6. IsSuffix(Distinct(r), a) /\ IsSuffix(Append(Distinct(r), x), Append(a, x))
    BY <1>2, <1>3, <2>2, <2>5, EndsSuffix
  <2> HIDE DEF b
  <2> QED BY <2>4, <2>6 DEF a, b, r, n
<1> QED BY <1>4, <1>5

LEMMA BackHistory ==
  ASSUME NEW w \in Seq(Snaps), w # <<>>, NEW x \in Snaps
  PROVE  LET a == Distinct(Append(w, x))
             y == w[Len(w)]
             b == Distinct(Append(Before(w), y))
         IN /\ b \in Seq(Snaps)
            /\ x = y => b = a
            /\ x # y => a = Append(b, y)
<1>1. /\ Before(w) \in Seq(Snaps) /\ Len(Before(w)) = Len(w) - 1 /\ Len(w) \in Nat
      /\ \A i \in 1 .. Len(w) - 1 : Before(w)[i] = w[i]
      /\ w[Len(w)] \in Snaps /\ Len(w) >= 1
  BY BeforeIs
<1>2. Append(Before(w), w[Len(w)]) = w
  <2> DEFINE v == Append(Before(w), w[Len(w)])
  <2>1. v \in Seq(Snaps) /\ Len(v) = Len(w)
    BY <1>1
  <2>2. \A i \in 1 .. Len(w) : v[i] = w[i]
    BY <1>1
  <2> HIDE DEF v
  <2>3. v = w
    BY <2>1, <2>2
  <2> QED BY <2>3 DEF v
<1>3. /\ Distinct(w) \in Seq(Snaps)
      /\ Distinct(Append(w, x)) = IF x = w[Len(w)] THEN Distinct(w) ELSE Append(Distinct(w), w[Len(w)])
  BY DistinctAppend
<1> QED BY <1>2, <1>3

LEMMA DistinctType ==
  ASSUME NEW w \in Seq(Snaps), NEW x \in Snaps
  PROVE  Distinct(Append(w, x)) \in Seq(Snaps)
<1>1. Append(w, x) \in Seq(Snaps) /\ Len(Append(w, x)) = Len(w) + 1 /\ Len(w) \in Nat
  OBVIOUS
<1>2. Append(w, x) # <<>>
  BY <1>1
<1> QED BY <1>1, <1>2, DistinctAppend

LEMMA FrontIs ==
  ASSUME NEW b \in Seq(Snaps), NEW y \in Snaps
  PROVE  LET a == Append(b, y)
         IN a # <<>> /\ a[Len(a)] = y /\ Front(a) = b
<1> DEFINE a == Append(b, y)
<1>1. a \in Seq(Snaps) /\ Len(a) = Len(b) + 1 /\ Len(b) \in Nat /\ a[Len(b) + 1] = y
      /\ \A i \in 1 .. Len(b) : a[i] = b[i]
  OBVIOUS
<1> HIDE DEF a
<1>2. a # <<>> /\ Len(a) - 1 = Len(b)
  BY <1>1
<1>3. SubSeq(a, 1, Len(b)) = b
  <2> DEFINE v == SubSeq(a, 1, Len(b))
  <2>1. v \in Seq(Snaps) /\ Len(v) = Len(b) /\ \A i \in 1 .. Len(b) : v[i] = b[i]
    BY <1>1
  <2> HIDE DEF v
  <2>2. v = b
    BY <2>1
  <2> QED BY <2>2 DEF v
<1> QED BY <1>1, <1>2, <1>3 DEF Front, a

-----------------------------------------------------------------------------
(* The steps of the buffer are steps of the promise.                       *)
Trace == Distinct(Append(past, Snapshot(edit)))

LEMMA HistorySuffix ==
  ASSUME NEW s, NEW t, IsSuffix(s, t)
  PROVE  History!IsSuffix(s, t)
BY DEF IsSuffix, IsPrefix, Reverse, History!IsSuffix, History!IsPrefix, History!Reverse

LEMMA HistoryFront ==
  ASSUME NEW s
  PROVE  History!Front(s) = Front(s)
BY DEF Front, History!Front

LEMMA KeyImplements ==
  ASSUME BufferInv, NEW f, Key(f), ~cut, ~cut', Kept(f, Noted(edit, past), TRUE)
  PROVE  History!Next
<1> DEFINE w == past
           x == Snapshot(edit)
           y == Snapshot(f)
           all == Noted(edit, past)
           n == KeyPresses(f.stack)
           r == SubSeq(all, Len(all) - n + 1, Len(all))
<1>1. past \in Seq(Snaps) /\ Kept(edit, past, TRUE) /\ TRUE \in BOOLEAN
  BY DEF BufferInv
<1>2. x \in Snaps /\ y \in Snaps
  BY <1>1, SnapshotIs DEF Kept
<1>3. /\ all \in Seq(Snaps)
      /\ Again(Grown(edit.stack), KeyPress(edit)) => past # <<>> /\ past[Len(past)] = x
  BY <1>1, PushKeyPressIs
<1>4. all = Append(w, x) \/ (all = w /\ w # <<>> /\ w[Len(w)] = x)
  BY <1>3 DEF Noted
<1>5. n \in 0 .. Len(all) /\ Len(all) \in Nat
  <2>1. Kept(f, all, TRUE)
    OBVIOUS
  <2>2. Len(all) \in Nat
    BY <1>3
  <2> HIDE DEF all
  <2>3. n \in 0 .. Len(all)
    BY <1>3, <2>1, RememberedIs
  <2> QED BY <2>2, <2>3
<1>6. edit' = f /\ past' = r /\ last' = "key"
  BY DEF Key, Remembered, Noted
<1>7. x = <<Text(edit), edit.curs1>> /\ Snapshot(edit') = <<Text(edit'), edit'.curs1>>
  BY DEF Snapshot
<1> HIDE DEF all, n, x
<1> DEFINE a == Distinct(Append(w, x))
           b == Distinct(Append(r, y))
<1>8. /\ y = x => IsSuffix(b, a)
      /\ y # x => IsSuffix(b, Append(a, x))
  <2> DEFINE m == Len(all) - n
  <2>1. m \in 0 .. Len(all)
    BY <1>5
  <2> HIDE DEF m, y
  <2>2. r = SubSeq(all, m + 1, Len(all))
    BY DEF m
  <2> QED BY <1>1, <1>2, <1>3, <1>4, <2>1, <2>2, KeyHistory
<1>9. Trace = a /\ Trace' = b /\ y = Snapshot(edit')
  BY <1>6 DEF Trace, x
<1> HIDE DEF a, b, y
<1>10. CASE y = x
  <2>1. Text(edit)' = Text(edit) /\ edit'.curs1 = edit.curs1
    BY <1>7, <1>9, <1>10
  <2>2. History!Nothing
    BY <1>6, <1>8, <1>9, <1>10, <2>1, HistorySuffix DEF History!Nothing, Trace
  <2> QED BY <2>2 DEF History!Next
<1>11. CASE y # x
  <2>1. <<Text(edit)', edit'.curs1>> # <<Text(edit), edit.curs1>>
    BY <1>7, <1>9, <1>11
  <2>2. IsSuffix(Trace', Append(Trace, <<Text(edit), edit.curs1>>))
    BY <1>7, <1>8, <1>9, <1>11
  <2>3. History!Edit
    BY <1>6, <2>1, <2>2, HistorySuffix DEF History!Edit, Trace
  <2> QED BY <2>3 DEF History!Next
<1> QED BY <1>10, <1>11

LEMMA UndoImplements ==
  ASSUME BufferInv, Undo, ~cut, ~cut'
  PROVE  History!Next
<1> DEFINE f == DoUndo(edit)
           g == WithColumn(f)
           x == Snapshot(edit)
           y == Snapshot(edit')
           r == IF past = <<>> THEN past ELSE Before(past)
<1>1. /\ past \in Seq(Snaps) /\ Kept(edit, past, TRUE) /\ TRUE \in BOOLEAN
      /\ Len(past) = KeyPresses(edit.stack)
  BY DEF BufferInv
<1>2. edit' = g /\ past' = r /\ last' = "undo"
  BY DEF Undo, Front, Before
<1>3. /\ Kept(f, r, TRUE) /\ r \in Seq(Snaps)
      /\ Snapshot(f) = IF past = <<>> THEN x ELSE past[Len(past)]
  BY <1>1, DoUndoIs
<1>4. Snapshot(g) = Snapshot(f)
  <2> HIDE DEF f, r
  <2> QED BY <1>1, <1>3, WithColumnKept
<1>5. y = IF past = <<>> THEN x ELSE past[Len(past)]
  BY <1>2, <1>3, <1>4
<1>6. x \in Snaps
  BY <1>1, SnapshotIs DEF Kept
<1>7. x = <<Text(edit), edit.curs1>> /\ y = <<Text(edit'), edit'.curs1>>
  BY DEF Snapshot
<1>8. Trace = Distinct(Append(past, x)) /\ Trace' = Distinct(Append(past', y))
  BY DEF Trace
<1> HIDE DEF x, y, f, g
<1>9. Trace \in Seq(Snaps)
  BY <1>1, <1>6, <1>8, DistinctType
<1>10. ASSUME y = x, Trace' = Trace PROVE History!Next
  <2>1. Text(edit)' = Text(edit) /\ edit'.curs1 = edit.curs1
    BY <1>7, <1>10
  <2>2. IsSuffix(Trace', Trace)
    BY <1>9, <1>10, EndsSame, EndsSuffix
  <2>3. History!Nothing
    BY <1>2, <2>1, <2>2, HistorySuffix DEF History!Nothing, Trace
  <2> QED BY <2>3 DEF History!Next
<1>11. CASE past = <<>>
  BY <1>2, <1>5, <1>8, <1>10, <1>11
<1>12. CASE past # <<>>
  <2> DEFINE z == past[Len(past)]
  <2>1. y = z /\ past' = Before(past) /\ z \in Snaps
    BY <1>1, <1>2, <1>5, <1>12, BeforeIs
  <2> HIDE DEF z
  <2>2. /\ Trace' \in Seq(Snaps)
        /\ x = z => Trace' = Trace
        /\ x # z => Trace = Append(Trace', z)
    BY <1>1, <1>6, <1>8, <1>12, <2>1, BackHistory DEF z
  <2>3. CASE x = z
    BY <1>10, <2>1, <2>2, <2>3
  <2>4. CASE x # z
    <3>1. Trace # <<>> /\ Trace[Len(Trace)] = z /\ Front(Trace) = Trace'
      BY <2>1, <2>2, <2>4, FrontIs
    <3>2. <<Text(edit)', edit'.curs1>> = Trace[Len(Trace)]
      BY <1>7, <2>1, <3>1
    <3>3. History!Undo
      BY <1>2, <3>1, <3>2, HistoryFront DEF History!Undo, Trace
    <3> QED BY <3>3 DEF History!Next
  <2> QED BY <2>3, <2>4
<1> QED BY <1>11, <1>12

LEMMA TraceInit == BufferInit => History!Init
<1> SUFFICES ASSUME BufferInit PROVE History!Init
  OBVIOUS
<1>1. PICK t \in Contents : edit = LoadedText(t)
  BY DEF BufferInit
<1>2. edit.curs1 = 0
  BY <1>1, LoadedIs
<1>3. past = <<>> /\ last = "key" /\ cut = FALSE
  BY DEF BufferInit
<1>4. Trace = <<>>
  <2>1. Append(<<>>, Snapshot(edit)) = <<Snapshot(edit)>>
    OBVIOUS
  <2> QED BY <1>3, <2>1, DistinctOne DEF Trace
<1> QED BY <1>2, <1>3, <1>4 DEF History!Init, Trace

LEMMA TraceNext == BufferInv /\ [BufferNext]_buffer_vars => [History!Next]_(History!vars)
<1> SUFFICES ASSUME BufferInv, [BufferNext]_buffer_vars PROVE [History!Next]_(History!vars)
  OBVIOUS
<1>1. /\ cut \in BOOLEAN
      /\ ~cut => past \in Seq(Snaps) /\ Kept(edit, past, TRUE) /\ TRUE \in BOOLEAN
  BY DEF BufferInv
<1>2. ASSUME cut', cut => cut' PROVE History!Next
  BY <1>2 DEF History!Next
<1>3. ASSUME NEW c \in Chars, NEW overwrite \in BOOLEAN, Type(c, overwrite) PROVE History!Next
  <2> DEFINE f == WithColumn(Char(PushKeyPress(edit), c, overwrite))
  <2>1. Key(f) /\ cut' = cut
    BY <1>3 DEF Type
  <2>2. CASE cut
    BY <1>2, <2>1, <2>2
  <2>3. CASE ~cut
    <3>1. Kept(f, Noted(edit, past), TRUE)
      BY <1>1, <2>3, TypedKept
    <3> HIDE DEF f
    <3> QED BY <2>1, <2>3, <3>1, KeyImplements
  <2> QED BY <2>2, <2>3
<1>4. ASSUME NEW command \in Commands, Perform(command) PROVE History!Next
  <2> DEFINE f == Executed(Execute(PushKeyPress(edit), command), command)
             g == WithColumn(PushKeyPress(edit))
             late == /\ command = "copy" /\ Marked(edit)
                     /\ edit.last_byte + Len(GetBlock(edit)) > SIZE_LIMIT
  <2>1. (Key(f) \/ Key(g)) /\ cut' = (cut \/ late)
    BY <1>4 DEF Perform
  <2>2. CASE cut \/ late
    BY <1>2, <2>1, <2>2
  <2>3. CASE ~ (cut \/ late)
    <3>1. Kept(f, Noted(edit, past), TRUE) /\ Kept(g, Noted(edit, past), TRUE)
      BY <1>1, <2>3, PerformedKept
    <3>2. ~cut /\ ~cut'
      BY <2>1, <2>3
    <3> HIDE DEF f, g, late
    <3> QED BY <2>1, <3>1, <3>2, KeyImplements
  <2> QED BY <2>2, <2>3
<1>5. ASSUME Undo PROVE History!Next
  <2>1. cut' = cut
    BY <1>5 DEF Undo
  <2> QED BY <1>2, <1>5, <2>1, UndoImplements
<1>6. ASSUME Scroll PROVE [History!Next]_(History!vars)
  <2>1. PICK d \in 0 .. edit.last_byte : edit' = WindowBack(edit, d)
    BY <1>6 DEF Scroll
  <2>2. UNCHANGED <<past, last, cut>>
    BY <1>6 DEF Scroll
  <2>3. Snapshot(edit') = Snapshot(edit)
    <3>1. Kept(edit, <<>>, FALSE) /\ FALSE \in BOOLEAN
      BY DEF BufferInv
    <3>2. <<>> \in Seq(Snaps)
      OBVIOUS
    <3> QED BY <2>1, <3>1, <3>2, ScrolledKept
  <2>4. Text(edit)' = Text(edit) /\ edit'.curs1 = edit.curs1
    BY <2>3 DEF Snapshot
  <2>5. Trace' = Trace
    BY <2>2, <2>3 DEF Trace
  <2> QED BY <2>2, <2>4, <2>5 DEF History!vars, Trace
<1>7. ASSUME UNCHANGED buffer_vars PROVE [History!Next]_(History!vars)
  <2>1. edit' = edit /\ past' = past /\ last' = last /\ cut' = cut
    BY <1>7 DEF buffer_vars
  <2>2. Text(edit)' = Text(edit) /\ edit'.curs1 = edit.curs1 /\ Trace' = Trace
    BY <2>1 DEF Trace
  <2> QED BY <2>1, <2>2 DEF History!vars, Trace
<1> QED BY <1>3, <1>4, <1>5, <1>6, <1>7 DEF BufferNext

(* The editor keeps the promise of undo (UndoHistory): every undo leads    *)
(* back to the text and the cursor there were before the last key that     *)
(* changed one of them and has not been undone, for every buffer size,     *)
(* ring size and sequence of keys, commands, undos and scrolls, although   *)
(* edit_push_action counts equal pushes, cancels opposite moves, doubles   *)
(* the ring and drops its oldest key presses.                              *)
THEOREM BufferImplementsUndo == BufferSpec => ImplementsUndo
<1>1. BufferInv /\ [BufferNext]_buffer_vars => [History!Next]_(History!vars)
  BY TraceNext
<1>2. BufferInit => History!Init
  BY TraceInit
<1> QED BY <1>1, <1>2, BufferInvHolds, PTL DEF BufferSpec, ImplementsUndo, History!Spec

-----------------------------------------------------------------------------
(* Parts of texts.                                                         *)
LEMMA JoinIs ==
  \A a \in Seq(Byte), b \in Seq(Byte) :
     /\ a \o b \in Seq(Byte) /\ Len(a \o b) = Len(a) + Len(b)
     /\ \A j \in 1 .. Len(a) : (a \o b)[j] = a[j]
     /\ \A j \in 1 .. Len(b) : (a \o b)[Len(a) + j] = b[j]
OBVIOUS

LEMMA PartOf ==
  \A t \in Seq(Byte) : \A p \in 0 .. Len(t) : \A q \in p .. Len(t) :
     /\ Part(t, p, q) \in Seq(Byte) /\ Len(Part(t, p, q)) = q - p
     /\ \A j \in 1 .. q - p : Part(t, p, q)[j] = t[p + j]
<1> SUFFICES ASSUME NEW t \in Seq(Byte), NEW p \in 0 .. Len(t), NEW q \in p .. Len(t)
             PROVE  /\ Part(t, p, q) \in Seq(Byte) /\ Len(Part(t, p, q)) = q - p
                    /\ \A j \in 1 .. q - p : Part(t, p, q)[j] = t[p + j]
  OBVIOUS
<1>1. Len(t) \in Nat /\ p \in Nat /\ q \in Nat /\ p <= q /\ q <= Len(t)
  OBVIOUS
<1>2. SubSeq(t, p + 1, q) = [j \in 1 .. q - p |-> t[p + j]]
  BY <1>1
<1>3. \A j \in 1 .. q - p : t[p + j] \in Byte
  BY <1>1
<1> DEFINE f == [j \in 1 .. q - p |-> t[p + j]]
<1>4. f \in [1 .. q - p -> Byte] /\ q - p \in Nat
  BY <1>1, <1>3
<1>5. f \in Seq(Byte) /\ Len(f) = q - p
  BY <1>4, BytesAre
<1> QED BY <1>2, <1>5 DEF Part

LEMMA PartAll ==
  ASSUME NEW t \in Seq(Byte)
  PROVE  Part(t, 0, Len(t)) = t
<1>1. Len(t) \in Nat /\ 0 \in 0 .. Len(t) /\ Len(t) \in 0 .. Len(t)
  OBVIOUS
<1> DEFINE f == Part(t, 0, Len(t))
<1>2. f \in Seq(Byte) /\ Len(f) = Len(t) - 0 /\ \A j \in 1 .. Len(t) - 0 : f[j] = t[0 + j]
  BY <1>1, PartOf
<1> HIDE DEF f
<1>3. Len(f) = Len(t) /\ \A j \in 1 .. Len(f) : f[j] = t[j]
  BY <1>1, <1>2
<1>4. f = t
  BY <1>2, <1>3, SameSeq
<1> QED BY <1>4 DEF f

LEMMA PartOfPart ==
  ASSUME NEW t \in Seq(Byte), NEW i \in 0 .. Len(t), NEW j \in i .. Len(t),
         NEW p \in 0 .. j - i, NEW q \in p .. j - i
  PROVE  Part(Part(t, i, j), p, q) = Part(t, i + p, i + q)
<1> DEFINE a == Part(t, i, j)
           f == Part(a, p, q)
           g == Part(t, i + p, i + q)
<1>1. a \in Seq(Byte) /\ Len(a) = j - i /\ \A k \in 1 .. j - i : a[k] = t[i + k]
  BY PartOf
<1> HIDE DEF a
<1>2. p \in 0 .. Len(a) /\ q \in p .. Len(a) /\ p \in Nat /\ q \in Nat /\ i \in Nat /\ j \in Nat
  BY <1>1
<1>3. f \in Seq(Byte) /\ Len(f) = q - p /\ \A k \in 1 .. q - p : f[k] = a[p + k]
  BY <1>1, <1>2, PartOf
<1>4. i + p \in 0 .. Len(t) /\ i + q \in i + p .. Len(t)
  BY <1>2
<1>5. /\ g \in Seq(Byte) /\ Len(g) = (i + q) - (i + p)
      /\ \A k \in 1 .. (i + q) - (i + p) : g[k] = t[i + p + k]
  BY <1>4, PartOf
<1> HIDE DEF f, g
<1>6. ASSUME NEW k \in 1 .. Len(f) PROVE f[k] = g[k]
  <2>1. /\ k \in 1 .. q - p /\ k \in 1 .. (i + q) - (i + p) /\ p + k \in 1 .. j - i
        /\ i + (p + k) = i + p + k
    BY <1>2, <1>3
  <2> QED BY <1>1, <1>3, <1>5, <2>1
<1>7. Len(f) = Len(g)
  BY <1>2, <1>3, <1>5
<1>8. f = g
  BY <1>3, <1>5, <1>6, <1>7, SameSeq
<1> QED BY <1>8 DEF f, g, a

(* A part of two texts joined lies in the first, in the second, or crosses *)
(* from one to the other.                                                  *)
LEMMA PartFirst ==
  ASSUME NEW a \in Seq(Byte), NEW b \in Seq(Byte), NEW p \in 0 .. Len(a), NEW q \in p .. Len(a)
  PROVE  Part(a \o b, p, q) = Part(a, p, q)
<1> DEFINE t == a \o b
           f == Part(t, p, q)
           g == Part(a, p, q)
<1>1. t \in Seq(Byte) /\ Len(t) = Len(a) + Len(b) /\ \A j \in 1 .. Len(a) : t[j] = a[j]
  BY JoinIs
<1>2. Len(a) \in Nat /\ Len(b) \in Nat /\ p \in Nat /\ q \in Nat
  OBVIOUS
<1> HIDE DEF t
<1>3. p \in 0 .. Len(t) /\ q \in p .. Len(t)
  BY <1>1, <1>2
<1>4. f \in Seq(Byte) /\ Len(f) = q - p /\ \A k \in 1 .. q - p : f[k] = t[p + k]
  BY <1>1, <1>3, PartOf
<1>5. g \in Seq(Byte) /\ Len(g) = q - p /\ \A k \in 1 .. q - p : g[k] = a[p + k]
  BY PartOf
<1> HIDE DEF f, g
<1>6. ASSUME NEW k \in 1 .. Len(f) PROVE f[k] = g[k]
  <2>1. k \in 1 .. q - p /\ p + k \in 1 .. Len(a)
    BY <1>2, <1>4
  <2> QED BY <1>1, <1>4, <1>5, <2>1
<1>7. f = g
  BY <1>4, <1>5, <1>6, SameSeq
<1> QED BY <1>7 DEF f, g, t

LEMMA PartSecond ==
  ASSUME NEW a \in Seq(Byte), NEW b \in Seq(Byte), NEW p \in 0 .. Len(b), NEW q \in p .. Len(b)
  PROVE  Part(a \o b, Len(a) + p, Len(a) + q) = Part(b, p, q)
<1> DEFINE t == a \o b
           n == Len(a)
           f == Part(t, n + p, n + q)
           g == Part(b, p, q)
<1>1. t \in Seq(Byte) /\ Len(t) = n + Len(b) /\ \A j \in 1 .. Len(b) : t[n + j] = b[j]
  BY JoinIs
<1>2. n \in Nat /\ Len(b) \in Nat /\ p \in Nat /\ q \in Nat
  OBVIOUS
<1> HIDE DEF t, n
<1>3. n + p \in 0 .. Len(t) /\ n + q \in n + p .. Len(t) /\ (n + q) - (n + p) = q - p
  BY <1>1, <1>2
<1>4. /\ f \in Seq(Byte) /\ Len(f) = (n + q) - (n + p)
      /\ \A k \in 1 .. (n + q) - (n + p) : f[k] = t[n + p + k]
  BY <1>1, <1>3, PartOf
<1>5. g \in Seq(Byte) /\ Len(g) = q - p /\ \A k \in 1 .. q - p : g[k] = b[p + k]
  BY PartOf
<1> HIDE DEF f, g
<1>6. ASSUME NEW k \in 1 .. Len(f) PROVE f[k] = g[k]
  <2>1. k \in 1 .. q - p /\ k \in 1 .. (n + q) - (n + p) /\ p + k \in 1 .. Len(b)
        /\ n + (p + k) = n + p + k
    BY <1>2, <1>3, <1>4, SMTT(60)
  <2> QED BY <1>1, <1>4, <1>5, <2>1
<1>7. f = g
  BY <1>3, <1>4, <1>5, <1>6, SameSeq
<1> QED BY <1>7 DEF f, g, t, n

LEMMA PartJoins ==
  ASSUME NEW t \in Seq(Byte), NEW p \in 0 .. Len(t), NEW q \in p .. Len(t), NEW r \in q .. Len(t)
  PROVE  Part(t, p, q) \o Part(t, q, r) = Part(t, p, r)
<1> DEFINE a == Part(t, p, q)
           b == Part(t, q, r)
           f == a \o b
           g == Part(t, p, r)
<1>0. p \in Nat /\ q \in Nat /\ r \in Nat /\ p <= q /\ q <= r /\ r <= Len(t) /\ Len(t) \in Nat
      /\ q \in 0 .. Len(t) /\ r \in p .. Len(t)
  OBVIOUS
<1>1. a \in Seq(Byte) /\ Len(a) = q - p /\ \A k \in 1 .. q - p : a[k] = t[p + k]
  BY PartOf
<1>2. b \in Seq(Byte) /\ Len(b) = r - q /\ \A k \in 1 .. r - q : b[k] = t[q + k]
  BY <1>0, PartOf
<1>3. g \in Seq(Byte) /\ Len(g) = r - p /\ \A k \in 1 .. r - p : g[k] = t[p + k]
  BY <1>0, PartOf
<1> HIDE DEF a, b
<1>4. /\ f \in Seq(Byte) /\ Len(f) = Len(a) + Len(b)
      /\ \A j \in 1 .. Len(a) : f[j] = a[j]
      /\ \A j \in 1 .. Len(b) : f[Len(a) + j] = b[j]
  BY <1>1, <1>2, JoinIs
<1> HIDE DEF f, g
<1>5. Len(f) = r - p
  BY <1>0, <1>1, <1>2, <1>4
<1>6. ASSUME NEW k \in 1 .. Len(f) PROVE f[k] = g[k]
  <2>1. CASE k <= q - p
    <3>1. k \in 1 .. q - p /\ k \in 1 .. Len(a) /\ k \in 1 .. r - p
      BY <1>0, <1>1, <1>5, <2>1
    <3> QED BY <1>1, <1>3, <1>4, <3>1
  <2>2. CASE ~ (k <= q - p)
    <3> DEFINE l == k - (q - p)
    <3>1. /\ l \in 1 .. r - q /\ l \in 1 .. Len(b) /\ Len(a) + l = k /\ q + l = p + k
          /\ k \in 1 .. r - p
      BY <1>0, <1>1, <1>2, <1>5, <2>2
    <3> HIDE DEF l
    <3> QED BY <1>2, <1>3, <1>4, <3>1
  <2> QED BY <2>1, <2>2
<1>7. f = g
  BY <1>3, <1>4, <1>5, <1>6, SameSeq
<1> QED BY <1>7 DEF f, g, a, b

LEMMA PartAcross ==
  ASSUME NEW a \in Seq(Byte), NEW b \in Seq(Byte), NEW p \in 0 .. Len(a), NEW q \in 0 .. Len(b)
  PROVE  Part(a \o b, p, Len(a) + q) = Part(a, p, Len(a)) \o Part(b, 0, q)
<1> DEFINE t == a \o b
           n == Len(a)
<1>1. t \in Seq(Byte) /\ Len(t) = n + Len(b)
  BY JoinIs
<1>2. n \in Nat /\ Len(b) \in Nat /\ p \in Nat /\ q \in Nat /\ n + 0 = n
      /\ 0 \in 0 .. Len(b) /\ n \in p .. n
  OBVIOUS
<1>3. Part(t, p, n) = Part(a, p, n)
  BY <1>2, PartFirst
<1>4. Part(t, n + 0, n + q) = Part(b, 0, q)
  BY <1>2, PartSecond
<1> HIDE DEF t, n
<1>5. p \in 0 .. Len(t) /\ n \in p .. Len(t) /\ n + q \in n .. Len(t)
  BY <1>1, <1>2
<1>6. Part(t, p, n) \o Part(t, n, n + q) = Part(t, p, n + q)
  BY <1>1, <1>5, PartJoins
<1> QED BY <1>2, <1>3, <1>4, <1>6 DEF t, n

LEMMA JoinsAgree ==
  ASSUME NEW a \in Seq(Byte), NEW b \in Seq(Byte), NEW c \in Seq(Byte)
  PROVE  a \o (b \o c) = (a \o b) \o c
OBVIOUS

-----------------------------------------------------------------------------
(* What is cut out of a text, and put into one, as parts of it.            *)
LEMMA CutParts ==
  ASSUME NEW t \in Seq(Byte), NEW i \in 0 .. Len(t), NEW n \in 0 .. Len(t) - i
  PROVE  Cut(t, i, n) = Part(t, 0, i) \o Part(t, i + n, Len(t))
<1> DEFINE a == Part(t, 0, i)
           b == Part(t, i + n, Len(t))
           f == Cut(t, i, n)
           g == a \o b
<1>1. /\ Len(t) \in Nat /\ i \in Nat /\ n \in Nat /\ i + n <= Len(t) /\ i <= Len(t)
      /\ 0 \in 0 .. Len(t) /\ i \in 0 .. Len(t) /\ i + n \in 0 .. Len(t)
      /\ Len(t) \in i + n .. Len(t)
  OBVIOUS
<1>2. a \in Seq(Byte) /\ Len(a) = i - 0 /\ \A k \in 1 .. i - 0 : a[k] = t[0 + k]
  BY <1>1, PartOf
<1>3. /\ b \in Seq(Byte) /\ Len(b) = Len(t) - (i + n)
      /\ \A k \in 1 .. Len(t) - (i + n) : b[k] = t[i + n + k]
  BY <1>1, PartOf
<1>4. /\ f \in Seq(Byte) /\ Len(f) = Len(t) - n
      /\ \A j \in 1 .. Len(t) - n : f[j] = IF j <= i THEN t[j] ELSE t[j + n]
  BY CutIs
<1> HIDE DEF a, b, f
<1>5. /\ g \in Seq(Byte) /\ Len(g) = Len(a) + Len(b)
      /\ \A j \in 1 .. Len(a) : g[j] = a[j]
      /\ \A j \in 1 .. Len(b) : g[Len(a) + j] = b[j]
  BY <1>2, <1>3, JoinIs
<1> HIDE DEF g
<1>6. Len(f) = Len(g)
  BY <1>1, <1>2, <1>3, <1>4, <1>5
<1>7. ASSUME NEW k \in 1 .. Len(f) PROVE f[k] = g[k]
  <2>1. CASE k <= i
    <3>1. k \in 1 .. i - 0 /\ k \in 1 .. Len(a) /\ k \in 1 .. Len(t) - n /\ 0 + k = k
      BY <1>1, <1>2, <1>4, <2>1
    <3> QED BY <1>2, <1>4, <1>5, <2>1, <3>1
  <2>2. CASE ~ (k <= i)
    <3> DEFINE l == k - i
    <3>1. /\ l \in 1 .. Len(t) - (i + n) /\ l \in 1 .. Len(b) /\ Len(a) + l = k
          /\ i + n + l = k + n /\ k \in 1 .. Len(t) - n
      BY <1>1, <1>2, <1>3, <1>4, <2>2
    <3> HIDE DEF l
    <3> QED BY <1>3, <1>4, <1>5, <2>2, <3>1
  <2> QED BY <2>1, <2>2
<1>8. f = g
  BY <1>4, <1>5, <1>6, <1>7, SameSeq
<1> QED BY <1>8 DEF f, g, a, b

LEMMA SplicedParts ==
  ASSUME NEW t \in Seq(Byte), NEW b \in Seq(Byte), NEW i \in 0 .. Len(t)
  PROVE  Spliced(t, i, b, Len(b)) = (Part(t, 0, i) \o b) \o Part(t, i, Len(t))
<1> DEFINE n == Len(b)
           a == Part(t, 0, i)
           d == Part(t, i, Len(t))
           x == a \o b
           f == Spliced(t, i, b, n)
           g == x \o d
<1>1. /\ Len(t) \in Nat /\ i \in Nat /\ n \in Nat /\ i <= Len(t) /\ n - n = 0
      /\ 0 \in 0 .. Len(t) /\ i \in 0 .. Len(t) /\ Len(t) \in i .. Len(t) /\ n \in 0 .. Len(b)
  OBVIOUS
<1>2. a \in Seq(Byte) /\ Len(a) = i - 0 /\ \A k \in 1 .. i - 0 : a[k] = t[0 + k]
  BY <1>1, PartOf
<1>3. /\ d \in Seq(Byte) /\ Len(d) = Len(t) - i
      /\ \A k \in 1 .. Len(t) - i : d[k] = t[i + k]
  BY <1>1, PartOf
<1>4. /\ f \in Seq(Byte) /\ Len(f) = Len(t) + n
      /\ \A j \in 1 .. Len(t) + n : f[j] = IF j <= i THEN t[j]
                                           ELSE IF j <= i + n THEN b[n - n + (j - i)] ELSE t[j - n]
  <2>1. \A k \in 0 .. Len(b) :
          /\ Spliced(t, i, b, k) \in Seq(Byte) /\ Len(Spliced(t, i, b, k)) = Len(t) + k
          /\ \A j \in 1 .. Len(t) + k :
               Spliced(t, i, b, k)[j] = IF j <= i THEN t[j]
                                        ELSE IF j <= i + k THEN b[Len(b) - k + (j - i)] ELSE t[j - k]
    BY SplicedIs
  <2>2. n \in 0 .. Len(b)
    BY <1>1
  <2> QED BY ONLY <2>1, <2>2, Zenon
<1>9. Len(b) = n
  OBVIOUS
<1> HIDE DEF a, d, f, n
<1>5. /\ x \in Seq(Byte) /\ Len(x) = Len(a) + n
      /\ \A j \in 1 .. Len(a) : x[j] = a[j]
      /\ \A j \in 1 .. n : x[Len(a) + j] = b[j]
  BY <1>2, <1>9, JoinIs
<1> HIDE DEF x
<1>6. /\ g \in Seq(Byte) /\ Len(g) = Len(x) + Len(d)
      /\ \A j \in 1 .. Len(x) : g[j] = x[j]
      /\ \A j \in 1 .. Len(d) : g[Len(x) + j] = d[j]
  BY <1>3, <1>5, JoinIs
<1> HIDE DEF g
<1>7. Len(f) = Len(g) /\ Len(a) = i /\ Len(x) = i + n /\ Len(d) = Len(t) - i
  BY <1>1, <1>2, <1>3, <1>4, <1>5, <1>6
<1>8. ASSUME NEW k \in 1 .. Len(f) PROVE f[k] = g[k]
  <2>0. k \in 1 .. Len(t) + n /\ k \in Nat
    BY <1>1, <1>4
  <2>1. CASE k <= i
    <3>1. k \in 1 .. i - 0 /\ k \in 1 .. Len(a) /\ k \in 1 .. Len(x) /\ 0 + k = k
      BY <1>1, <1>7, <2>0, <2>1
    <3> QED BY <1>2, <1>4, <1>5, <1>6, <2>0, <2>1, <3>1
  <2>2. CASE ~ (k <= i) /\ k <= i + n
    <3> DEFINE l == k - i
    <3>1. l \in 1 .. n /\ Len(a) + l = k /\ k \in 1 .. Len(x) /\ n - n + (k - i) = l
      BY <1>1, <1>7, <2>0, <2>2
    <3> HIDE DEF l
    <3>2. f[k] = b[l]
      BY <1>4, <2>0, <2>2, <3>1
    <3> QED BY <1>5, <1>6, <3>1, <3>2
  <2>3. CASE ~ (k <= i) /\ ~ (k <= i + n)
    <3> DEFINE l == k - (i + n)
    <3>1. l \in 1 .. Len(t) - i /\ l \in 1 .. Len(d) /\ Len(x) + l = k /\ i + l = k - n
      BY <1>1, <1>7, <2>0, <2>3
    <3> HIDE DEF l
    <3>2. f[k] = t[k - n]
      BY <1>4, <2>0, <2>3
    <3> QED BY <1>3, <1>6, <3>1, <3>2
  <2> QED BY <2>1, <2>2, <2>3
<1>10. f = g
  BY <1>4, <1>6, <1>7, <1>8, SameSeq
<1> QED BY <1>10 DEF f, g, x, a, d, n

(* The line is deleted as a whole.                                         *)
LEMMA BolSame ==
  ASSUME NEW e, Sound(e), NEW f, Sound(f), NEW c \in 0 .. e.last_byte, c <= f.last_byte,
         \A j \in 1 .. c : Text(f)[j] = Text(e)[j]
  PROVE  Bol(f, c) = Bol(e, c)
<1>1. /\ e.last_byte \in Nat /\ f.last_byte \in Nat
      /\ \A j \in 1 .. e.last_byte : Text(e)[j] = GetByte(e, j - 1)
      /\ \A j \in 1 .. f.last_byte : Text(f)[j] = GetByte(f, j - 1)
  BY SnapshotIs, TextIs DEF Sound
<1>2. ASSUME NEW i \in 0 .. c PROVE GetByte(f, i - 1) = GetByte(e, i - 1)
  <2>1. CASE i = 0
    <3>1. i - 1 \in Int /\ i - 1 < 0
      BY <2>1
    <3> QED BY <3>1, ByteIs DEF Sound
  <2>2. CASE i # 0
    <3>1. i \in 1 .. c /\ i \in 1 .. e.last_byte /\ i \in 1 .. f.last_byte
      BY <1>1, <2>2
    <3> QED BY <1>1, <3>1
  <2> QED BY <2>1, <2>2
<1>3. {i \in 0 .. c : GetByte(f, i - 1) = Newline} = {i \in 0 .. c : GetByte(e, i - 1) = Newline}
  BY <1>2
<1> QED BY <1>3 DEF Bol

LEMMA PartBeyond ==
  ASSUME NEW t \in Seq(Byte)
  PROVE  Part(t, Len(t) + 1, Len(t)) = Part(t, Len(t), Len(t))
<1>1. Len(t) \in Nat
  OBVIOUS
<1>2. SubSeq(t, Len(t) + 1 + 1, Len(t)) = <<>> /\ SubSeq(t, Len(t) + 1, Len(t)) = <<>>
  BY <1>1
<1> QED BY <1>2 DEF Part

LEMMA DeleteLineIs ==
  ASSUME NEW e, NEW all \in Seq(Snaps), NEW strict \in BOOLEAN, Kept(e, all, strict)
  PROVE  Text(DeleteLine(e)) = Part(Text(e), 0, Bol(e, e.curs1))
                                 \o Part(Text(e), Eol(e, e.curs1) + 1, e.last_byte)
<1> DEFINE t == Text(e)
           c == e.curs1
           n == e.last_byte
           l == Bol(e, c)
           w == Eol(e, c)
           f == DeleteToLineEnd(e)
           g == Delete(f)
           h == DeleteToLineBegin(g)
<1>1. /\ Sound(e) /\ t \in Seq(Byte) /\ Len(t) = n /\ n \in Nat /\ c \in Nat /\ c \in 0 .. n
      /\ e.curs2 = n - c
  BY KeptIs, SnapshotIs
<1>2. l \in 0 .. c /\ w \in c .. n
  BY <1>1, BolIs, EolIs
<1>3. w - c \in Nat /\ w - c <= e.curs2
  BY <1>1, <1>2
<1>4. f = Times("delete", w - c, e) /\ DeleteLine(e) = h
  BY DEF DeleteToLineEnd, DeleteLine
<1> HIDE DEF t, c, n, l, w, f
<1>5. /\ Kept(f, all, strict) /\ f.curs1 = c /\ f.last_byte = n - (w - c)
      /\ Text(f) = Cut(t, c, w - c)
  BY <1>3, <1>4, TimesDelete DEF t, c, n
<1>6. Sound(f) /\ f.curs2 = f.last_byte - f.curs1
  BY <1>5, KeptIs
<1>7. Kept(g, all, strict)
  BY <1>5, DeleteKept
<1> DEFINE r == IF w = n THEN n ELSE w + 1
<1>8. g.curs1 = c /\ g.last_byte = n - (r - c) /\ Text(g) = Cut(t, c, r - c)
  <2>1. CASE w = n
    <3>1. f.curs2 = 0
      BY <1>1, <1>2, <1>5, <1>6, <2>1
    <3>2. g = f
      BY <3>1 DEF Delete
    <3> HIDE DEF g
    <3> QED BY <1>5, <2>1, <3>2
  <2>2. CASE w # n
    <3>1. f.curs2 # 0 /\ c + (w - c) < Len(t) /\ (w - c) + 1 = r - c /\ c \in 0 .. Len(t)
          /\ f.last_byte - 1 = n - (r - c)
      BY <1>1, <1>2, <1>5, <1>6, <2>2
    <3>2. g.curs1 = f.curs1 /\ g.last_byte = f.last_byte - 1 /\ Text(g) = Removed(Text(f), f.curs1)
      BY <1>6, <3>1, DeleteTakes
    <3>3. Removed(Cut(t, c, w - c), c) = Cut(t, c, (w - c) + 1)
      BY <1>1, <1>3, <3>1, CutAhead
    <3> HIDE DEF g, r
    <3> QED BY <1>5, <3>1, <3>2, <3>3
  <2> QED BY <2>1, <2>2
<1> DEFINE a == Part(t, 0, c)
           b == Part(t, r, n)
<1>9. r \in c .. n /\ r - c \in 0 .. Len(t) - c /\ c + (r - c) = r
  BY <1>1, <1>2
<1>10. b = Part(t, w + 1, n)
  <2>1. CASE w = n
    BY <1>1, <2>1, PartBeyond
  <2>2. CASE w # n
    BY <2>2
  <2> QED BY <2>1, <2>2
<1> HIDE DEF r, g
<1>11. Text(g) = a \o b
  <2>1. Cut(t, c, r - c) = Part(t, 0, c) \o Part(t, c + (r - c), Len(t))
    BY <1>1, <1>9, CutParts
  <2> QED BY <1>1, <1>8, <1>9, <2>1
<1>12. a \in Seq(Byte) /\ Len(a) = c /\ b \in Seq(Byte) /\ Len(b) = n - r
  <2>1. 0 \in 0 .. Len(t) /\ c \in 0 .. Len(t) /\ r \in 0 .. Len(t) /\ n \in r .. Len(t) /\ c - 0 = c
    BY <1>1, <1>9
  <2> QED BY <1>1, <2>1, PartOf
<1>13. \A j \in 1 .. c : Text(g)[j] = t[j]
  <2>1. c \in 0 .. Len(t) /\ r - c \in 0 .. Len(t) - c /\ \A j \in 1 .. c : j \in 1 .. Len(t) - (r - c) /\ j <= c
    BY <1>1, <1>9
  <2>2. \A j \in 1 .. Len(t) - (r - c) : Cut(t, c, r - c)[j] = IF j <= c THEN t[j] ELSE t[j + (r - c)]
    BY <1>1, <2>1, CutIs
  <2> QED BY <1>8, <2>1, <2>2
<1>14. Sound(g) /\ c <= g.last_byte
  BY <1>1, <1>7, <1>8, <1>9, KeptIs
<1>15. Bol(g, c) = l
  BY <1>1, <1>13, <1>14, BolSame DEF l, t, n
<1>16. h = Times("backspace", c - l, g)
  BY <1>8, <1>15 DEF DeleteToLineBegin
<1> HIDE DEF h
<1>17. Text(h) = Cut(a \o b, l, c - l)
  <2>1. c - l \in Nat /\ c - l <= g.curs1 /\ g.curs1 - (c - l) = l
    BY <1>1, <1>2, <1>8
  <2>2. Text(h) = Cut(Text(g), g.curs1 - (c - l), c - l)
    BY <1>7, <1>16, <2>1, TimesBackspace
  <2> QED BY <1>11, <2>1, <2>2
<1> HIDE DEF a, b
<1> DEFINE x == a \o b
<1>18. x \in Seq(Byte) /\ Len(x) = Len(a) + Len(b)
  BY <1>12, JoinIs
<1> HIDE DEF x
<1>19. Cut(x, l, c - l) = Part(x, 0, l) \o Part(x, l + (c - l), Len(x))
  <2>1. l \in 0 .. Len(x) /\ c - l \in 0 .. Len(x) - l
    BY <1>1, <1>2, <1>9, <1>12, <1>18
  <2> QED BY <1>18, <2>1, CutParts
<1>20. Part(x, 0, l) = Part(t, 0, l)
  <2>1. Part(a \o b, 0, l) = Part(a, 0, l)
    <3>1. 0 \in 0 .. Len(a) /\ l \in 0 .. Len(a)
      BY <1>1, <1>2, <1>12
    <3> QED BY <1>12, <3>1, PartFirst
  <2>2. Part(Part(t, 0, c), 0, l) = Part(t, 0 + 0, 0 + l)
    <3>1. 0 \in 0 .. Len(t) /\ c \in 0 .. Len(t) /\ 0 \in 0 .. c - 0 /\ l \in 0 .. c - 0
      BY <1>1, <1>2
    <3> QED BY <1>1, <3>1, PartOfPart
  <2>3. 0 + 0 = 0 /\ 0 + l = l
    BY <1>1, <1>2
  <2> QED BY <2>1, <2>2, <2>3 DEF a, x
<1>21. Part(x, l + (c - l), Len(x)) = b
  <2>1. /\ 0 \in 0 .. Len(b) /\ Len(b) \in 0 .. Len(b) /\ l + (c - l) = Len(a) + 0
        /\ Len(x) = Len(a) + Len(b)
    BY <1>1, <1>2, <1>9, <1>12, <1>18
  <2>2. Part(a \o b, Len(a) + 0, Len(a) + Len(b)) = Part(b, 0, Len(b))
    BY <1>12, <2>1, PartSecond
  <2>3. Part(b, 0, Len(b)) = b
    BY <1>12, PartAll
  <2> QED BY <2>1, <2>2, <2>3 DEF x
<1>22. Text(h) = Part(t, 0, l) \o Part(t, w + 1, n)
  BY <1>10, <1>17, <1>19, <1>20, <1>21 DEF x
<1> QED BY <1>4, <1>22 DEF t, c, n, l, w

(* The ends of a block and its bytes, from where its marks are.            *)
LEMMA OrderedEnds ==
  ASSUME NEW a \in Int, NEW b \in Int, a <= b
  PROVE  Min({a, b}) = a /\ Max({a, b}) = b
<1> DEFINE x == Min({a, b})
           y == Max({a, b})
           S == {a, b}
<1>1. S \in SUBSET (a .. b) /\ S # {} /\ a \in S /\ b \in S /\ \A i \in S : i = a \/ i = b
  OBVIOUS
<1>2. x = Min(S) /\ y = Max(S)
  OBVIOUS
<1> HIDE DEF S, x, y
<1>3. Min(S) \in S /\ (\A m \in S : Min(S) <= m)
  BY <1>1, Least
<1>4. Max(S) \in S /\ (\A m \in S : m <= Max(S))
  BY <1>1, Greatest
<1>5. Min(S) <= a /\ (Min(S) = a \/ Min(S) = b)
  BY <1>1, <1>3
<1>6. b <= Max(S) /\ (Max(S) = a \/ Max(S) = b)
  BY <1>1, <1>4
<1>7. Min(S) = a /\ Max(S) = b
  BY <1>5, <1>6
<1> QED BY <1>2, <1>7 DEF x, y

LEMMA MarkedBlock ==
  ASSUME NEW f, Sound(f), NEW p \in 0 .. f.last_byte, NEW q \in p .. f.last_byte,
         MarkedEnds(f) = {p, q}
  PROVE  StartMark(f) = p /\ EndMark(f) = q /\ GetBlock(f) = Part(Text(f), p, q)
<1> DEFINE t == Text(f)
           b == GetBlock(f)
           g == Part(t, p, q)
<1>1. /\ t \in Seq(Byte) /\ Len(t) = f.last_byte /\ f.last_byte \in Nat
      /\ \A j \in 1 .. f.last_byte : t[j] = GetByte(f, j - 1)
  BY SnapshotIs, TextIs DEF Sound
<1>2. p \in Int /\ q \in Int /\ p <= q
  BY <1>1
<1>3. StartMark(f) = p /\ EndMark(f) = q
  BY <1>2, OrderedEnds DEF StartMark, EndMark
<1>4. b = [i \in 1 .. q - p |-> GetByte(f, p + i - 1)]
  BY <1>3 DEF GetBlock
<1>5. b \in Seq(Byte) /\ Len(b) = q - p
  BY <1>3, BlockIs
<1> HIDE DEF t, b
<1>6. g \in Seq(Byte) /\ Len(g) = q - p /\ \A j \in 1 .. q - p : g[j] = t[p + j]
  <2>1. p \in 0 .. Len(t) /\ q \in p .. Len(t)
    BY <1>1
  <2> QED BY <1>1, <2>1, PartOf
<1> HIDE DEF g
<1>7. ASSUME NEW i \in 1 .. Len(b) PROVE b[i] = g[i]
  <2>1. i \in 1 .. q - p /\ p + i \in 1 .. f.last_byte /\ (p + i) - 1 = p + i - 1
    BY <1>1, <1>2, <1>5
  <2> QED BY <1>1, <1>4, <1>6, <2>1
<1>8. b = g
  BY <1>5, <1>6, <1>7, SameSeq
<1> QED BY <1>3, <1>8 DEF b, g, t

LEMMA BlockDeleteIs ==
  ASSUME NEW e, NEW all \in Seq(Snaps), Kept(e, all, TRUE), Marked(e)
  PROVE  Text(BlockDelete(e))
           = Part(Text(e), 0, StartMark(e)) \o Part(Text(e), EndMark(e), e.last_byte)
<1> DEFINE t == Text(e)
           s == StartMark(e)
           u == EndMark(e)
           f == Times("delete", u - s, MoveTo(PushMarkers(e), s))
<1>1. Sound(e) /\ Markable(e) /\ t \in Seq(Byte) /\ Len(t) = e.last_byte /\ e.last_byte \in Nat
  BY KeptIs, SnapshotIs DEF Kept, InRange
<1>2. s \in 0 .. e.last_byte /\ u \in 0 .. e.last_byte /\ s <= u
  BY <1>1, BlockIs
<1>3. Kept(f, all, TRUE) /\ Text(f) = Cut(t, s, u - s)
  <2>1. TRUE \in BOOLEAN
    OBVIOUS
  <2> QED BY <2>1, BlockTaken
<1>4. BlockDelete(e) = SetMarkers(f, 0, 0)
  BY DEF BlockDelete
<1> HIDE DEF f, s, u, t
<1>5. Text(SetMarkers(f, 0, 0)) = Text(f)
  <2>1. Sound(f)
    BY <1>3 DEF Kept
  <2>2. 0 \in Int /\ 0 >= -2
    OBVIOUS
  <2> QED BY <2>1, <2>2, MarkersSound
<1>6. Cut(t, s, u - s) = Part(t, 0, s) \o Part(t, s + (u - s), Len(t))
  <2>1. s \in 0 .. Len(t) /\ u - s \in 0 .. Len(t) - s
    BY <1>1, <1>2
  <2> QED BY <1>1, <2>1, CutParts
<1>7. s + (u - s) = u
  BY <1>1, <1>2
<1> QED BY <1>1, <1>3, <1>4, <1>5, <1>6, <1>7 DEF s, u, t

-----------------------------------------------------------------------------
(* A text b put into a text t, and the parts of the two together.          *)
Joined(t, c, b) == (Part(t, 0, c) \o b) \o Part(t, c, Len(t))

LEMMA JoinedIs ==
  ASSUME NEW t \in Seq(Byte), NEW b \in Seq(Byte), NEW c \in 0 .. Len(t)
  PROVE  LET j == Joined(t, c, b)
             k == Len(b)
         IN /\ Spliced(t, c, b, k) = j /\ j \in Seq(Byte) /\ Len(j) = Len(t) + k
            /\ Part(j, c, c + k) = b
            /\ \A p \in 0 .. c : \A q \in p .. c : Part(j, p, q) = Part(t, p, q)
            /\ \A p \in c .. Len(t) : \A q \in p .. Len(t) :
                 Part(j, p + k, q + k) = Part(t, p, q)
            /\ \A p \in 0 .. c : \A q \in c .. Len(t) :
                 Part(j, p, q + k) = (Part(t, p, c) \o b) \o Part(t, c, q)
<1> DEFINE n == Len(t)
           k == Len(b)
           a == Part(t, 0, c)
           x == a \o b
           y == Part(t, c, n)
           j == x \o y
<1>1. /\ n \in Nat /\ k \in Nat /\ c \in Nat /\ c <= n /\ 0 \in 0 .. Len(t)
      /\ n \in c .. Len(t) /\ c \in 0 .. c /\ c - 0 = c
  OBVIOUS
<1>2. a \in Seq(Byte) /\ Len(a) = c /\ y \in Seq(Byte) /\ Len(y) = n - c
  BY <1>1, PartOf
<1>3. \A p \in 0 .. c : \A q \in p .. c : Part(a, p, q) = Part(t, p, q)
  <2> SUFFICES ASSUME NEW p \in 0 .. c, NEW q \in p .. c PROVE Part(a, p, q) = Part(t, p, q)
    OBVIOUS
  <2>1. p \in 0 .. c - 0 /\ q \in p .. c - 0 /\ 0 + p = p /\ 0 + q = q
    BY <1>1
  <2>2. Part(Part(t, 0, c), p, q) = Part(t, 0 + p, 0 + q)
    BY <1>1, <2>1, PartOfPart
  <2> QED BY <2>1, <2>2
<1>4. \A p \in c .. n : \A q \in p .. n : Part(y, p - c, q - c) = Part(t, p, q)
  <2> SUFFICES ASSUME NEW p \in c .. n, NEW q \in p .. n PROVE Part(y, p - c, q - c) = Part(t, p, q)
    OBVIOUS
  <2>1. /\ p - c \in 0 .. n - c /\ q - c \in p - c .. n - c /\ c + (p - c) = p /\ c + (q - c) = q
        /\ c \in 0 .. Len(t)
    BY <1>1
  <2>2. Part(Part(t, c, n), p - c, q - c) = Part(t, c + (p - c), c + (q - c))
    BY <1>1, <2>1, PartOfPart
  <2> QED BY <2>1, <2>2
<1>5. Spliced(t, c, b, k) = j /\ Joined(t, c, b) = j
  BY SplicedParts DEF Joined
<1> HIDE DEF a, y
<1>6. x \in Seq(Byte) /\ Len(x) = c + k
  BY <1>2, JoinIs
<1>7. Part(x, c, c + k) = b
  <2>1. 0 \in 0 .. Len(b) /\ k \in 0 .. Len(b) /\ Len(a) + 0 = c /\ Len(a) + k = c + k
    BY <1>1, <1>2
  <2>2. Part(a \o b, Len(a) + 0, Len(a) + k) = Part(b, 0, k)
    BY <1>2, <2>1, PartSecond
  <2> QED BY <2>1, <2>2, PartAll
<1>8. \A p \in 0 .. c : \A q \in p .. c : Part(x, p, q) = Part(t, p, q)
  <2> SUFFICES ASSUME NEW p \in 0 .. c, NEW q \in p .. c PROVE Part(x, p, q) = Part(t, p, q)
    OBVIOUS
  <2>1. p \in 0 .. Len(a) /\ q \in p .. Len(a)
    BY <1>2
  <2>2. Part(a \o b, p, q) = Part(a, p, q)
    BY <1>2, <2>1, PartFirst
  <2> QED BY <1>3, <2>2
<1>9. \A p \in 0 .. c : Part(x, p, c + k) = Part(t, p, c) \o b
  <2> SUFFICES ASSUME NEW p \in 0 .. c PROVE Part(x, p, c + k) = Part(t, p, c) \o b
    OBVIOUS
  <2>1. p \in 0 .. Len(a) /\ k \in 0 .. Len(b) /\ c \in p .. c
    BY <1>1, <1>2
  <2>2. Part(a \o b, p, Len(a) + k) = Part(a, p, Len(a)) \o Part(b, 0, k)
    BY <1>2, <2>1, PartAcross
  <2>3. Part(b, 0, k) = b
    BY PartAll
  <2> QED BY <1>2, <1>3, <2>1, <2>2, <2>3
<1> HIDE DEF x, n, k
<1>10. j \in Seq(Byte) /\ Len(j) = n + k
  <2>1. Len(j) = Len(x) + Len(y) /\ j \in Seq(Byte)
    BY <1>2, <1>6, JoinIs
  <2> HIDE DEF j
  <2> QED BY <1>1, <1>2, <1>6, <2>1
<1>11. \A p \in 0 .. c + k : \A q \in p .. c + k : Part(j, p, q) = Part(x, p, q)
  <2> SUFFICES ASSUME NEW p \in 0 .. c + k, NEW q \in p .. c + k
               PROVE  Part(j, p, q) = Part(x, p, q)
    OBVIOUS
  <2>1. p \in 0 .. Len(x) /\ q \in p .. Len(x)
    BY <1>6
  <2> QED BY <1>2, <1>6, <2>1, PartFirst
<1>12. Part(j, c, c + k) = b
  <2>1. c \in 0 .. c + k /\ c + k \in c .. c + k
    BY <1>1
  <2> QED BY <1>7, <1>11, <2>1
<1>13. \A p \in 0 .. c : \A q \in p .. c : Part(j, p, q) = Part(t, p, q)
  <2> SUFFICES ASSUME NEW p \in 0 .. c, NEW q \in p .. c PROVE Part(j, p, q) = Part(t, p, q)
    OBVIOUS
  <2>1. p \in 0 .. c + k /\ q \in p .. c + k
    BY <1>1
  <2> HIDE DEF j
  <2> QED BY <1>8, <1>11, <2>1
<1>14. ASSUME NEW p \in c .. n, NEW q \in p .. n PROVE Part(j, p + k, q + k) = Part(t, p, q)
  <2>1. /\ p - c \in 0 .. Len(y) /\ q - c \in p - c .. Len(y)
        /\ Len(x) + (p - c) = p + k /\ Len(x) + (q - c) = q + k
    BY <1>1, <1>2, <1>6
  <2>2. Part(x \o y, Len(x) + (p - c), Len(x) + (q - c)) = Part(y, p - c, q - c)
    BY <1>2, <1>6, <2>1, PartSecond
  <2> QED BY <1>4, <2>1, <2>2
<1>15. ASSUME NEW p \in 0 .. c, NEW q \in c .. n
       PROVE  Part(j, p, q + k) = (Part(t, p, c) \o b) \o Part(t, c, q)
  <2>1. /\ p \in 0 .. Len(x) /\ q - c \in 0 .. Len(y) /\ Len(x) + (q - c) = q + k
        /\ c \in c .. n /\ q \in c .. n /\ c - c = 0
    BY <1>1, <1>2, <1>6
  <2>2. Part(x \o y, p, Len(x) + (q - c)) = Part(x, p, Len(x)) \o Part(y, 0, q - c)
    <3> DEFINE r == q - c
    <3>1. r \in 0 .. Len(y) /\ p \in 0 .. Len(x)
      BY <2>1
    <3> HIDE DEF r
    <3>2. Part(x \o y, p, Len(x) + r) = Part(x, p, Len(x)) \o Part(y, 0, r)
      BY <1>2, <1>6, <3>1, PartAcross
    <3> QED BY <3>2 DEF r
  <2>3. Part(y, c - c, q - c) = Part(t, c, q)
    BY <1>4, <2>1
  <2>4. Part(x, p, Len(x)) = Part(t, p, c) \o b
    BY <1>6, <1>9
  <2> QED BY <2>1, <2>2, <2>3, <2>4
<1> HIDE DEF j
<1> QED BY <1>5, <1>10, <1>12, <1>13, <1>14, <1>15 DEF n, k

LEMMA EndsAgree ==
  ASSUME NEW e, Sound(e)
  PROVE  /\ MarkedEnds(e) = {StartMark(e), EndMark(e)}
         /\ e.mark2 < 0 => e.curs1 \in {StartMark(e), EndMark(e)}
<1> DEFINE a == e.mark1
           b == IF e.mark2 >= 0 THEN e.mark2 ELSE e.curs1
<1>1. a \in Int /\ e.mark2 \in Int /\ e.curs1 \in Int
  BY SnapshotIs DEF Sound, Plain
<1>2. b \in Int /\ (e.mark2 < 0 => e.curs1 = b)
  BY <1>1
<1>3. MarkedEnds(e) = {a, b} /\ StartMark(e) = Min({a, b}) /\ EndMark(e) = Max({a, b})
  BY DEF MarkedEnds, StartMark, EndMark
<1> HIDE DEF a, b
<1>4. CASE a <= b
  <2>1. Min({a, b}) = a /\ Max({a, b}) = b
    BY <1>1, <1>2, <1>4, OrderedEnds
  <2> QED BY <1>2, <1>3, <2>1
<1>5. CASE ~ (a <= b)
  <2>1. b <= a /\ {b, a} = {a, b}
    BY <1>1, <1>2, <1>5
  <2>2. Min({b, a}) = b /\ Max({b, a}) = a
    BY <1>1, <1>2, <2>1, OrderedEnds
  <2> QED BY <1>2, <1>3, <2>1, <2>2
<1> QED BY <1>4, <1>5

LEMMA PairsAre ==
  ASSUME NEW a, NEW b, NEW s, NEW u, {a, b} = {s, u}
  PROVE  (a = s /\ b = u) \/ (a = u /\ b = s)
<1>1. a \in {a, b} /\ b \in {a, b} /\ s \in {s, u} /\ u \in {s, u}
  OBVIOUS
<1>2. a \in {s, u} /\ b \in {s, u} /\ s \in {a, b} /\ u \in {a, b}
  BY ONLY <1>1, {a, b} = {s, u}, Zenon
<1>3. (a = s \/ a = u) /\ (b = s \/ b = u) /\ (s = a \/ s = b) /\ (u = a \/ u = b)
  BY ONLY <1>2, Zenon
<1> QED BY ONLY <1>3, Zenon

LEMMA BlockCopyIs ==
  ASSUME NEW e, NEW all \in Seq(Snaps), Kept(e, all, TRUE), Marked(e),
         e.last_byte + EndMark(e) - StartMark(e) <= SIZE_LIMIT
  PROVE  CopyExact(BlockCopy(e), Text(e), StartMark(e), EndMark(e), e.curs1)
<1> DEFINE t == Text(e)
           n == e.last_byte
           c == e.curs1
           s == StartMark(e)
           u == EndMark(e)
           b == GetBlock(e)
           k == Len(b)
           g == PushMarkers(e)
           f == InsertBlock(g, b)
           copied == BlockCopy(e)
<1>1. /\ Sound(e) /\ Markable(e) /\ t \in Seq(Byte) /\ Len(t) = n /\ n \in Nat
      /\ c \in 0 .. n /\ c \in Nat
  BY KeptIs, SnapshotIs DEF Kept, InRange
<1>2. s \in 0 .. n /\ u \in 0 .. n /\ s <= u /\ b \in Seq(Byte) /\ k = u - s /\ k \in Nat
  BY <1>1, BlockIs
<1>3. MarkedEnds(e) = {s, u} /\ (e.mark2 < 0 => c \in {s, u})
  BY <1>1, EndsAgree
<1>4. b = Part(t, s, u)
  <2>1. s \in 0 .. e.last_byte /\ u \in s .. e.last_byte
    BY <1>1, <1>2
  <2> QED BY <1>1, <1>3, <2>1, MarkedBlock
<1>5. TRUE \in BOOLEAN /\ SIZE_LIMIT \in Int /\ n + u - s <= SIZE_LIMIT
  BY SizeLimitIs
<1>6. /\ Kept(g, all, TRUE) /\ g.last_byte = n /\ g.curs1 = c /\ Text(g) = t
      /\ g.mark1 = e.mark1 /\ g.mark2 = e.mark2
  BY <1>5, PushMarkersKept DEF Alike, SameBytes
<1>7. copied = IF s < c /\ c < u THEN SetMarkers(f, s, u + u - s) ELSE f
  BY DEF BlockCopy
<1>8. e.mark1 \in Int /\ e.mark2 \in Int
  BY <1>1 DEF Sound, Plain
<1>9. e.mark2 >= 0 => {e.mark1, e.mark2} = {s, u}
  BY <1>3 DEF MarkedEnds
<1> HIDE DEF t, n, c, s, u, b, g, copied
<1>10. g.last_byte + k <= SIZE_LIMIT
  BY <1>1, <1>2, <1>5, <1>6
<1> HIDE DEF k
<1>11. /\ f.curs1 = c /\ f.last_byte = n + k
       /\ f.mark1 = Shifted(e.mark1, c, k) /\ f.mark2 = Shifted(e.mark2, c, k)
       /\ Text(f) = Spliced(t, c, b, k)
  BY <1>2, <1>5, <1>6, <1>10, InsertBlockIs DEF k
<1>12. Kept(f, all, TRUE) /\ Sound(f)
  BY <1>2, <1>5, <1>6, InsertBlockKept DEF Kept
<1> HIDE DEF f
<1> DEFINE j == Joined(t, c, b)
<1>13. /\ Spliced(t, c, b, k) = j /\ j \in Seq(Byte) /\ Len(j) = Len(t) + k
       /\ \A p \in 0 .. c : \A q \in p .. c : Part(j, p, q) = Part(t, p, q)
       /\ \A p \in c .. Len(t) : \A q \in p .. Len(t) : Part(j, p + k, q + k) = Part(t, p, q)
       /\ \A p \in 0 .. c : \A q \in c .. Len(t) :
            Part(j, p, q + k) = (Part(t, p, c) \o b) \o Part(t, c, q)
  <2>1. c \in 0 .. Len(t)
    BY <1>1
  <2> QED BY <1>1, <1>2, <2>1, JoinedIs, ZenonT(60) DEF k
<1>14. j = (Part(t, 0, c) \o b) \o Part(t, c, Len(t))
  BY DEF Joined
<1> HIDE DEF j
<1>15. Text(f) = j /\ Len(t) = n
  BY <1>1, <1>11, <1>13
<1>16. Text(copied) = j
  <2>1. CASE s < c /\ c < u
    <3> DEFINE v == u + u - s
    <3>1. s \in Int /\ v \in Int /\ s >= -2 /\ v >= -2
      BY <1>1, <1>2
    <3> HIDE DEF v
    <3>2. Text(SetMarkers(f, s, v)) = Text(f)
      BY <1>12, <3>1, MarkersSound
    <3> QED BY <1>7, <1>15, <2>1, <3>2 DEF v
  <2>2. CASE ~ (s < c /\ c < u)
    BY <1>7, <1>15, <2>2
  <2> QED BY <2>1, <2>2
<1>17. ASSUME c \notin s .. u PROVE GetBlock(copied) = b
  <2>1. copied = f /\ e.mark2 >= 0 /\ (c < s \/ c > u)
    BY <1>1, <1>2, <1>3, <1>7, <1>8, <1>17
  <2>2. {e.mark1, e.mark2} = {s, u}
    BY <1>9, <2>1
  <2>3. CASE c < s
    <3> DEFINE p == s + k
               q == u + k
    <3>1. /\ p \in 0 .. f.last_byte /\ q \in p .. f.last_byte /\ s \in c .. Len(t)
          /\ u \in s .. Len(t)
      BY <1>1, <1>2, <1>11, <1>15, <2>3
    <3>2. Shifted(s, c, k) = p /\ Shifted(u, c, k) = q
      BY <1>1, <1>2, <2>3 DEF Shifted
    <3>3. {f.mark1, f.mark2} = {p, q}
      <4>1. (e.mark1 = s /\ e.mark2 = u) \/ (e.mark1 = u /\ e.mark2 = s)
        BY <2>2, PairsAre
      <4> HIDE DEF p, q
      <4> QED BY <1>11, <3>2, <4>1
    <3>4. p \in Nat /\ q \in Nat
      BY <1>1, <1>2
    <3>5. Part(j, s + k, u + k) = Part(t, s, u)
      BY <1>13, <3>1
    <3> HIDE DEF p, q
    <3>6. f.mark2 >= 0
      <4>1. f.mark2 \in {f.mark1, f.mark2}
        OBVIOUS
      <4>2. f.mark2 = p \/ f.mark2 = q
        BY ONLY <3>3, <4>1, Zenon
      <4> QED BY <3>4, <4>2
    <3>7. MarkedEnds(f) = {p, q}
      BY <3>3, <3>6 DEF MarkedEnds
    <3>8. GetBlock(f) = Part(Text(f), p, q)
      BY <1>12, <3>1, <3>7, MarkedBlock
    <3> QED BY <1>4, <1>15, <2>1, <3>5, <3>8 DEF p, q
  <2>4. CASE c > u
    <3>1. s \in 0 .. f.last_byte /\ u \in s .. f.last_byte /\ s \in 0 .. c /\ u \in s .. c
      BY <1>1, <1>2, <1>11, <2>4
    <3>2. Shifted(s, c, k) = s /\ Shifted(u, c, k) = u
      BY <1>1, <1>2, <2>4 DEF Shifted
    <3>3. {f.mark1, f.mark2} = {s, u}
      <4>1. (e.mark1 = s /\ e.mark2 = u) \/ (e.mark1 = u /\ e.mark2 = s)
        BY <2>2, PairsAre
      <4> QED BY <1>11, <3>2, <4>1
    <3>4. s \in Nat /\ u \in Nat
      BY <1>1, <1>2
    <3>5. Part(j, s, u) = Part(t, s, u)
      BY <1>13, <3>1
    <3>6. f.mark2 >= 0
      <4>1. f.mark2 \in {f.mark1, f.mark2}
        OBVIOUS
      <4>2. f.mark2 = s \/ f.mark2 = u
        BY ONLY <3>3, <4>1, Zenon
      <4> QED BY <3>4, <4>2
    <3>7. MarkedEnds(f) = {s, u}
      BY <3>3, <3>6 DEF MarkedEnds
    <3>8. GetBlock(f) = Part(Text(f), s, u)
      BY <1>12, <3>1, <3>7, MarkedBlock
    <3> QED BY <1>4, <1>15, <2>1, <3>5, <3>8
  <2> QED BY <2>1, <2>3, <2>4
<1>18. ASSUME c \in s + 1 .. u - 1
       PROVE  GetBlock(copied) = (Part(t, s, c) \o b) \o Part(t, c, u)
  <2> DEFINE v == u + u - s
             h == SetMarkers(f, s, v)
  <2>1. s < c /\ c < u
    BY <1>1, <1>2, <1>18
  <2>2. copied = h
    BY <1>7, <2>1
  <2>3. /\ s \in Int /\ v \in Int /\ s >= -2 /\ v >= -2 /\ v >= 0 /\ v = u + k
        /\ s \in 0 .. c /\ u \in c .. Len(t)
        /\ s \in 0 .. n + k /\ v \in s .. n + k
    BY <1>1, <1>2, <1>15, <2>1
  <2> HIDE DEF v
  <2>4. Sound(h) /\ Text(h) = Text(f) /\ h.last_byte = f.last_byte
    BY <1>12, <2>3, MarkersSound
  <2>5. h.mark1 = s /\ h.mark2 = v
    <3>1. IsEdit(f)
      BY <1>12 DEF Sound
    <3> QED BY <3>1, MarkersIs
  <2> HIDE DEF h
  <2>6. MarkedEnds(h) = {s, v}
    BY <2>3, <2>5 DEF MarkedEnds
  <2>7. s \in 0 .. h.last_byte /\ v \in s .. h.last_byte
    BY <1>11, <2>3, <2>4
  <2>8. GetBlock(h) = Part(Text(h), s, v)
    BY <2>4, <2>6, <2>7, MarkedBlock
  <2>9. Part(j, s, u + k) = (Part(t, s, c) \o b) \o Part(t, c, u)
    BY <1>13, <2>3
  <2> QED BY <1>15, <2>2, <2>3, <2>4, <2>8, <2>9
<1>19. /\ Text(copied) = (Part(t, 0, c) \o Part(t, s, u)) \o Part(t, c, Len(t))
       /\ c \notin s .. u => GetBlock(copied) = Part(t, s, u)
       /\ c \in s + 1 .. u - 1 =>
            GetBlock(copied) = (Part(t, s, c) \o Part(t, s, u)) \o Part(t, c, u)
  BY <1>4, <1>14, <1>16, <1>17, <1>18
<1>20. CopyExact(copied, t, s, u, c)
  BY <1>19 DEF CopyExact
<1> QED BY <1>20 DEF copied, t, s, u, c

(* A block taken from s to u of t, and put back before or behind.          *)
LEMMA TakenParts ==
  ASSUME NEW t \in Seq(Byte), NEW s \in 0 .. Len(t), NEW u \in s .. Len(t)
  PROVE  LET x == Cut(t, s, u - s)
             n == Len(t)
         IN /\ x \in Seq(Byte) /\ Len(x) = n - (u - s)
            /\ \A c \in 0 .. s : /\ Part(x, 0, c) = Part(t, 0, c)
                                 /\ Part(x, c, Len(x)) = Part(t, c, s) \o Part(t, u, n)
            /\ \A c \in u .. n :
                 /\ Part(x, 0, c - (u - s)) = Part(t, 0, s) \o Part(t, u, c)
                 /\ Part(x, c - (u - s), Len(x)) = Part(t, c, n)
<1> DEFINE n == Len(t)
           k == u - s
           a == Part(t, 0, s)
           b == Part(t, u, n)
           x == Cut(t, s, k)
<1>1. /\ n \in Nat /\ s \in Nat /\ u \in Nat /\ s <= u /\ u <= n /\ k \in 0 .. Len(t) - s
      /\ s + k = u /\ s - 0 = s /\ 0 \in 0 .. Len(t) /\ u \in 0 .. Len(t) /\ n \in u .. Len(t)
  OBVIOUS
<1>2. x \in Seq(Byte) /\ Len(x) = n - k
  BY <1>1, CutIs, ZenonT(60)
<1>3. x = a \o b
  BY <1>1, CutParts
<1>4. a \in Seq(Byte) /\ Len(a) = s /\ b \in Seq(Byte) /\ Len(b) = n - u
  BY <1>1, PartOf
<1>5. ASSUME NEW p \in 0 .. s, NEW q \in p .. s PROVE Part(a, p, q) = Part(t, p, q)
  <2>1. p \in 0 .. s - 0 /\ q \in p .. s - 0 /\ 0 + p = p /\ 0 + q = q
    BY <1>1
  <2>2. Part(Part(t, 0, s), p, q) = Part(t, 0 + p, 0 + q)
    BY <1>1, <2>1, PartOfPart
  <2> QED BY <2>1, <2>2
<1>6. ASSUME NEW p \in u .. n, NEW q \in p .. n PROVE Part(b, p - u, q - u) = Part(t, p, q)
  <2>1. p - u \in 0 .. n - u /\ q - u \in p - u .. n - u /\ u + (p - u) = p /\ u + (q - u) = q
    BY <1>1
  <2>2. Part(Part(t, u, n), p - u, q - u) = Part(t, u + (p - u), u + (q - u))
    BY <1>1, <2>1, PartOfPart
  <2> QED BY <2>1, <2>2
<1> HIDE DEF n, k, a, b, x
<1>10. Len(x) = Len(a) + Len(b) /\ 0 \in 0 .. Len(b) /\ Len(b) \in 0 .. Len(b)
       /\ 0 \in 0 .. Len(a) /\ s \in 0 .. s /\ Len(a) + Len(b) = Len(x)
  BY <1>1, <1>2, <1>4
<1>7. ASSUME NEW c \in 0 .. s
      PROVE  /\ Part(x, 0, c) = Part(t, 0, c)
             /\ Part(x, c, Len(x)) = Part(t, c, s) \o Part(t, u, n)
  <2>1. /\ c \in 0 .. Len(a) /\ c \in 0 .. s /\ 0 \in 0 .. s /\ s \in c .. s /\ Len(b) = n - u
        /\ u \in u .. n /\ n \in u .. n /\ u - u = 0
    BY <1>1, <1>4
  <2>2. Part(a \o b, 0, c) = Part(a, 0, c)
    BY <1>4, <1>10, <2>1, PartFirst
  <2>3. Part(a, 0, c) = Part(t, 0, c) /\ Part(a, c, s) = Part(t, c, s)
    BY <1>5, <2>1
  <2> DEFINE l == Len(b)
  <2>4. l \in 0 .. Len(b)
    BY <1>10
  <2>5. Part(b, 0, l) = Part(t, u, n)
    BY <1>6, <2>1
  <2> HIDE DEF l
  <2>6. Part(a \o b, c, Len(a) + l) = Part(a, c, Len(a)) \o Part(b, 0, l)
    BY <1>4, <2>1, <2>4, PartAcross
  <2> QED BY <1>3, <1>4, <1>10, <2>2, <2>3, <2>5, <2>6 DEF l
<1>8. ASSUME NEW c \in u .. n
      PROVE  /\ Part(x, 0, c - k) = Part(t, 0, s) \o Part(t, u, c)
             /\ Part(x, c - k, Len(x)) = Part(t, c, n)
  <2> DEFINE l == c - u
             m == n - u
  <2>1. /\ l \in 0 .. Len(b) /\ m \in l .. Len(b) /\ Len(a) + l = c - k /\ Len(a) + m = Len(x)
        /\ u \in u .. n /\ c \in u .. c /\ c \in u .. n /\ n \in c .. n /\ u - u = 0
    BY <1>1, <1>2, <1>4
  <2>2. Part(b, 0, l) = Part(t, u, c) /\ Part(b, l, m) = Part(t, c, n)
    BY <1>6, <2>1
  <2> HIDE DEF l, m
  <2>3. Part(a \o b, 0, Len(a) + l) = Part(a, 0, Len(a)) \o Part(b, 0, l)
    <3>1. 0 \in 0 .. Len(a) /\ l \in 0 .. Len(b)
      BY <1>10, <2>1
    <3> QED BY <1>4, <3>1, PartAcross
  <2>4. Part(a \o b, Len(a) + l, Len(a) + m) = Part(b, l, m)
    BY <1>4, <2>1, PartSecond
  <2>5. Part(a, 0, Len(a)) = a
    BY <1>4, PartAll
  <2> QED BY <1>3, <2>1, <2>2, <2>3, <2>4, <2>5 DEF a
<1>9. /\ x \in Seq(Byte) /\ Len(x) = n - k
      /\ \A c \in 0 .. s : /\ Part(x, 0, c) = Part(t, 0, c)
                           /\ Part(x, c, Len(x)) = Part(t, c, s) \o Part(t, u, n)
      /\ \A c \in u .. n : /\ Part(x, 0, c - k) = Part(t, 0, s) \o Part(t, u, c)
                           /\ Part(x, c - k, Len(x)) = Part(t, c, n)
  BY <1>2, <1>7, <1>8
<1> QED BY <1>9 DEF x, n, k

LEMMA BlockMoveIs ==
  ASSUME NEW e, NEW all \in Seq(Snaps), Kept(e, all, TRUE), Marked(e)
  PROVE  MoveExact(BlockMove(e), Text(e), StartMark(e), EndMark(e), e.curs1)
<1> DEFINE t == Text(e)
           n == e.last_byte
           c == e.curs1
           s == StartMark(e)
           u == EndMark(e)
           k == u - s
           b == GetBlock(e)
           g == Times("delete", u - s, MoveTo(PushMarkers(e), s))
           p == c - (IF c > s THEN u - s ELSE 0)
           h == MoveTo(g, p)
           f == InsertBlock(h, b)
           moved == BlockMove(e)
<1>1. /\ Sound(e) /\ Markable(e) /\ t \in Seq(Byte) /\ Len(t) = n /\ n \in Nat
      /\ c \in 0 .. n /\ c \in Nat /\ n <= SIZE_LIMIT /\ SIZE_LIMIT \in Int /\ TRUE \in BOOLEAN
  BY KeptIs, SnapshotIs, SizeLimitIs DEF Kept, InRange, Sound, Plain
<1>2. s \in 0 .. n /\ u \in 0 .. n /\ s <= u /\ b \in Seq(Byte) /\ Len(b) = k /\ k \in Nat
  BY <1>1, BlockIs
<1>3. b = Part(t, s, u)
  <2>1. s \in 0 .. e.last_byte /\ u \in s .. e.last_byte
    BY <1>1, <1>2
  <2>2. MarkedEnds(e) = {s, u}
    BY <1>1, EndsAgree
  <2> QED BY <1>1, <2>1, <2>2, MarkedBlock
<1>4. Kept(g, all, TRUE) /\ g.last_byte = n - k /\ Text(g) = Cut(t, s, k)
  BY <1>1, BlockTaken
<1>5. ~ (s <= c /\ c <= u) => moved = SetMarkers(f, f.curs1, f.curs1 + k)
  BY DEF BlockMove, MarkAhead
<1>6. p = IF c > s THEN c - k ELSE c
  BY <1>1, <1>2
<1> HIDE DEF t, n, c, s, u, b, g, p, moved
<1> SUFFICES ASSUME c < s \/ c > u
             PROVE  MoveExact(moved, t, s, u, c)
  BY <1>1, <1>2 DEF MoveExact, moved, t, s, u, c
<1>7. moved = SetMarkers(f, f.curs1, f.curs1 + k)
  BY <1>1, <1>2, <1>5
<1> DEFINE x == Cut(t, s, k)
<1>8. /\ x \in Seq(Byte) /\ Len(x) = n - k
      /\ c \in 0 .. s => /\ Part(x, 0, c) = Part(t, 0, c)
                         /\ Part(x, c, Len(x)) = Part(t, c, s) \o Part(t, u, n)
      /\ c \in u .. n => /\ Part(x, 0, c - k) = Part(t, 0, s) \o Part(t, u, c)
                         /\ Part(x, c - k, Len(x)) = Part(t, c, n)
  <2>1. s \in 0 .. Len(t) /\ u \in s .. Len(t)
    BY <1>1, <1>2
  <2>2. /\ x \in Seq(Byte) /\ Len(x) = Len(t) - (u - s)
        /\ \A d \in 0 .. s : /\ Part(x, 0, d) = Part(t, 0, d)
                             /\ Part(x, d, Len(x)) = Part(t, d, s) \o Part(t, u, Len(t))
        /\ \A d \in u .. Len(t) :
             /\ Part(x, 0, d - (u - s)) = Part(t, 0, s) \o Part(t, u, d)
             /\ Part(x, d - (u - s), Len(x)) = Part(t, d, Len(t))
    BY <1>1, <2>1, TakenParts
  <2> HIDE DEF x
  <2> QED BY <1>1, <2>2
<1> HIDE DEF x
<1>9. p \in 0 .. g.last_byte /\ p \in Int /\ p \in Nat
  BY <1>1, <1>2, <1>4, <1>6
<1>10. /\ Kept(h, all, TRUE) /\ h.last_byte = n - k /\ h.curs1 = p /\ Text(h) = x
  BY <1>1, <1>4, <1>9, MoveToIs DEF Alike, x
<1> HIDE DEF h
<1>11. h.last_byte + Len(b) <= SIZE_LIMIT
  BY <1>1, <1>2, <1>10
<1>12. Kept(f, all, TRUE) /\ Sound(f)
  BY <1>1, <1>2, <1>10, InsertBlockKept DEF Kept
<1>13. f.curs1 = p /\ f.last_byte = n - k + Len(b) /\ Text(f) = Spliced(x, p, b, Len(b))
  BY <1>1, <1>2, <1>10, <1>11, InsertBlockIs
<1> HIDE DEF f, k
<1> DEFINE j == Joined(x, p, b)
<1>14. Spliced(x, p, b, Len(b)) = j /\ Part(j, p, p + Len(b)) = b
  <2>1. p \in 0 .. Len(x)
    BY <1>4, <1>8, <1>9
  <2> QED BY <1>2, <1>8, <2>1, JoinedIs
<1>15. j = (Part(x, 0, p) \o b) \o Part(x, p, Len(x))
  BY DEF Joined
<1> HIDE DEF j
<1> DEFINE q == p + k
<1>16. /\ p \in Int /\ q \in Int /\ p >= -2 /\ q >= -2 /\ q >= 0
       /\ p \in 0 .. f.last_byte /\ q \in p .. f.last_byte
  BY <1>1, <1>2, <1>4, <1>9, <1>13
<1>17. moved = SetMarkers(f, p, q)
  BY <1>7, <1>13
<1> HIDE DEF q
<1>18. /\ Sound(moved) /\ Text(moved) = j /\ moved.last_byte = f.last_byte
  BY <1>12, <1>13, <1>14, <1>16, <1>17, MarkersSound
<1>19. moved.mark1 = p /\ moved.mark2 = q
  <2>1. IsEdit(f)
    BY <1>12 DEF Sound
  <2> QED BY <1>17, <2>1, MarkersIs
<1>20. MarkedEnds(moved) = {p, q}
  BY <1>16, <1>19 DEF MarkedEnds
<1>21. GetBlock(moved) = b
  <2>1. p \in 0 .. moved.last_byte /\ q \in p .. moved.last_byte
    BY <1>16, <1>18
  <2>2. GetBlock(moved) = Part(Text(moved), p, q)
    BY <1>18, <1>20, <2>1, MarkedBlock
  <2>3. q = p + Len(b)
    BY <1>2 DEF q
  <2> QED BY <1>14, <1>18, <2>2, <2>3
<1>22. CASE c < s
  <2>1. p = c /\ c \in 0 .. s /\ ~ (c > u)
    BY <1>1, <1>2, <1>6, <1>22
  <2>2. j = (Part(t, 0, c) \o b) \o (Part(t, c, s) \o Part(t, u, n))
    BY <1>8, <1>15, <2>1
  <2> DEFINE a == Part(t, 0, c) \o b
             d == Part(t, c, s)
             r == Part(t, u, n)
  <2>3. a \in Seq(Byte) /\ d \in Seq(Byte) /\ r \in Seq(Byte)
    <3>1. /\ 0 \in 0 .. Len(t) /\ c \in 0 .. Len(t) /\ s \in c .. Len(t) /\ u \in 0 .. Len(t)
          /\ n \in u .. Len(t)
      BY <1>1, <1>2, <1>22
    <3>2. Part(t, 0, c) \in Seq(Byte) /\ d \in Seq(Byte) /\ r \in Seq(Byte)
      BY <1>1, <3>1, PartOf
    <3> HIDE DEF d, r
    <3> QED BY <1>2, <3>2, JoinIs
  <2>4. a \o (d \o r) = (a \o d) \o r
    BY <2>3, JoinsAgree
  <2>5. Text(moved) = ((Part(t, 0, c) \o b) \o Part(t, c, s)) \o Part(t, u, Len(t))
    BY <1>1, <1>18, <2>2, <2>4
  <2> QED BY <1>3, <1>21, <2>1, <2>5 DEF MoveExact, HasMarked
<1>23. CASE c > u
  <2>1. p = c - k /\ c \in u .. n /\ ~ (c < s)
    BY <1>1, <1>2, <1>6, <1>23
  <2>2. Text(moved) = ((Part(t, 0, s) \o Part(t, u, c)) \o b) \o Part(t, c, Len(t))
    BY <1>1, <1>8, <1>15, <1>18, <2>1
  <2> QED BY <1>3, <1>21, <2>1, <2>2 DEF MoveExact, HasMarked
<1> QED BY <1>22, <1>23

LEMMA BufferInvExact == BufferInv => CommandsExact
<1> SUFFICES ASSUME BufferInv PROVE CommandsExact
  OBVIOUS
<1> DEFINE t == Text(edit)
           n == edit.last_byte
           c == edit.curs1
           s == StartMark(edit)
           u == EndMark(edit)
<1>1. Kept(edit, <<>>, FALSE) /\ (~cut => past \in Seq(Snaps) /\ Kept(edit, past, TRUE))
  BY DEF BufferInv
<1>2. Text(DeleteLine(edit)) = Part(t, 0, Bol(edit, c)) \o Part(t, Eol(edit, c) + 1, n)
  <2>1. <<>> \in Seq(Snaps) /\ FALSE \in BOOLEAN
    OBVIOUS
  <2> QED BY <1>1, <2>1, DeleteLineIs
<1>3. ASSUME Marked(edit), ~cut
      PROVE  /\ Text(BlockDelete(edit)) = Part(t, 0, s) \o Part(t, u, n)
             /\ n + u - s <= SIZE_LIMIT => CopyExact(BlockCopy(edit), t, s, u, c)
             /\ MoveExact(BlockMove(edit), t, s, u, c)
  <2>1. past \in Seq(Snaps) /\ Kept(edit, past, TRUE)
    BY <1>1, <1>3
  <2>2. Text(BlockDelete(edit)) = Part(t, 0, s) \o Part(t, u, n)
    BY <1>3, <2>1, BlockDeleteIs
  <2>3. n + u - s <= SIZE_LIMIT => CopyExact(BlockCopy(edit), t, s, u, c)
    BY <1>3, <2>1, BlockCopyIs
  <2>4. MoveExact(BlockMove(edit), t, s, u, c)
    BY <1>3, <2>1, BlockMoveIs
  <2> QED BY <2>2, <2>3, <2>4
<1> HIDE DEF t, n, c, s, u
<1>4. /\ Text(DeleteLine(edit)) = Part(t, 0, Bol(edit, c)) \o Part(t, Eol(edit, c) + 1, n)
      /\ Marked(edit) /\ ~cut =>
           /\ Text(BlockDelete(edit)) = Part(t, 0, s) \o Part(t, u, n)
           /\ n + u - s <= SIZE_LIMIT => CopyExact(BlockCopy(edit), t, s, u, c)
           /\ MoveExact(BlockMove(edit), t, s, u, c)
  BY <1>2, <1>3
<1> QED BY <1>4 DEF CommandsExact, t, n, c, s, u

(* In every buffer that can be reached, a copied, moved or deleted block   *)
(* and a deleted line leave exactly the text they should, and the marks    *)
(* around the block (editcmd.c:1184-1310, edit.c:2098-2160).               *)
THEOREM CommandsStayExact == BufferSpec => []CommandsExact
BY BufferInvExact, BufferInvHolds, PTL

=============================================================================
