----------------------------- MODULE EditBuffer -----------------------------
(***************************************************************************)
(* The text buffer of the editor (src/editor/edit.c, editcmd.c): the text  *)
(* before the cursor in the blocks of buffers1, the text behind it, back   *)
(* to front, in those of buffers2.  All text passes the cursor through     *)
(* four routines, which push their reverse on the undo stack.              *)
(*                                                                         *)
(* A key is one step.  Column blocks, UTF-8, tabs and word wrap are left   *)
(* out; blocks persist when the cursor moves (option_persistent_selections)*)
(***************************************************************************)
EXTENDS UndoStack, Sequences, SequencesExt, FiniteSetsExt

CONSTANTS Contents,         \* the files that may be loaded
          Chars,            \* bytes the user types
          EDIT_BUF_SIZE,    \* bytes of a block; 65536 in the code
          MAXBUFF,          \* the last index of a block; 1024 in the code
          MaxKeys,          \* bound: keys and undos
          MaxScrolls        \* bound: moves of the window

SIZE_LIMIT == EDIT_BUF_SIZE * (MAXBUFF - 2)
Newline == 10

ASSUME EditBufferAssumption ==
  /\ EDIT_BUF_SIZE \in Nat \ {0, 1} /\ MAXBUFF \in Nat
  /\ SIZE_LIMIT < MARK_2 - MARK_1 - 2    \* the code of a mark is one of a mark
  /\ Chars \subseteq 0 .. 255
  /\ \A t \in Contents : t \in Seq(0 .. 255) /\ Len(t) < SIZE_LIMIT
  /\ MaxKeys \in Nat /\ MaxScrolls \in Nat

VARIABLES
  edit,    \* the WEdit
  past,    \* history: text and cursor at each key press on the undo stack
  last,    \* history: "key" or "undo"
  cut,     \* history: a block copy stopped at SIZE_LIMIT
  keys,    \* history: keys and undos so far
  scrolls  \* history: moves of the window so far

buffer_vars == <<edit, past, last, cut, keys, scrolls>>

-----------------------------------------------------------------------------
(* Bytes and blocks.  A block that is not allocated keeps nothing.         *)

NewBlock == [i \in 0 .. EDIT_BUF_SIZE - 1 |-> 0]
BlockOf(p) == p \div EDIT_BUF_SIZE

Alloc(buffers, k) ==
  [j \in DOMAIN buffers \cup {k} |-> IF j = k THEN NewBlock ELSE buffers[j]]
Free(buffers, k) == [j \in DOMAIN buffers \ {k} |-> buffers[j]]
Put(buffers, k, i, c) ==
  IF k \in DOMAIN buffers THEN [buffers EXCEPT ![k][i] = c] ELSE buffers
Get(buffers, k, i) == IF k \in DOMAIN buffers THEN buffers[k][i] ELSE 0

(* Where byte p of buffers1, and the p-th byte from the end, are kept.     *)
Forth(p) == p % EDIT_BUF_SIZE
Back(p) == EDIT_BUF_SIZE - Forth(p) - 1

(* edit_get_byte: beyond either end there is a newline.                    *)
GetByte(e, i) ==
  LET p == e.curs1 + e.curs2 - i - 1
  IN IF i < 0 \/ i >= e.curs1 + e.curs2 THEN Newline
     ELSE IF i >= e.curs1 THEN Get(e.buffers2, BlockOf(p), Back(p))
     ELSE Get(e.buffers1, BlockOf(i), Forth(i))

Text(e) == [i \in 1 .. e.last_byte |-> GetByte(e, i - 1)]

CountLines(e, from, upto) ==
  Cardinality({i \in from .. upto - 1 : i >= 0 /\ i < e.last_byte
                                        /\ GetByte(e, i) = Newline})
Bol(e, p) == Max({i \in 0 .. p : GetByte(e, i - 1) = Newline})
Eol(e, p) == Min({i \in p .. e.last_byte : GetByte(e, i) = Newline})

-----------------------------------------------------------------------------
(* The four routines.                                                      *)

Push(e, c) ==
  [e EXCEPT !.stack = IF e.stack_disable THEN Grown(@) ELSE PushAction(Grown(@), c)]

One(condition) == IF condition THEN 1 ELSE 0

(* What the routines do to the counters: the text grows or shrinks by byte *)
(* c at a place above the window or not.                                   *)
Counted(e, c, by, above) ==
  [e EXCEPT !.last_byte = @ + by,
            !.total_lines = @ + by * One(c = Newline),
            !.start_display = @ + by * One(above),
            !.start_line = @ + by * One(above /\ c = Newline)]

Insert(e, c) ==
  LET f == Push(Counted(e, c, 1, e.curs1 < e.start_display), BACKSPACE)
      k == BlockOf(e.curs1)
      b == IF Forth(e.curs1) = 0 THEN Alloc(e.buffers1, k) ELSE e.buffers1
  IN IF e.last_byte >= SIZE_LIMIT THEN e
     ELSE [f EXCEPT !.buffers1 = Put(b, k, Forth(e.curs1), c),
                    !.curs1 = @ + 1,
                    !.curs_line = @ + One(c = Newline),
                    !.mark1 = @ + One(@ > e.curs1),
                    !.mark2 = @ + One(@ > e.curs1)]

(* Mistake: a block is inserted beyond SIZE_LIMIT.                         *)
InsertAheadUnlimited(e, c) ==
  LET f == Push(Counted(e, c, 1, e.curs1 < e.start_display), DELCHAR)
      b == IF Forth(e.curs2 + 1) = 0 THEN Alloc(e.buffers2, BlockOf(e.curs2 + 1))
                                     ELSE e.buffers2
  IN [f EXCEPT !.buffers2 = Put(b, BlockOf(e.curs2), Back(e.curs2), c),
                    !.curs2 = @ + 1,
                    !.mark1 = @ + One(@ >= e.curs1),
                    !.mark2 = @ + One(@ >= e.curs1)]

InsertAhead(e, c) ==
  LET f == Push(Counted(e, c, 1, e.curs1 < e.start_display), DELCHAR)
      b == IF Forth(e.curs2 + 1) = 0 THEN Alloc(e.buffers2, BlockOf(e.curs2 + 1))
                                     ELSE e.buffers2
  IN IF e.last_byte >= SIZE_LIMIT THEN e
     ELSE [f EXCEPT !.buffers2 = Put(b, BlockOf(e.curs2), Back(e.curs2), c),
                    !.curs2 = @ + 1,
                    !.mark1 = @ + One(@ >= e.curs1),
                    !.mark2 = @ + One(@ >= e.curs1)]

(* Mistake: a mark at the cursor moves with the deleted byte.              *)
DeletePullsMarks(e) ==
  LET p == Get(e.buffers2, BlockOf(e.curs2 - 1), Back(e.curs2 - 1))
      f == Push(Counted(e, p, -1, e.curs1 < e.start_display), p + 256)
  IN IF e.curs2 = 0 THEN e
     ELSE [f EXCEPT !.buffers2 = IF Forth(e.curs2) = 0 THEN Free(@, BlockOf(e.curs2))
                                                       ELSE @,
                    !.curs2 = @ - 1,
                    !.mark1 = @ - One(@ >= e.curs1),
                    !.mark2 = @ - One(@ > e.curs1)]

Delete(e) ==
  LET p == Get(e.buffers2, BlockOf(e.curs2 - 1), Back(e.curs2 - 1))
      f == Push(Counted(e, p, -1, e.curs1 < e.start_display), p + 256)
  IN IF e.curs2 = 0 THEN e
     ELSE [f EXCEPT !.buffers2 = IF Forth(e.curs2) = 0 THEN Free(@, BlockOf(e.curs2))
                                                       ELSE @,
                    !.curs2 = @ - 1,
                    !.mark1 = @ - One(@ > e.curs1),
                    !.mark2 = @ - One(@ > e.curs1)]

(* Mistake: the block is freed one byte early.                             *)
BackspaceFreesEarly(e) ==
  LET p == Get(e.buffers1, BlockOf(e.curs1 - 1), Forth(e.curs1 - 1))
      f == Push(Counted(e, p, -1, e.curs1 - 1 < e.start_display), p)
  IN IF e.curs1 = 0 THEN e
     ELSE [f EXCEPT !.buffers1 = IF Forth(e.curs1) = 0
                                 THEN Free(@, BlockOf(e.curs1)) ELSE @,
                    !.curs1 = @ - 1,
                    !.curs_line = @ - One(p = Newline),
                    !.mark1 = @ - One(@ >= e.curs1),
                    !.mark2 = @ - One(@ >= e.curs1)]

(* Mistake: the newline right before the window does not count as above it.*)
BackspaceMiscounts(e) ==
  LET p == Get(e.buffers1, BlockOf(e.curs1 - 1), Forth(e.curs1 - 1))
      f == Push(Counted(e, p, -1, e.curs1 < e.start_display), p)
  IN IF e.curs1 = 0 THEN e
     ELSE [f EXCEPT !.buffers1 = IF Forth(e.curs1 - 1) = 0
                                 THEN Free(@, BlockOf(e.curs1)) ELSE @,
                    !.curs1 = @ - 1,
                    !.curs_line = @ - One(p = Newline),
                    !.mark1 = @ - One(@ >= e.curs1),
                    !.mark2 = @ - One(@ >= e.curs1)]

Backspace(e) ==
  LET p == Get(e.buffers1, BlockOf(e.curs1 - 1), Forth(e.curs1 - 1))
      f == Push(Counted(e, p, -1, e.curs1 - 1 < e.start_display), p)
  IN IF e.curs1 = 0 THEN e
     ELSE [f EXCEPT !.buffers1 = IF Forth(e.curs1 - 1) = 0
                                 THEN Free(@, BlockOf(e.curs1)) ELSE @,
                    !.curs1 = @ - 1,
                    !.curs_line = @ - One(p = Newline),
                    !.mark1 = @ - One(@ >= e.curs1),
                    !.mark2 = @ - One(@ >= e.curs1)]

(* edit_cursor_move by one byte.                                           *)
Left(e) ==
  LET c == GetByte(e, e.curs1 - 1)
      f == Push(e, CURS_RIGHT)
      b == IF Forth(e.curs2 + 1) = 0 THEN Alloc(e.buffers2, BlockOf(e.curs2 + 1))
                                     ELSE e.buffers2
  IN IF e.curs1 = 0 THEN e
     ELSE [f EXCEPT !.buffers2 = Put(b, BlockOf(e.curs2), Back(e.curs2), c),
                    !.buffers1 = IF Forth(e.curs1 - 1) = 0
                                 THEN Free(@, BlockOf(e.curs1)) ELSE @,
                    !.curs1 = @ - 1, !.curs2 = @ + 1,
                    !.curs_line = @ - One(c = Newline)]

Right(e) ==
  LET c == GetByte(e, e.curs1)
      f == Push(e, CURS_LEFT)
      b == IF Forth(e.curs1) = 0 THEN Alloc(e.buffers1, BlockOf(e.curs1))
                                 ELSE e.buffers1
  IN IF e.curs2 = 0 THEN e
     ELSE [f EXCEPT !.buffers1 = Put(b, BlockOf(e.curs1), Forth(e.curs1), c),
                    !.buffers2 = IF Forth(e.curs2) = 0 THEN Free(@, BlockOf(e.curs2))
                                                       ELSE @,
                    !.curs1 = @ + 1, !.curs2 = @ - 1,
                    !.curs_line = @ + One(c = Newline)]

(* One of them n times.                                                    *)
Once(op, e) ==
  CASE op = "left" -> Left(e) [] op = "right" -> Right(e)
    [] op = "delete" -> Delete(e) [] op = "backspace" -> Backspace(e)
Times(op, n, e) ==
  LET after[k \in 0 .. n] == IF k = 0 THEN e ELSE Once(op, after[k - 1])
  IN after[n]

Move(e, by) ==
  Times(IF by < 0 THEN "left" ELSE "right", IF by < 0 THEN -by ELSE by, e)
MoveTo(e, p) == Move(e, p - e.curs1)

-----------------------------------------------------------------------------
(* Loading a file: edit_load_file_fast puts the cursor before the text.    *)

LoadedText(t) ==
  [buffers1 |-> <<>>,
   buffers2 |-> [k \in 0 .. BlockOf(Len(t)) |->
                   [i \in 0 .. EDIT_BUF_SIZE - 1 |->
                      LET p == k * EDIT_BUF_SIZE + (EDIT_BUF_SIZE - i - 1)
                      IN IF p < Len(t) THEN t[Len(t) - p] ELSE 0]],
   curs1 |-> 0, curs2 |-> Len(t), last_byte |-> Len(t),
   curs_line |-> 0, total_lines |-> Cardinality({i \in DOMAIN t : t[i] = Newline}),
   prev_col |-> 0, start_display |-> 0, start_line |-> 0,
   mark1 |-> 0, mark2 |-> 0,
   stack |-> EmptyStack(START_STACK_SIZE), stack_disable |-> FALSE]

BufferInit ==
  /\ \E t \in Contents : edit = LoadedText(t)
  /\ past = <<>> /\ last = "key" /\ cut = FALSE /\ keys = 0 /\ scrolls = 0

-----------------------------------------------------------------------------
(* Commands.                                                               *)

PushMarkers(e) == Push(Push(e, MARK_1 + e.mark1), MARK_2 + e.mark2)
SetMarkers(e, m1, m2) == [e EXCEPT !.mark1 = m1, !.mark2 = m2]
MarkAhead(e, n) == SetMarkers(e, e.curs1, e.curs1 + n)

(* Up and down keep to the column of the last other command, prev_col; a   *)
(* step right and left finds the start of a character.                     *)
Column(e) == e.curs1 - Bol(e, e.curs1)
ToPrevCol(e, p) == MoveTo(e, Min({p + e.prev_col, Eol(e, p)}))
AtCharacter(e) == IF e.curs1 + 1 < e.last_byte THEN Left(Right(e)) ELSE e
ToLine(e, p) == AtCharacter(ToPrevCol(MoveTo(e, p), p))
Up(e) == IF e.curs_line = 0 THEN e ELSE ToLine(e, Bol(e, Bol(e, e.curs1) - 1))
Down(e) == IF e.curs_line = e.total_lines THEN e ELSE ToLine(e, Eol(e, e.curs1) + 1)
Top(e) == IF e.curs_line = 0 THEN e ELSE ToPrevCol(MoveTo(e, 0), 0)
Vertical == {"up", "down", "top"}

Char(e, c, overwrite) ==
  Insert(IF overwrite /\ GetByte(e, e.curs1) # Newline THEN Delete(e) ELSE e, c)

DeleteToLineEnd(e) == Times("delete", Eol(e, e.curs1) - e.curs1, e)
DeleteToLineBegin(e) == Times("backspace", e.curs1 - Bol(e, e.curs1), e)
DeleteLine(e) == DeleteToLineBegin(Delete(DeleteToLineEnd(e)))

(* The block, when there is one: from the smaller mark to the greater; a   *)
(* second mark of -1 stands for the cursor.                                *)
Marked(e) == e.mark1 # e.mark2
MarkedEnds(e) == {e.mark1, IF e.mark2 >= 0 THEN e.mark2 ELSE e.curs1}
StartMark(e) == Min(MarkedEnds(e))
EndMark(e) == Max(MarkedEnds(e))
GetBlock(e) == [i \in 1 .. EndMark(e) - StartMark(e) |-> GetByte(e, StartMark(e) + i - 1)]
InsertBlock(e, block) ==    \* back to front
  LET after[k \in 0 .. Len(block)] ==
        IF k = 0 THEN e ELSE InsertAhead(after[k - 1], block[Len(block) - k + 1])
  IN after[Len(block)]

MarkCmd(e) ==
  LET f == PushMarkers(e)
  IN IF e.mark2 >= 0 THEN SetMarkers(f, e.curs1, -1) ELSE SetMarkers(f, e.mark1, e.curs1)
Unmark(e) == SetMarkers(PushMarkers(e), 0, 0)
MarkAll(e) == SetMarkers(e, 0, e.last_byte)

BlockCopy(e) ==
  LET s == StartMark(e)
      t == EndMark(e)
      f == InsertBlock(PushMarkers(e), GetBlock(e))
  IN IF ~Marked(e) THEN e
     ELSE IF s < e.curs1 /\ e.curs1 < t THEN SetMarkers(f, s, t + t - s) ELSE f

(* Mistake: the cursor forgets that the block before it is gone.           *)
BlockMoveGoesAstray(e) ==
  LET s == StartMark(e)
      t == EndMark(e)
      taken == Times("delete", t - s, MoveTo(PushMarkers(e), s))
      there == MoveTo(taken, e.curs1)
      f == InsertBlock(there, GetBlock(e))
  IN IF ~Marked(e) \/ (s <= e.curs1 /\ e.curs1 <= t) THEN e
     ELSE MarkAhead(f, t - s)

BlockMove(e) ==
  LET s == StartMark(e)
      t == EndMark(e)
      taken == Times("delete", t - s, MoveTo(PushMarkers(e), s))
      there == MoveTo(taken, e.curs1 - (IF e.curs1 > s THEN t - s ELSE 0))
      f == InsertBlock(there, GetBlock(e))
  IN IF ~Marked(e) \/ (s <= e.curs1 /\ e.curs1 <= t) THEN e
     ELSE MarkAhead(f, t - s)

BlockDelete(e) ==
  LET s == StartMark(e)
      t == EndMark(e)
  IN IF ~Marked(e) THEN DeleteLine(e)
     ELSE SetMarkers(Times("delete", t - s, MoveTo(PushMarkers(e), s)), 0, 0)

(* A large block is moved or deleted only after a question.                *)
Large(e) == Marked(e) /\ EndMark(e) - StartMark(e) > MaxUndo \div 2

Commands == {"left", "right", "up", "down", "top", "home", "end",
             "return", "backspace", "delete",
             "delete_line", "delete_to_line_end", "delete_to_line_begin",
             "mark", "unmark", "mark_all", "copy", "move", "block_delete"}

Execute(e, command) ==
  CASE command = "left"      -> Left(e)
    [] command = "right"     -> Right(e)
    [] command = "up"        -> Up(e)
    [] command = "down"      -> Down(e)
    [] command = "top"       -> Top(e)
    [] command = "return"    -> Insert(e, Newline)
    [] command = "home"      -> MoveTo(e, Bol(e, e.curs1))
    [] command = "end"       -> MoveTo(e, Eol(e, e.curs1))
    [] command = "backspace" -> Backspace(e)
    [] command = "delete"    -> Delete(e)
    [] command = "delete_line"          -> DeleteLine(e)
    [] command = "delete_to_line_end"   -> DeleteToLineEnd(e)
    [] command = "delete_to_line_begin" -> DeleteToLineBegin(e)
    [] command = "mark"      -> MarkCmd(e)
    [] command = "unmark"    -> Unmark(e)
    [] command = "mark_all"  -> MarkAll(e)
    [] command = "copy"      -> BlockCopy(e)
    [] command = "move"      -> BlockMove(e)
    [] command = "block_delete" -> BlockDelete(e)

(* edit_push_key_press: where undo stops.                                  *)
KeyPress(e) == KEY_PRESS + e.start_display
PushKeyPress(e) ==
  LET f == Push(e, KeyPress(e))
  IN IF e.mark2 = -1 THEN Push(f, MARK_1 + e.mark1) ELSE f

(* The text and the cursor undo can lead back to after a key: those of the *)
(* key presses that are still on the stack.                                *)
Snapshot(e) == <<Text(e), e.curs1>>
Remembered(e, f) ==
  LET all == IF Again(Grown(e.stack), KeyPress(e)) THEN past
             ELSE Append(past, Snapshot(e))
      n == KeyPresses(f.stack)
  IN SubSeq(all, Len(all) - n + 1, Len(all))

-----------------------------------------------------------------------------
(* Undo: pop and reverse until the key press.                              *)

Reversed(e, ac) ==
  CASE ac = CURS_RIGHT -> Right(e)
    [] ac = CURS_LEFT  -> Left(e)
    [] ac = BACKSPACE  -> Backspace(e)
    [] ac = DELCHAR    -> Delete(e)
    [] ac \in 0 .. 255    -> Insert(e, ac)
    [] ac \in 256 .. 511  -> InsertAhead(e, ac - 256)
    [] ac >= MARK_1 - 2 /\ ac < MARK_2 - 2    -> [e EXCEPT !.mark1 = ac - MARK_1]
    [] ac >= MARK_2 - 2 /\ ac < KEY_PRESS     -> [e EXCEPT !.mark2 = ac - MARK_2]

(* Where the loop of edit_do_undo ends.                                    *)
AtKeyPress(ac) == ac = STACK_BOTTOM \/ ac >= KEY_PRESS

(* The window goes back to where it was at the key press.                  *)
WindowBack(e, d) ==
  [e EXCEPT !.start_display = d,
            !.start_line = @ - CountLines(e, d, e.start_display)
                             + CountLines(e, e.start_display, d)]

(* Each entry is popped as often as its count says; Pops bounds the loop.  *)
Weight(n) == IF n < 0 THEN -n ELSE 1
Pops(u) ==
  LET sum[k \in 0 .. Depth(u)] ==
        IF k = 0 THEN 1 ELSE sum[k - 1] + Weight(Entry(u, u.stack_bottom + k - 1))
  IN sum[Depth(u)]

UndoEnds(e, ac) ==
  [(IF ac >= KEY_PRESS THEN WindowBack(e, ac - KEY_PRESS) ELSE e)
     EXCEPT !.stack_disable = FALSE]

UndoOne(r) ==    \* pop and reverse, until the key press
  IF AtKeyPress(r.ac) THEN r
  ELSE LET p == PopAction(r.e.stack)
           f == [r.e EXCEPT !.stack = p.stack]
       IN [e |-> IF AtKeyPress(p.action) THEN f ELSE Reversed(f, p.action),
           ac |-> p.action]

DoUndo(e) ==
  LET n == Pops(e.stack)
      after[k \in 0 .. n] ==
        IF k = 0 THEN [e |-> [e EXCEPT !.stack_disable = TRUE], ac |-> 0]
        ELSE UndoOne(after[k - 1])
  IN UndoEnds(after[n].e, after[n].ac)

-----------------------------------------------------------------------------
WithColumn(e) == [e EXCEPT !.prev_col = Column(e)]
Executed(e, command) == IF command \in Vertical THEN e ELSE WithColumn(e)

Key(f) ==
  /\ keys < MaxKeys /\ keys' = keys + 1
  /\ edit' = f
  /\ past' = Remembered(edit, f)
  /\ last' = "key"
  /\ UNCHANGED scrolls

Type(c, overwrite) ==
  /\ Key(WithColumn(Char(PushKeyPress(edit), c, overwrite)))
  /\ UNCHANGED cut

Perform(command) ==
  /\ \/ Key(Executed(Execute(PushKeyPress(edit), command), command))
     \/ /\ command \in {"move", "block_delete"} /\ Large(edit)
        /\ Key(WithColumn(PushKeyPress(edit)))
  /\ cut' = (cut \/ (command = "copy" /\ Marked(edit)
                     /\ edit.last_byte + Len(GetBlock(edit)) > SIZE_LIMIT))

Undo ==
  /\ keys < MaxKeys /\ keys' = keys + 1
  /\ edit' = WithColumn(DoUndo(edit))
  /\ past' = IF past = <<>> THEN past ELSE Front(past)
  /\ last' = "undo"
  /\ UNCHANGED <<cut, scrolls>>

(* The window follows the cursor, or the user scrolls: its first line      *)
(* becomes another one.                                                    *)
Scroll ==
  /\ scrolls < MaxScrolls /\ scrolls' = scrolls + 1
  /\ \E d \in 0 .. edit.last_byte :
       /\ Bol(edit, d) = d /\ d # edit.start_display
       /\ edit' = WindowBack(edit, d)
  /\ UNCHANGED <<past, last, cut, keys>>

BufferNext ==
  \/ \E c \in Chars, overwrite \in BOOLEAN : Type(c, overwrite)
  \/ \E command \in Commands : Perform(command)
  \/ Undo
  \/ Scroll

BufferSpec == BufferInit /\ [][BufferNext]_buffer_vars

-----------------------------------------------------------------------------
(* Properties.                                                             *)

(* Types; undo can lead back to as many texts as there are key presses on  *)
(* the stack, unless a mark was pushed that is so far behind the end that  *)
(* its code is one of a key press (see MarksInRange).                      *)
BufferTypeOK ==
  /\ edit.curs1 \in Nat /\ edit.curs2 \in Nat
  /\ edit.last_byte \in 0 .. SIZE_LIMIT
  /\ edit.stack.stack_pointer \in 0 .. edit.stack.stack_size - 1
  /\ edit.stack.stack_bottom \in 0 .. edit.stack.stack_size - 1
  /\ edit.stack_disable = FALSE
  /\ last \in {"key", "undo"} /\ cut \in BOOLEAN /\ keys \in 0 .. MaxKeys /\ scrolls \in 0 .. MaxScrolls
  /\ ~cut => Len(past) = KeyPresses(edit.stack)

(* The blocks that hold text are allocated, and no others: no byte is      *)
(* written or read through a missing block, none leaks, and the tables of  *)
(* MAXBUFF + 1 blocks are not overrun.  The first block behind the cursor  *)
(* always exists (edit.c:288, 1248).                                       *)
BlocksAllocated ==
  /\ edit.last_byte = edit.curs1 + edit.curs2
  /\ DOMAIN edit.buffers1 =
       {BlockOf(p) : p \in 0 .. edit.curs1 - 1}
  /\ DOMAIN edit.buffers2 = 0 .. BlockOf(edit.curs2)
  /\ DOMAIN edit.buffers1 \cup DOMAIN edit.buffers2 \subseteq 0 .. MAXBUFF

(* The counters the routines keep by adding and subtracting agree with the *)
(* text: the line of the cursor, the number of lines, the line of the      *)
(* window, which stays inside the text as long as the marks do.            *)
CountersMatch ==
  /\ edit.curs_line = CountLines(edit, 0, edit.curs1)
  /\ edit.total_lines = CountLines(edit, 0, edit.last_byte)
  /\ ~cut => /\ edit.start_display \in 0 .. edit.last_byte
             /\ edit.start_line = CountLines(edit, 0, edit.start_display)

(* Both marks stay inside the text, whatever is inserted, deleted, moved   *)
(* and undone around them (editcmd.c:1204 sets them beyond the end after a *)
(* copy that stopped at SIZE_LIMIT).                                       *)
MarksInRange ==
  ~cut => edit.mark1 \in 0 .. edit.last_byte /\ edit.mark2 \in -1 .. edit.last_byte

(* What a copied and a moved block look like in the text t they came from. *)
Part(t, p, q) == SubSeq(t, p + 1, q)
HasMarked(e, text, block) == Text(e) = text /\ GetBlock(e) = block

CopyExact(copied, t, from, upto, c) ==
  LET block == Part(t, from, upto)
  IN /\ Text(copied) = Part(t, 0, c) \o block \o Part(t, c, Len(t))
     /\ c \notin from .. upto => GetBlock(copied) = block
     /\ c \in from + 1 .. upto - 1 =>
          GetBlock(copied) = Part(t, from, c) \o block \o Part(t, c, upto)

MoveExact(moved, t, from, upto, c) ==
  LET block == Part(t, from, upto)
  IN /\ c < from =>
          HasMarked(moved, Part(t, 0, c) \o block \o Part(t, c, from)
                             \o Part(t, upto, Len(t)), block)
     /\ c > upto =>
          HasMarked(moved, Part(t, 0, from) \o Part(t, upto, c) \o block
                             \o Part(t, c, Len(t)), block)

(* In every buffer, the commands that work through single bytes and moves  *)
(* of the cursor do what they say: a block that fits is copied to the      *)
(* cursor, moved there, or removed, the rest of the text and the marked    *)
(* text stay, and a line is deleted as a whole.                            *)
CommandsExact ==
  LET t == Text(edit)
      n == edit.last_byte
      c == edit.curs1
      from == StartMark(edit)
      upto == EndMark(edit)
  IN /\ Text(DeleteLine(edit)) =
          Part(t, 0, Bol(edit, c)) \o Part(t, Eol(edit, c) + 1, n)
     /\ Marked(edit) /\ ~cut =>
          /\ Text(BlockDelete(edit)) = Part(t, 0, from) \o Part(t, upto, n)
          /\ n + upto - from <= SIZE_LIMIT =>
               CopyExact(BlockCopy(edit), t, from, upto, c)
          /\ MoveExact(BlockMove(edit), t, from, upto, c)

(* Undo leads back through all texts and cursors there were, one key press *)
(* at a time, although equal pushes are counted, opposite moves cancel and *)
(* the ring grows, wraps and loses its oldest entries.                     *)
Distinct(s) ==   \* what the last of s follows, without repetitions
  LET before[k \in 0 .. Len(s) - 1] ==
        IF k = 0 THEN << >>
        ELSE IF s[k + 1] = s[k] THEN before[k - 1] ELSE Append(before[k - 1], s[k])
  IN before[Len(s) - 1]
History == INSTANCE UndoHistory
             WITH text <- Text(edit), pos <- edit.curs1, last <- last, cut <- cut,
                  past <- Distinct(Append(past, Snapshot(edit)))
ImplementsUndo == History!Spec

(* What the routines keep beside the text agrees with it: blocks, counters *)
(* and marks.                                                              *)
BufferIsConsistent ==
  /\ BufferTypeOK
  /\ BlocksAllocated
  /\ CountersMatch
  /\ MarksInRange

=============================================================================
