---------------------------- MODULE MCVfsHandles ---------------------------
(* Two file systems whose opens return any of four private records, and    *)
(* room for four slots: lists of up to four free slots in every order.     *)
EXTENDS VfsHandles

CONSTANTS local, ftpfs, i1, i2, i3, i4

MCClass == {local, ftpfs}
MCInfo == {i1, i2, i3, i4}
=============================================================================
