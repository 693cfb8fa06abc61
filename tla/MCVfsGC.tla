------------------------------- MODULE MCVfsGC ------------------------------
(* Two remote file systems and an archive for two panels: one of them is   *)
(* in no panel, or in both.                                                *)
EXTENDS VfsGC

CONSTANTS ftp, tar, sfs
MCFS == {ftp, tar, sfs}
=============================================================================
