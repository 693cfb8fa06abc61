----------------------------- MODULE MCCopyFile -----------------------------
EXTENDS CopyFile
=============================================================================
