----------------------------- MODULE MCFtpConn -----------------------------
EXTENDS FtpConn
=============================================================================
