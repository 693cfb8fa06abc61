----------------------------- MODULE MCSubshell -----------------------------
EXTENDS Subshell

CONSTANTS home, work

OneKey == {<<k>> : k \in Keys}
TwoKeys == OneKey \cup {<<k, l>> : k, l \in Keys}
=============================================================================
