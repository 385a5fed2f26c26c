---------------------------- MODULE MCSnapshots ----------------------------
EXTENDS Snapshots

CONSTANTS u1, u2

\* main() is the only user and keeps one version; the holder's own mutex also
\* admits two users, who keep two.
MCSettings == {<<{u1}, 1>>, <<{u1, u2}, 2>>}
=============================================================================
