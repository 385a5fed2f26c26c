---------------------------- MODULE MCBTreeTable ----------------------------
EXTENDS BTreeTable
=============================================================================
