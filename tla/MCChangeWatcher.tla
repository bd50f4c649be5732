-------------------------- MODULE MCChangeWatcher --------------------------
EXTENDS ChangeWatcher
=============================================================================
