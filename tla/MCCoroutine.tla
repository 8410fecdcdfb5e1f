---------------------------- MODULE MCCoroutine ----------------------------
EXTENDS Coroutine
============================================================================
