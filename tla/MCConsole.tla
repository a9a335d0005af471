------------------------------ MODULE MCConsole ------------------------------
EXTENDS Console
CONSTANT x

\* The rule that asks has another in front of it.
MCStart == {<<x, Asking>>}
=============================================================================
