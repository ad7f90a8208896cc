------------------------------- MODULE MCTaskForm -------------------------------
\* TaskForm with the session ids below.
EXTENDS TaskForm

OneSession == {7}
=============================================================================
