------------------------------- MODULE MCRobot -------------------------------
\* The human, and one process after another.
EXTENDS Robot
=============================================================================
