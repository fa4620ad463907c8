------------------------------- MODULE MCEngine -------------------------------
EXTENDS Engine
===============================================================================
