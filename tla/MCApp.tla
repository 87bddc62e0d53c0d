------------------------------- MODULE MCApp -------------------------------
EXTENDS App
=============================================================================
