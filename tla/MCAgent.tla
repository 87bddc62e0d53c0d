------------------------------- MODULE MCAgent ------------------------------
(* A small instance of Agent for TLC.                                      *)
EXTENDS Agent

CONSTANTS approve, text

MCAnswer  == {approve, text}
MCFitting == {approve}
=============================================================================
