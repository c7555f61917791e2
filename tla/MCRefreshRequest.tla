-------------------------- MODULE MCRefreshRequest --------------------------
(* Sources in the order the worker asks them: a feed and csfloat, or the two *)
(* sources of Skinport before them.                                         *)
EXTENDS RefreshRequest, Sequences

CONSTANTS sales, live, waxpeer, csfloat

FeedOrder == <<waxpeer, csfloat>>
AllOrder == <<sales, live, waxpeer, csfloat>>
=============================================================================
