------------------------------ MODULE MCLoadGen ------------------------------
EXTENDS LoadGen

\* Three kinds of requests, one of them rare.
ThreeShapes == <<6, 3, 1>>
=============================================================================
