------------------------------- MODULE MCHeap -------------------------------
(* Instances of Heap for TLC, in which realloc and dealloc meet words that *)
(* are not what they take them for.                                        *)
EXTENDS Heap

(* One small class, and two layouts too large for it.                      *)
OneClass == <<2>>
LargeRequests == {<<2, 1>>, <<4, 1>>, <<3, 1>>}

(* Two small classes, and a layout of the larger one.                      *)
TwoClasses == <<1, 3>>
SmallRequests == {<<3, 1>>}
=============================================================================
