------------------------------- MODULE MCWorld -------------------------------
(* Two objects, an obstacle and the dynamic body it becomes, and two hands *)
(* that are a base without fingers.                                        *)
EXTENDS World

CONSTANTS o1, o2, w1, w2, h1, h2, l1, l2

MCLinks == (h1 :> {l1}) @@ (h2 :> {l2})
MCBase == (h1 :> l1) @@ (h2 :> l2)
MCChains == (h1 :> {}) @@ (h2 :> {})
MCSymmetry == {f @@ g @@ h : f \in {<<>>, o1 :> o2 @@ o2 :> o1}, g \in {<<>>, w1 :> w2 @@ w2 :> w1},
                             h \in {<<>>, h1 :> h2 @@ h2 :> h1 @@ l1 :> l2 @@ l2 :> l1}}
=============================================================================
