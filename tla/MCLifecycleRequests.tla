------------------------ MODULE MCLifecycleRequests ------------------------
(* Two incarnations of a name with a handful of requests bound to them.    *)
EXTENDS LifecycleRequests, TLC

CONSTANTS i1, i2, s1, t1, b1, b2, d1, p1, p2

MCInstances == {i1, i2}
MCStart == {s1}
MCStop == {t1}
MCBoot == {b1, b2}
MCProof == {d1}
MCPlain == {p1, p2}
MCPlainReq == i1 :> p1 @@ i2 :> p2
MCBind == s1 :> i1 @@ t1 :> i2 @@ b1 :> i1 @@ b2 :> i1
            @@ d1 :> i1 @@ p1 :> i1 @@ p2 :> i2

=============================================================================
