------------------------- MODULE MCEventLoopThread -------------------------
(* EventLoopThread for TLC: three functors, one of which queues a fourth. *)
EXTENDS EventLoopThread, TLC

CONSTANTS f1, f2, f3, f4

MCnested == (f1 :> NoFunctor) @@ (f2 :> f4) @@ (f3 :> NoFunctor) @@ (f4 :> NoFunctor)

=============================================================================
