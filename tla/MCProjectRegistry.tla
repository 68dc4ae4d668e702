--------------------------- MODULE MCProjectRegistry ---------------------------
EXTENDS ProjectRegistry, TLC

CONSTANTS outer, inner,                 \* a project, and one inside it
          inOuter, inInner, elsewhere   \* a file of each, and one of neither

MCCovers == inOuter :> {outer} @@ inInner :> {outer, inner} @@ elsewhere :> {}
MCDepth == outer :> 1 @@ inner :> 2

\* Nothing but its name tells a client from another.
ClientSymmetry == Permutations(Clients)
===============================================================================
