---- MODULE MCSessionMirror ----
\* A call, a second block of its response, its result and a compact boundary.
EXTENDS SessionMirror
CONSTANTS r1, r2
At(kind, of, response, out) == [kind |-> kind, of |-> of, response |-> response, out |-> out]
MCScript ==
    << At("call", 0, r1, 1), At("turn", 0, r1, 2), At("result", 1, NoResponse, 0),
       At("compact", 0, NoResponse, 0) >>
====
