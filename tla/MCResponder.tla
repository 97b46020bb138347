---------------------------- MODULE MCResponder -----------------------------
EXTENDS Responder

A(r, test) == [rule |-> r, test |-> test]

(* One alert, two at once, a test with a real one.                         *)
Bodies ==
  {<<A(r, FALSE)>> : r \in Rules}
    \union {<<A(q, FALSE), A(r, FALSE)>> : q \in Rules, r \in Rules}
    \union {<<A(r, TRUE), A(r, FALSE)>> : r \in Rules}
=============================================================================
