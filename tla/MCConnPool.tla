----------------------------- MODULE MCConnPool -----------------------------
(* Two connections and two requests, to any route; the session lookup of one *)
(* of them may fail.                                                         *)
EXTENDS ConnPool

CONSTANTS r1, r2

MCServed == Routes
=============================================================================
