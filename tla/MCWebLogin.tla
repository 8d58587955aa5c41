----------------------------- MODULE MCWebLogin -----------------------------
(* A small instance of WebLogin: one browser under two throttle keys, its   *)
(* own address and that of a header, and two handler threads.               *)
EXTENDS WebLogin
=============================================================================
