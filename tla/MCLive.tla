--------------------------------- MODULE MCLive ---------------------------------
(* Small instances of Live. *)
EXTENDS Live
CONSTANTS u1, u2, h1, h2, h3, s1, s2, s3
================================================================================
