---- MODULE MCThreadPool ----
(* Small instances of ThreadPool: clients are model values, so are jobs. *)
EXTENDS ThreadPool
CONSTANTS main, j1, j2, j3
====
