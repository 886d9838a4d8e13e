---- MODULE MCUpHttpd ----
(* Small instances of UpHttpd. *)
EXTENDS UpHttpd
CONSTANTS c1, c2, c3

\* SIGINT comes anywhere in the main thread.
Anywhere == MainPC \ {"exited"}
\* Where it finds it inside pool_add_worker.
InPool == {"adding"}
====
