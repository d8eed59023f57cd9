--------------------------- MODULE MC_ThreadPool ----------------------------
(* Two workers and three pieces of work: both workers can be busy while    *)
(* the third piece is queued, and a worker can race another one to it.     *)
EXTENDS ThreadPool
=============================================================================
