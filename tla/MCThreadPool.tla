---------------------------- MODULE MCThreadPool ----------------------------
(* ThreadPool on a few threads and tasks.                                    *)
EXTENDS ThreadPool
=============================================================================
