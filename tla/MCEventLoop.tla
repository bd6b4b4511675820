----------------------------- MODULE MCEventLoop -----------------------------
(* EventLoop with a ring of 3 slots and 7 pushes: the producers can lap    *)
(* the main loop twice, at every point of event_poll.                      *)
EXTENDS EventLoop
=============================================================================
