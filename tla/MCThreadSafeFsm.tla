-------------------------- MODULE MCThreadSafeFsm --------------------------
(* Two application threads, one of which stops the worker that both start. *)
(* MCThreadSafeFsm.cfg: two events of any kind.  ThreeEvents.cfg: a send(),*)
(* the event its action sends, and one of the other thread, in a machine   *)
(* whose state does not matter, for there are no timeouts.                 *)
EXTENDS ThreadSafeFsm

CONSTANTS main, other, worker, none, s0, s1
MCClients == {main, other}
MCControllers == {main}
MCStates == {s0, s1}
MCOneState == {s0}
MCAllKinds == {"send", "step", "post", "future", "delayed", "timeout"}
MCEventKinds == {"send", "post", "future"}
=============================================================================
