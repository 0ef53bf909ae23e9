-------------------------- MODULE SessionLifecycle --------------------------
(***************************************************************************)
(* What a client of model_hub_py sees of its sessions, whatever the        *)
(* scheduler, the locks and the service processes do: the life of a        *)
(* session through the values of SessionStatus, in one direction only.     *)
(* ModelHub implements it.                                                 *)
(***************************************************************************)
CONSTANT Sessions

VARIABLE session

InProgress == {"queued", "starting", "processing"}

Move(x, from, to) ==
    session[x] \in from /\ session' = [session EXCEPT ![x] = to]

Submit(x) == Move(x, {"unsubmitted"}, "queued")
Start(x)  == Move(x, {"queued"}, "starting")
Serve(x)  == Move(x, {"queued", "starting"}, "processing")
Finish(x) == Move(x, {"processing"}, "finished")

MoveAll(X, from, to) ==
    /\ \A x \in X : session[x] \in from
    /\ session' = [x \in Sessions |-> IF x \in X THEN to ELSE session[x]]

\* One session fails, or every queued one does when a lease takes the only slot.
Fail(X)   == MoveAll(X, InProgress, "failed")
Expire(X) == MoveAll(X, {"finished", "failed"}, "expired")

Init == session = [x \in Sessions |-> "unsubmitted"]

Next ==
    \/ \E x \in Sessions : Submit(x) \/ Start(x) \/ Serve(x) \/ Finish(x)
    \/ \E X \in SUBSET Sessions : Fail(X) \/ Expire(X)

Spec == Init /\ [][Next]_session
=============================================================================
