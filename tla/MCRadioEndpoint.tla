--------------------------- MODULE MCRadioEndpoint ---------------------------
(***************************************************************************)
(* Instances of RadioEndpoint for TLC: who the tasks are and what they     *)
(* call.                                                                   *)
(***************************************************************************)
EXTENDS RadioEndpoint, TLC

CONSTANTS rx, ui, other, usb, sys, fm, adsb, system

\* An app's receiver task, a second task of the same app, another app, the
\* USB task and a system task.
MCOwnerOf == rx :> fm @@ ui :> fm @@ other :> adsb @@ usb :> system
             @@ sys :> system
MCOf(T) == [t \in T |-> MCOwnerOf[t]]

\* Dashboard stops and recovery against starts, releases, front-end calls
\* and replugs.
PauseTasks == {rx, ui, sys, usb}
PauseOwnerOf == MCOf(PauseTasks)
PauseCalls ==
    rx :> {"acquire", "release", "configure", "start"}
    @@ ui :> {"stop", "fe"}
    @@ sys :> {"dashboard", "recover"}
    @@ usb :> {"register", "unregister"}

\* Receipts against the controls of a second task and dashboard stops.
ReceiptTasks == {rx, ui, sys}
ReceiptOwnerOf == MCOf(ReceiptTasks)
ReceiptCalls ==
    rx :> {"acquire", "configure", "start", "observe", "recheck"}
    @@ ui :> {"retune", "set_ppm", "get_health", "stop", "release"}
    @@ sys :> {"register", "unregister", "dashboard", "recover"}

\* ... and against front-end controls (README, 3.4).
FrontEndCalls ==
    rx :> {"acquire", "configure", "start", "observe"}
    @@ ui :> {"fe"}
    @@ sys :> {"register"}

\* Every wait against every other: a release, a detach and a recovery wait
\* for the control lock and for the calls inside.
LiveTasks == {rx, other, usb}
LiveOwnerOf == MCOf(LiveTasks)
LiveCalls ==
    rx :> {"acquire", "release", "configure", "start", "read"}
    @@ other :> {"acquire", "release", "fe", "recover"}
    @@ usb :> {"register", "unregister"}
=============================================================================
