---------------------------- MODULE MCAppRegistry ----------------------------
(***************************************************************************)
(* An instance of AppRegistry for TLC: two apps, the screen and another    *)
(* task, two fences.  The queue holds one request, so that it is full as   *)
(* soon as the worker is behind; with the request it serves and those that *)
(* are being sent, four are under way at a time.                           *)
(***************************************************************************)
EXTENDS AppRegistry, TLC

CONSTANTS screen, console

MCCaller == {screen, console}

\* The screen puts up fences, another task asks for all the rest.
MCCalls == screen :> {} @@ console :> {"switch", "park", "unpark", "recover"}
=============================================================================
