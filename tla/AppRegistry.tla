---------------------------- MODULE AppRegistry ----------------------------
(***************************************************************************)
(* The app registry, core/app_registry.c: one receiver app runs at a time. *)
(* Any task asks for a change of app, a park, an unpark or a recovery      *)
(* through a short queue; one worker coalesces what is queued and calls    *)
(* the apps' stop and enter callbacks.  The interface puts up a fence that *)
(* parks the app and holds every other request until it is taken down.     *)
(*                                                                         *)
(* The callers read s_parked, s_current_app, s_switch_in_flight and        *)
(* s_ui_held without a lock and send afterwards, so the two are steps of   *)
(* their own.  What survives a restart is the recovery count, kept in      *)
(* memory that a reset does not clear.                                     *)
(*                                                                         *)
(* A definition marked "Slip" is not part of the model: it is the one      *)
(* below it with a mistake a change of the code could make, and the        *)
(* property named after it is the one that catches the mistake.            *)
(***************************************************************************)
EXTENDS Integers, Sequences, FiniteSets

CONSTANTS
    NumApps,    \* s_app_count
    Caller,     \* the tasks that make requests
    Screen,     \* the one of them that puts up fences
    Calls,      \* what each of them asks for, but for the fences
    QueueSize,  \* the length of s_switch_q
    LoopMax,    \* RECOVER_LOOP_MAX
    MaxToken    \* bound on the fences asked for between two restarts

ASSUME NumAppsAssumption   == NumApps \in Nat \ {0}
ASSUME ScreenAssumption    == Screen \in Caller
ASSUME CallsAssumption     ==
    Calls \in [Caller -> SUBSET {"switch", "park", "unpark", "recover"}]
ASSUME QueueSizeAssumption == QueueSize \in Nat \ {0}
ASSUME LoopMaxAssumption   == LoopMax \in Nat /\ LoopMax >= 2
ASSUME MaxTokenAssumption  == MaxToken \in Nat

App == 0..NumApps - 1

Plain(k)  == [kind |-> k, arg |-> 0]
Switch(a) == [kind |-> "switch", arg |-> a]
Fence(n)  == [kind |-> "fence", arg |-> n]
Nothing   == Plain("none")
Request == {Plain(k) : k \in {"park", "unpark", "recover"}}
           \cup {Switch(a) : a \in App} \cup {Fence(n) : n \in 1..MaxToken}

VARIABLES
    current, parked, byFault,  \* s_current_app, s_parked, s_parked_by_fault
    inFlight,                  \* s_switch_in_flight
    held, token, ack, failed,  \* s_ui_held, s_ui_token, s_ui_ack, s_ui_failed
    waits,     \* what app_ui_park_request returned: a token, or zero
    queue,     \* s_switch_q
    sending,   \* what each caller is about to send
    at, job,   \* the worker: where it is, the request it serves
    restart,   \* the worker's restart_app
    running,   \* the apps that were entered and have not stopped
    booted, early, \* s_booted_from_recovery; up for less than 30 seconds
    count,     \* s_recover_count
    \* ghosts: a recovery failed since the boot; the first to fail in the 30
    \* seconds after a recovery restart made another one; the park that lasts
    \* is a failed recovery's and no recovery has succeeded since
    spent, looped, faulted

app     == <<current, parked, byFault>>
fence   == <<held, token, ack, failed, waits>>
worker  == <<at, job, restart, inFlight>>
boot    == <<booted, early, count, spent, looped>>
vars == <<app, fence, queue, sending, worker, running, boot, faulted>>

Callbacks == {"parkStop", "unparkEnter", "switchStop", "switchEnter",
              "recStop", "recover", "recEnter"}

FlagTypes ==
    /\ parked \in BOOLEAN /\ byFault \in BOOLEAN /\ inFlight \in BOOLEAN
    /\ held \in BOOLEAN /\ restart \in BOOLEAN
    /\ booted \in BOOLEAN /\ early \in BOOLEAN
    /\ spent \in BOOLEAN /\ looped \in BOOLEAN /\ faulted \in BOOLEAN

AppTypes ==
    /\ current \in App /\ running \in SUBSET App
    /\ at \in {"idle", "drain"} \cup Callbacks
    /\ count \in 0..LoopMax - 1

RequestTypes ==
    /\ token \in 0..MaxToken /\ ack \in 0..MaxToken /\ failed \in 0..MaxToken
    /\ waits \in 0..MaxToken
    /\ queue \in Seq(Request) /\ Len(queue) <= QueueSize
    /\ sending \in [Caller -> Request \cup {Nothing}]
    /\ job \in Request \cup {Nothing}

TypeOK == FlagTypes /\ AppTypes /\ RequestTypes

\* The memory of the program at boot: parked, nothing asked for.
Init ==
    /\ current = 0 /\ parked = TRUE /\ byFault = FALSE /\ running = {}
    /\ held = FALSE /\ token = 0 /\ ack = 0 /\ failed = 0 /\ waits = 0
    /\ queue = <<>> /\ sending = [c \in Caller |-> Nothing]
    /\ at = "idle" /\ job = Nothing /\ restart = FALSE /\ inFlight = FALSE
    /\ early = TRUE /\ spent = FALSE /\ faulted = FALSE
    /\ booted = FALSE /\ count = 0 /\ looped = FALSE

\* A restart: all but the recovery count is as at first.
Boots(recovering) ==
    /\ current' = 0 /\ parked' = TRUE /\ byFault' = FALSE /\ running' = {}
    /\ held' = FALSE /\ token' = 0 /\ ack' = 0 /\ failed' = 0 /\ waits' = 0
    /\ queue' = <<>> /\ sending' = [c \in Caller |-> Nothing]
    /\ at' = "idle" /\ job' = Nothing /\ restart' = FALSE
    /\ inFlight' = FALSE
    /\ early' = TRUE /\ spent' = FALSE /\ faulted' = FALSE
    /\ booted' = recovering

-----------------------------------------------------------------------------
\* The callers.  The transmit cancel they also send is no part of this state.

Free(c) == sending[c] = Nothing
Asks(c, r) ==
    /\ sending' = [sending EXCEPT ![c] = r]
    /\ UNCHANGED <<app, queue, worker, running, boot, faulted>>

\* app_switch_to
AskSwitch(c) ==
    \E a \in App :
        /\ Free(c) /\ "switch" \in Calls[c] /\ ~held
        /\ a # current \/ inFlight \/ parked
        /\ Asks(c, Switch(a)) /\ UNCHANGED fence

\* app_park
AskPark(c) ==
    /\ Free(c) /\ "park" \in Calls[c] /\ ~held /\ ~parked
    /\ Asks(c, Plain("park")) /\ UNCHANGED fence

\* app_unpark
AskUnpark(c) ==
    /\ Free(c) /\ "unpark" \in Calls[c] /\ ~held /\ parked
    /\ Asks(c, Plain("unpark")) /\ UNCHANGED fence

\* app_request_recover
AskRecover(c) ==
    /\ Free(c) /\ "recover" \in Calls[c] /\ ~held
    /\ Asks(c, Plain("recover")) /\ UNCHANGED fence

\* app_ui_park_request up to its send; the token never is zero.
AskFence ==
    /\ Free(Screen) /\ token < MaxToken
    /\ held' = TRUE /\ token' = token + 1
    /\ Asks(Screen, Fence(token + 1)) /\ UNCHANGED <<ack, failed, waits>>

\* xQueueSend does not wait: a full queue drops the request, and a fence
\* that was dropped has failed and has no token.
Send(c) ==
    /\ ~Free(c)
    /\ LET r == sending[c]
           fits == Len(queue) < QueueSize
       IN  /\ queue' = IF fits THEN Append(queue, r) ELSE queue
           /\ IF r.kind = "fence"
              THEN /\ waits' = IF fits THEN r.arg ELSE 0
                   /\ failed' = IF fits THEN failed ELSE r.arg
              ELSE UNCHANGED <<waits, failed>>
    /\ sending' = [sending EXCEPT ![c] = Nothing]
    /\ UNCHANGED <<app, held, token, ack, worker, running, boot, faulted>>

\* app_ui_park_release
ReleaseFence ==
    /\ Free(Screen) /\ held
    /\ held' = FALSE
    /\ UNCHANGED <<app, token, ack, failed, waits, queue, sending, worker, running,
                   boot, faulted>>

\* app_ui_park_status
Status(n) == IF n = 0 \/ n # token \/ n = failed THEN -1 ELSE IF n = ack THEN 1 ELSE 0

-----------------------------------------------------------------------------
\* The worker, app_switch_service: it takes one request and then all that
\* follow, the newest wins.  A fence gives way to a fence alone.

Take ==
    /\ at = "idle" /\ queue # <<>>
    /\ job' = Head(queue) /\ queue' = Tail(queue) /\ at' = "drain"
    /\ UNCHANGED <<app, fence, sending, restart, inFlight, running, boot,
                   faulted>>

\* Slip: a fence is coalesced like the rest (FenceAnswered).
Newest(old, new) == new

Wins(old, new) ==
    IF new.kind = "fence" \/ old.kind # "fence" THEN new ELSE old

Coalesce ==
    /\ at = "drain" /\ queue # <<>>
    /\ job' = Wins(job, Head(queue)) /\ queue' = Tail(queue)
    /\ UNCHANGED <<app, fence, sending, at, restart, inFlight, running, boot,
                   faulted>>

\* The worker goes on to a callback, or has nothing to do.
Drained == at = "drain" /\ queue = <<>>
GoesTo(place) ==
    /\ at' = place /\ inFlight' = (place \in Callbacks)
    /\ job' = IF place = "idle" THEN Nothing ELSE job
    /\ UNCHANGED <<queue, sending>>
Quits == GoesTo("idle") /\ restart' = FALSE

\* Slip: only the callers look at the fence (FenceHolds).
Unfenced(k) == job.kind = k

\* What is served: a fence always, the rest while there is no fence.
Serves(k) == job.kind = k /\ (k = "fence" \/ ~held)

\* The result of a fence carries its token.
Answer(stopped) ==
    IF job.kind # "fence" THEN UNCHANGED fence
    ELSE /\ ack' = IF stopped THEN job.arg ELSE ack
         /\ failed' = IF stopped THEN failed ELSE job.arg
         /\ UNCHANGED <<held, token, waits>>

\* A request that the fence holds is dropped.
DropHeld ==
    /\ Drained /\ held /\ job.kind # "fence"
    /\ Quits
    /\ UNCHANGED <<app, fence, running, boot, faulted>>

\* do_park, for a park and for a fence.
BeginPark ==
    /\ Drained /\ (Serves("park") \/ Serves("fence"))
    /\ IF parked THEN Quits /\ Answer(TRUE)
       ELSE GoesTo("parkStop") /\ UNCHANGED <<fence, restart>>
    /\ UNCHANGED <<app, running, boot, faulted>>

\* Slip: the app is taken for parked whatever its stop said (IdleAgrees).
EndParkAnyhow ==
    /\ at = "parkStop"
    /\ \E ok \in BOOLEAN :
        /\ running' = IF ok THEN running \ {current} ELSE running
        /\ parked' = TRUE /\ byFault' = FALSE
        /\ Answer(TRUE)
    /\ Quits
    /\ UNCHANGED <<current, boot, faulted>>

\* Slip: the fault of an earlier park is not forgotten (FaultTold).
EndParkFault ==
    /\ at = "parkStop"
    /\ \E ok \in BOOLEAN :
        /\ running' = IF ok THEN running \ {current} ELSE running
        /\ parked' = ok
        /\ Answer(ok)
    /\ Quits
    /\ UNCHANGED <<current, byFault, boot, faulted>>

EndPark ==
    /\ at = "parkStop"
    /\ \E ok \in BOOLEAN :
        /\ running' = IF ok THEN running \ {current} ELSE running
        /\ parked' = ok
        /\ byFault' = (byFault /\ ~ok)
        /\ Answer(ok)
    /\ Quits
    /\ UNCHANGED <<current, boot, faulted>>

\* do_unpark
BeginUnpark ==
    /\ Drained /\ Serves("unpark")
    /\ IF parked
       THEN /\ parked' = FALSE /\ byFault' = FALSE /\ faulted' = FALSE
            /\ running' = running \cup {current}
            /\ GoesTo("unparkEnter") /\ UNCHANGED restart
       ELSE Quits /\ UNCHANGED <<parked, byFault, running, faulted>>
    /\ UNCHANGED <<current, fence, boot>>

\* do_switch: to the current app only when it is parked.
Enters(a) ==
    /\ parked' = FALSE /\ current' = a /\ running' = running \cup {a}
    /\ faulted' = FALSE
    /\ GoesTo("switchEnter") /\ UNCHANGED <<byFault, restart>>

BeginSwitch ==
    /\ Drained /\ Serves("switch")
    /\ \/ /\ job.arg = current /\ ~parked
          /\ Quits /\ UNCHANGED <<app, running, faulted>>
       \/ parked /\ Enters(job.arg)
       \/ /\ job.arg # current /\ ~parked /\ GoesTo("switchStop")
          /\ UNCHANGED <<app, running, restart, faulted>>
    /\ UNCHANGED <<fence, boot>>

\* Slip: the next app is entered whatever the stop said (OneOwner).
EndSwitchStopAnyhow ==
    /\ at = "switchStop"
    /\ \E gone \in SUBSET {current} :
        /\ parked' = FALSE /\ current' = job.arg
        /\ running' = (running \ gone) \cup {job.arg}
    /\ GoesTo("switchEnter") /\ faulted' = FALSE
    /\ UNCHANGED <<byFault, restart, fence, boot>>

EndSwitchStop ==
    /\ at = "switchStop"
    /\ \/ /\ parked' = FALSE /\ current' = job.arg
          /\ running' = (running \ {current}) \cup {job.arg}
          /\ faulted' = FALSE
          /\ GoesTo("switchEnter") /\ UNCHANGED <<byFault, restart>>
       \/ Quits /\ UNCHANGED <<app, running, faulted>>
    /\ UNCHANGED <<fence, boot>>

\* on_enter returns, of an unpark, a switch or a recovery.
Entered ==
    /\ at \in {"unparkEnter", "switchEnter", "recEnter"}
    /\ byFault' = (byFault /\ at # "recEnter")
    /\ Quits
    /\ UNCHANGED <<current, parked, fence, running, boot, faulted>>

\* do_recover: of an endpoint that is not there, of one the current app
\* holds, of another.
BeginRecover ==
    /\ Drained /\ Serves("recover")
    /\ \/ Quits
       \/ /\ ~parked /\ restart' = TRUE /\ GoesTo("recStop")
       \/ restart' = FALSE /\ GoesTo("recover")
    /\ UNCHANGED <<app, fence, running, boot, faulted>>

EndRecoverStop ==
    /\ at = "recStop"
    /\ \/ /\ running' = running \ {current}
          /\ GoesTo("recover") /\ UNCHANGED restart
       \/ Quits /\ UNCHANGED running
    /\ UNCHANGED <<app, fence, boot, faulted>>

Recovered ==
    /\ at = "recover"
    /\ IF restart
       THEN /\ running' = running \cup {current}
            /\ GoesTo("recEnter") /\ UNCHANGED <<byFault, restart>>
       ELSE Quits /\ byFault' = FALSE /\ UNCHANGED running
    /\ faulted' = FALSE
    /\ UNCHANGED <<current, parked, fence, boot>>

\* Slip: a restart after a recovery counts from one again (LoopBroken).
CountAfresh == 1

\* recovery_remember: the failures in a row, each within 30 seconds of the
\* restart the one before had caused.
Counted == IF booted /\ early THEN count + 1 ELSE 1

\* A recovery that failed parks the app, unless it restarts the program.
StayParked ==
    /\ at = "recover"
    /\ IF restart
       THEN /\ \/ UNCHANGED count
               \/ Counted >= LoopMax /\ count' = 0
            /\ parked' = TRUE /\ byFault' = TRUE /\ faulted' = TRUE
            /\ spent' = TRUE
       ELSE UNCHANGED <<parked, byFault, faulted, count, spent>>
    /\ Quits
    /\ UNCHANGED <<current, fence, running, booted, early, looped>>

\* esp_restart, and app_recovery_take at the next boot.
Restart ==
    /\ at = "recover" /\ restart /\ Counted < LoopMax
    /\ count' = Counted
    /\ looped' = (booted /\ early /\ ~spent)
    /\ Boots(TRUE)

\* A reset the registry did not ask for.
Reset == Boots(FALSE) /\ UNCHANGED <<count, looped>>

\* The first 30 seconds pass.
Age ==
    /\ early /\ early' = FALSE
    /\ UNCHANGED <<app, fence, queue, sending, worker, running, booted, count,
                   spent, looped, faulted>>

-----------------------------------------------------------------------------
Ask(c) ==
    \/ AskSwitch(c) \/ AskPark(c) \/ AskUnpark(c) \/ AskRecover(c) \/ Send(c)

Serve == DropHeld \/ BeginPark \/ BeginUnpark \/ BeginSwitch \/ BeginRecover

Work ==
    \/ Take \/ Coalesce \/ Serve \/ EndPark \/ EndSwitchStop \/ Entered
    \/ EndRecoverStop \/ Recovered \/ StayParked \/ Restart

Next ==
    \/ \E c \in Caller : Ask(c)
    \/ AskFence \/ ReleaseFence
    \/ Work \/ Reset \/ Age

Spec == Init /\ [][Next]_vars

\* The worker and a caller that is about to send are scheduled, and the
\* apps' callbacks return: a stop that does not come about in time says no.
\* The worker gets to the end of the queue (strong fairness): a round of its
\* loop takes microseconds, and requests come from key presses and commands.
FairSpec ==
    /\ Spec /\ WF_vars(Work)
    /\ SF_vars(Serve) /\ SF_vars(Coalesce /\ queue' = <<>>)
    /\ \A c \in Caller : WF_vars(Send(c))

-----------------------------------------------------------------------------
\* Properties.

\* No second receiver app is entered while one has not stopped.
OneOwner == Cardinality(running) <= 1

\* Between requests parked and current tell the truth: nothing runs while
\* the registry says parked, and the current app runs while it does not.
IdleAgrees ==
    at \in {"idle", "drain"} => running = IF parked THEN {} ELSE {current}

\* A fence that was acknowledged holds until it is taken down: whatever was
\* sent before it, after it or while it went up, no app runs or is entered.
FenceHolds ==
    held /\ Status(token) = 1 =>
        parked /\ running = {} /\ at \in {"idle", "drain"}

\* While an app is parked the interface shows a fault exactly when this park is
\* a failed recovery's and no recovery, of whichever endpoint, has succeeded
\* since: no park by the user inherits the mark of an earlier fault, and none
\* of the switches, parks and recoveries in between wipes a true one out.
FaultTold == parked => (byFault <=> faulted)

\* A recovery restart is not followed by another for the first failure
\* after it.
LoopBroken == ~looped

\* Every fence the screen has a token of is answered, unless a newer one takes
\* its place: no request from a screen that went away coalesces it away, and
\* no late answer to an earlier fence hides its own.
FenceAnswered ==
    \A n \in 1..MaxToken : waits = n ~> waits # n \/ Status(n) # 0

\* A fence the screen waits for is in somebody's hands until it is answered:
\* the worker has it, or it is in the queue.
FenceInHand ==
    waits # 0 /\ Status(waits) = 0 =>
        \/ job = Fence(waits)
        \/ \E i \in 1..Len(queue) : queue[i] = Fence(waits)

\* Its answer stands until the screen asks for another one: no late end of an
\* earlier fence takes it back or turns it into its opposite.
AnswerStands ==
    [][waits # 0 /\ UNCHANGED <<waits, token>> /\ Status(waits) # 0
           => Status(waits)' = Status(waits)]_vars

-----------------------------------------------------------------------------
\* The inductive invariant.

\* What runs at each place of the worker.
Places ==
    /\ IdleAgrees
    /\ at \in Callbacks \ {"recover"} => ~parked /\ running = {current}
    /\ at = "recover" =>
           /\ restart => ~parked /\ running = {}
           /\ ~restart => running = IF parked THEN {} ELSE {current}
    /\ at = "recStop" => restart
    /\ at = "switchStop" => job.kind = "switch"

\* No request carries a token that has not been given out.
TokenBound(r) == r.kind = "fence" => r.arg <= token

Tokens ==
    /\ ack <= token
    /\ TokenBound(job)
    /\ \A c \in Caller : TokenBound(sending[c])
    /\ \A i \in 1..Len(queue) : TokenBound(queue[i])

\* The fence that is up was acknowledged.
FenceKept ==
    held /\ token # 0 /\ ack = token =>
        parked /\ at \in {"idle", "drain"}

\* A recovery restart leaves its count behind until a recovery fails.
LoopCounted ==
    LoopMax = 2 => ~looped /\ (booted /\ ~spent => count >= 1)

\* A fault is of the park that lasts.
FaultParked == faulted => parked

IInv == /\ TypeOK /\ Places /\ Tokens /\ FenceKept
        /\ FaultTold /\ FaultParked /\ LoopCounted
=============================================================================
