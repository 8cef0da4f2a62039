----------------------------- MODULE RtlAdapter -----------------------------
(***************************************************************************)
(* The life of an RTL-SDR dongle, radio/rtlsdr_dev.c over radio/usb_host.c *)
(* and the endpoint registry: a dongle that comes onto the bus is opened,  *)
(* registered and published by a setup task; the USB client task, when the *)
(* dongle goes, and a console command or a port reset, whenever they like, *)
(* claim the published device, unregister its endpoint, close and free it. *)
(*                                                                         *)
(* The registry is EndpointLease, which RadioEndpoint implements: what an  *)
(* adapter relies on is what EndpointLease promises, no more.  Every task  *)
(* moves from one critical section or blocking call to the next.           *)
(*                                                                         *)
(* A definition marked "Slip" is not part of the model: it is the one      *)
(* below it with a mistake a change of the code could make, and the        *)
(* property named after it is the one that catches the mistake.            *)
(***************************************************************************)
EXTENDS Integers, Sequences

CONSTANTS
    App,                    \* the tasks that call the endpoint registry
    client, console, setup, \* the USB client, whoever detaches, the setup
    MaxPlugs,   \* bound on the dongles that are plugged in
    MaxDetach,  \* bound on the detaches that are asked for
    MaxOther,   \* bound on the other USB devices that go
    Attempts    \* how often a setup tries to register; 200 in the code

ASSUME TasksAssumption ==
    client # console /\ client # setup /\ console # setup
ASSUME BoundsAssumption ==
    /\ MaxPlugs \in Nat /\ MaxDetach \in Nat /\ MaxOther \in Nat
    /\ Attempts \in Nat \ {0}

Remover == {client, console}
Tasks   == Remover \cup {setup}
Dongle  == 1..MaxPlugs
None    == 0

VARIABLES
    plugged, plugs, events, \* the bus: the dongle on it, how many there
                            \* have been, what the client is to be told
    object,  \* the device object of a dongle: none, live, freed, or twice
    sdev, setupOn, cleanupOn,      \* s_dev, s_setup_active, s_cleanup_active
    pending, pendingGen,           \* s_probe_addr or None, s_probe_generation
    gen,                           \* s_remove_generation
    at, dev,                       \* each task: where it is, its device
    setupGen, registered, tries,   \* the setup task's own
    late,    \* the dongles a finished setup task is about to probe for
    phase, lease, users, guests,   \* the endpoint, see EndpointLease
    ctx,     \* the endpoint's driver_ctx
    \* ghosts: the dongle whose probe is still to be served; an older probe has
    \* taken the place of one that waited; an unregister was refused and the
    \* device freed all the same; detaches, others gone
    wanted, overtaken, ignored, detaches, others

bus     == <<plugged, plugs, events>>
life    == <<sdev, setupOn, cleanupOn, pending, pendingGen, gen>>
mine    == <<setupGen, registered, tries>>
slot    == <<phase, lease, users, guests, ctx>>
tally   == <<overtaken, detaches, others>>
vars == <<bus, object, life, at, dev, mine, late, slot, wanted, ignored, tally>>

E == INSTANCE EndpointLease WITH Task <- App

TypeOK ==
    /\ plugged \in Dongle \cup {None} /\ plugs \in 0..MaxPlugs
    /\ events \in Seq([kind : {"new", "gone", "other"}, dev : Dongle \cup {None}])
    /\ object \in [Dongle -> {"none", "live", "freed", "twice"}]
    /\ sdev \in Dongle \cup {None}
    /\ setupOn \in BOOLEAN /\ cleanupOn \in BOOLEAN
    /\ pending \in Dongle \cup {None} /\ pendingGen \in 0..gen
    /\ gen \in Nat
    /\ at \in [Tasks -> {"idle", "probe", "open", "check", "register",
                         "publish", "unregister", "wait", "close", "finish"}]
    /\ dev \in [Tasks -> Dongle \cup {None}]
    /\ setupGen \in 0..gen /\ registered \in BOOLEAN /\ tries \in 0..Attempts
    /\ late \in SUBSET Dongle
    /\ E!LeaseTypeOK /\ ctx \in Dongle \cup {None}
    /\ wanted \in Dongle \cup {None} /\ overtaken \in BOOLEAN /\ ignored \in BOOLEAN
    /\ detaches \in 0..MaxDetach /\ others \in 0..MaxOther

Init ==
    /\ plugged = None /\ plugs = 0 /\ events = <<>>
    /\ object = [d \in Dongle |-> "none"]
    /\ sdev = None /\ setupOn = FALSE /\ cleanupOn = FALSE
    /\ pending = None /\ pendingGen = 0 /\ gen = 0
    /\ at = [t \in Tasks |-> "idle"] /\ dev = [t \in Tasks |-> None]
    /\ setupGen = 0 /\ registered = FALSE /\ tries = 0
    /\ late = {}
    /\ E!LeaseInit /\ ctx = None
    /\ wanted = None /\ overtaken = FALSE /\ ignored = FALSE /\ detaches = 0 /\ others = 0

Goto(t, place) == at' = [at EXCEPT ![t] = place]

-----------------------------------------------------------------------------
\* The bus.  The host tells the client of a dongle that goes only if the
\* client has it open.

Tell(kind, d) == events' = Append(events, [kind |-> kind, dev |-> d])

Plug ==
    /\ plugged = None /\ plugs < MaxPlugs
    /\ plugs' = plugs + 1 /\ plugged' = plugs + 1
    /\ Tell("new", plugs + 1)
    /\ UNCHANGED <<object, life, at, dev, mine, late, slot, wanted, ignored,
                   tally>>

Unplug ==
    /\ plugged # None
    /\ plugged' = None
    /\ IF object[plugged] = "live" THEN Tell("gone", plugged)
       ELSE UNCHANGED events
    /\ UNCHANGED <<plugs, object, life, at, dev, mine, late, slot, wanted,
                   ignored, tally>>

\* A device of another kind that shares the client goes.
OtherGone ==
    /\ others < MaxOther /\ others' = others + 1
    /\ Tell("other", None)
    /\ UNCHANGED <<plugged, plugs, object, life, at, dev, mine, late, slot,
                   wanted, overtaken, ignored, detaches>>

-----------------------------------------------------------------------------
\* The removals.  The USB client task handles one event after another.

\* Slip: the published device is read, not claimed (FreedOnce).
ClaimsLater(t, d) ==
    /\ gen' = gen + 1 /\ wanted' = None
    /\ IF d = None
       THEN UNCHANGED <<sdev, cleanupOn, at, dev>>
       ELSE /\ sdev' = sdev /\ cleanupOn' = TRUE
            /\ Goto(t, "unregister") /\ dev' = [dev EXCEPT ![t] = d]

\* The first critical section of a removal of d, None for nothing to remove.
Claims(t, d) ==
    /\ gen' = gen + 1 /\ wanted' = None
    /\ IF d = None
       THEN UNCHANGED <<sdev, cleanupOn, at, dev>>
       ELSE /\ sdev' = None /\ cleanupOn' = TRUE
            /\ Goto(t, "unregister") /\ dev' = [dev EXCEPT ![t] = d]

\* rtl_adapter_note_removed, for the dongle or for another device
HandleGone ==
    /\ at[client] = "idle" /\ events # <<>> /\ Head(events).kind # "new"
    /\ events' = Tail(events)
    /\ Claims(client, IF Head(events).dev = sdev THEN sdev ELSE None)
    /\ UNCHANGED <<plugged, plugs, object, setupOn, pending, pendingGen, mine,
                   late, slot, ignored, tally>>

\* action_probe_dev: a dongle that went in the meantime does not open.
HandleNew ==
    /\ at[client] = "idle" /\ events # <<>> /\ Head(events).kind = "new"
    /\ events' = Tail(events)
    /\ LET d == Head(events).dev
       IN  IF plugged = d
           THEN /\ Goto(client, "probe") /\ dev' = [dev EXCEPT ![client] = d]
                /\ wanted' = d
           ELSE UNCHANGED <<at, dev, wanted>>
    /\ UNCHANGED <<plugged, plugs, object, life, mine, late, slot, ignored,
                   tally>>

\* rtlsdr_dev_teardown
Detach ==
    /\ at[console] = "idle" /\ detaches < MaxDetach
    /\ detaches' = detaches + 1
    /\ Claims(console, sdev)
    /\ UNCHANGED <<bus, object, setupOn, pending, pendingGen, mine, late, slot,
                   overtaken, ignored, others>>

\* Slip: nothing to unregister once s_dev is cleared (NotDangling).
UnregisterPublished(t) ==
    /\ at[t] = "unregister"
    /\ \/ /\ sdev # None /\ E!BeginDetach /\ Goto(t, "wait")
          /\ UNCHANGED ignored
       \/ /\ sdev = None /\ Goto(t, "close")
          /\ UNCHANGED <<phase, lease, users, guests, ignored>>
    /\ UNCHANGED <<bus, object, life, dev, mine, late, ctx, wanted, tally>>

\* rtl_unregister_endpoint, which looks at no result: it goes on when the
\* registry says busy.
Unregister(t) ==
    /\ at[t] = "unregister"
    /\ \/ /\ E!BeginDetach /\ Goto(t, "wait")
          /\ UNCHANGED ignored
       \/ /\ phase # "present" /\ Goto(t, "close")
          /\ ignored' = (ignored \/ phase = "recovering")
          /\ UNCHANGED <<phase, lease, users, guests>>
    /\ UNCHANGED <<bus, object, life, dev, mine, late, ctx, wanted, tally>>

Unregistered(t) ==
    /\ at[t] = "wait"
    /\ E!EndDetach /\ ctx' = None
    /\ Goto(t, "close")
    /\ UNCHANGED <<bus, object, life, dev, mine, late, wanted, ignored, tally>>

\* rtlsdr_close
Close(t) ==
    /\ at[t] = "close"
    /\ object' = [object EXCEPT ![dev[t]] = IF @ = "live" THEN "freed" ELSE "twice"]
    /\ Goto(t, "finish")
    /\ UNCHANGED <<bus, life, dev, mine, late, slot, wanted, ignored, tally>>

\* Slip: a probe that waited for a removal is not made (ProbeServed).
ForgetsProbe(on) == FALSE

\* finish_lifecycle: the probe that waited is made if nothing went since.
Probes(on) ==
    /\ ~on /\ sdev = None
    /\ pending # None /\ pendingGen = gen

\* The part of finish_lifecycle both kinds of task share; on: whether the
\* other kind is at work.
Finishes(on) ==
    /\ pending' = IF Probes(on) \/ pendingGen # gen THEN None ELSE pending
    /\ UNCHANGED <<sdev, pendingGen, gen>>

Finish(t) ==
    /\ t # setup /\ at[t] = "finish"
    /\ cleanupOn' = FALSE /\ UNCHANGED setupOn
    /\ Finishes(setupOn)
    /\ IF Probes(setupOn)
       THEN Goto(t, "probe") /\ dev' = [dev EXCEPT ![t] = pending]
       ELSE Goto(t, "idle") /\ UNCHANGED dev
    /\ UNCHANGED <<bus, object, mine, late, slot, wanted, ignored, tally>>

-----------------------------------------------------------------------------
\* rtl_adapter_probe_async, by the client, by a removal that is done and by
\* a setup task on its way out.

\* A ghost's: the probe that waits is still good, and newer than d.
Overtakes(d) == pendingGen = gen /\ d < pending

\* Slip (ProbeKept): the probe that waits keeps an old stamp.
StartsUnstamped(d) ==
    IF setupOn \/ cleanupOn
    THEN /\ pending' = d
         /\ overtaken' = (overtaken \/ Overtakes(d))
         /\ UNCHANGED <<pendingGen, setupOn, setupGen, tries, registered>>
    ELSE /\ UNCHANGED <<pending, pendingGen, overtaken>>
         /\ IF sdev # None
            THEN UNCHANGED <<setupOn, setupGen, tries, registered>>
            ELSE /\ setupOn' = TRUE /\ setupGen' = gen /\ tries' = 0
                 /\ registered' = FALSE

StartsSetup(d) ==
    IF setupOn \/ cleanupOn
    THEN /\ pending' = d /\ pendingGen' = gen
         /\ overtaken' = (overtaken \/ Overtakes(d))
         /\ UNCHANGED <<setupOn, setupGen, tries, registered>>
    ELSE /\ UNCHANGED <<pending, pendingGen, overtaken>>
         /\ IF sdev # None
            THEN UNCHANGED <<setupOn, setupGen, tries, registered>>
            ELSE /\ setupOn' = TRUE /\ setupGen' = gen /\ tries' = 0
                 /\ registered' = FALSE

Starts == ~setupOn /\ ~cleanupOn /\ sdev = None

Probe(t) ==
    /\ at[t] = "probe"
    /\ StartsSetup(dev[t])
    /\ at' = [x \in Tasks |-> IF x = t THEN "idle"
                              ELSE IF x = setup /\ Starts THEN "open" ELSE at[x]]
    /\ dev' = [dev EXCEPT ![setup] = IF Starts THEN dev[t] ELSE @]
    /\ UNCHANGED <<bus, object, sdev, cleanupOn, gen, late, slot, wanted,
                   ignored, detaches, others>>

ProbeLate ==
    \E d \in late :
        /\ late' = late \ {d}
        /\ StartsSetup(d)
        /\ at' = [at EXCEPT ![setup] = IF Starts THEN "open" ELSE @]
        /\ dev' = [dev EXCEPT ![setup] = IF Starts THEN d ELSE @]
        /\ UNCHANGED <<bus, object, sdev, cleanupOn, gen, slot, wanted,
                       ignored, detaches, others>>

\* A setup that fails has served its probe.
Served(d) == wanted' = IF wanted = d THEN None ELSE wanted

\* There is no memory for the setup's argument.
NoMemory ==
    /\ \/ \E t \in Remover :
             /\ at[t] = "probe" /\ Goto(t, "idle") /\ Served(dev[t])
             /\ UNCHANGED late
       \/ \E d \in late :
             /\ late' = late \ {d} /\ Served(d) /\ UNCHANGED at
    /\ UNCHANGED <<bus, object, life, dev, mine, slot, ignored, tally>>

-----------------------------------------------------------------------------
\* rtlsdr_setup_task

\* The task is not created, for want of memory, or the dongle is not opened.
SetupFails ==
    /\ at[setup] = "open"
    /\ Goto(setup, "finish") /\ Served(dev[setup])
    /\ UNCHANGED <<bus, object, life, dev, mine, late, slot, ignored, tally>>

Open ==
    /\ at[setup] = "open"
    /\ plugged = dev[setup] /\ object[plugged] # "live"
    /\ object' = [object EXCEPT ![plugged] = "live"]
    /\ Goto(setup, "check")
    /\ UNCHANGED <<bus, life, dev, mine, late, slot, wanted, ignored, tally>>

\* The top of the loop: a removal since the probe cancels the setup.
CheckCancelled ==
    /\ at[setup] = "check"
    /\ Goto(setup, IF setupGen # gen \/ tries = Attempts THEN "publish"
                   ELSE "register")
    /\ UNCHANGED <<bus, object, life, dev, mine, late, slot, wanted, ignored,
                   tally>>

\* The slot takes the device, is another's, or is still being given back.
RegisterEndpoint ==
    /\ at[setup] = "register"
    /\ \/ /\ E!Attach /\ ctx' = dev[setup]
          /\ registered' = TRUE /\ Goto(setup, "publish")
          /\ UNCHANGED <<tries, wanted>>
       \/ /\ phase \in {"present", "recovering"}
          /\ Goto(setup, "publish") /\ Served(dev[setup])
          /\ UNCHANGED <<slot, registered, tries>>
       \/ /\ phase = "removing" \/ (phase = "absent" /\ lease # "free")
          /\ tries' = tries + 1 /\ Goto(setup, "check")
          /\ IF tries' = Attempts THEN Served(dev[setup])
             ELSE UNCHANGED wanted
          /\ UNCHANGED <<slot, registered>>
    /\ UNCHANGED <<bus, object, life, dev, setupGen, late, ignored, tally>>

\* Slip: what has been registered is published (NotStale).
PublishAnyhow ==
    /\ at[setup] = "publish"
    /\ IF registered
       THEN /\ sdev' = dev[setup] /\ Served(dev[setup])
            /\ Goto(setup, "finish")
       ELSE /\ Goto(setup, "close")
            /\ UNCHANGED <<sdev, wanted>>
    /\ UNCHANGED <<bus, object, setupOn, cleanupOn, pending, pendingGen, gen,
                   dev, mine, late, slot, ignored, tally>>

Publish ==
    /\ at[setup] = "publish"
    /\ IF registered /\ setupGen = gen
       THEN /\ sdev' = dev[setup] /\ Served(dev[setup])
            /\ Goto(setup, "finish")
       ELSE /\ Goto(setup, IF registered THEN "unregister" ELSE "close")
            /\ UNCHANGED <<sdev, wanted>>
    /\ UNCHANGED <<bus, object, setupOn, cleanupOn, pending, pendingGen, gen,
                   dev, mine, late, slot, ignored, tally>>

FinishSetup ==
    /\ at[setup] = "finish"
    /\ setupOn' = FALSE /\ UNCHANGED cleanupOn
    /\ Finishes(cleanupOn)
    /\ late' = IF Probes(cleanupOn) THEN late \cup {pending} ELSE late
    /\ Goto(setup, "idle")
    /\ UNCHANGED <<bus, object, dev, mine, slot, wanted, ignored, tally>>

-----------------------------------------------------------------------------
\* The other tasks, through the endpoint registry.
Leases ==
    /\ \/ E!Lease \/ E!EndClose \/ E!BeginRecovery
       \/ \E a \in App : E!Close(a) \/ E!UserEnter(a) \/ E!GuestEnter(a)
    /\ UNCHANGED <<bus, object, life, at, dev, mine, late, ctx, wanted, ignored,
                   tally>>

\* Driver calls return.
DriverReturns ==
    /\ \/ E!EndRecovery
       \/ \E a \in App : E!Exit(a)
    /\ UNCHANGED <<bus, object, life, at, dev, mine, late, ctx, wanted, ignored,
                   tally>>

Removes(t) ==
    Unregister(t) \/ Unregistered(t) \/ Close(t) \/ Finish(t) \/ Probe(t)

Client == HandleGone \/ HandleNew \/ Removes(client)

SetUp ==
    \/ SetupFails \/ Open \/ CheckCancelled \/ RegisterEndpoint \/ Publish
    \/ Unregister(setup) \/ Unregistered(setup) \/ Close(setup) \/ FinishSetup

Next ==
    \/ Plug \/ Unplug \/ OtherGone \/ Detach
    \/ Client \/ Removes(console) \/ SetUp \/ ProbeLate \/ NoMemory
    \/ Leases \/ DriverReturns

Spec == Init /\ [][Next]_vars

\* The tasks are scheduled and the driver's calls return: cancel_read and the
\* USB timeouts see to that.
FairSpec ==
    /\ Spec
    /\ WF_vars(Client) /\ WF_vars(Removes(console))
    /\ WF_vars(SetUp) /\ WF_vars(ProbeLate) /\ WF_vars(DriverReturns)

-----------------------------------------------------------------------------
\* Properties.

\* Whoever claims a device closes it, and no one else does: a port reset, a
\* console detach and an unplug at once free it once.
FreedOnce == \A d \in Dongle : object[d] # "twice"

\* An endpoint the registry has, present or on its way out, has a device
\* that is not freed -- as long as no unregister was refused.
Dangling == phase # "absent" /\ object[ctx] # "live"
NotDangling == ~ignored => ~Dangling

\* A published device is on the bus, or the client is about to hear that it
\* went: no removal during a setup is lost.
NotStale ==
    sdev # None /\ sdev # plugged =>
        \E i \in DOMAIN events : events[i] = [kind |-> "gone", dev |-> sdev]

\* The probe of the dongle that came last is in somebody's hands, whatever
\* setup or removal was going on when it came: a task is about to make it, it
\* waits for one that will, or its setup is on and not cancelled -- as long as
\* no older probe took the place of a newer one that waited.
InHand(d) ==
    \/ d \in late \/ \E t \in Remover : at[t] = "probe" /\ dev[t] = d
    \/ pending = d /\ pendingGen = gen /\ (setupOn \/ cleanupOn)
    \/ /\ at[setup] \in {"open", "check", "register", "publish"}
       /\ dev[setup] = d /\ setupGen = gen
ProbeKept == wanted # None /\ ~overtaken => InHand(wanted)

\* So it is served in the end: the dongle is published or its setup failed,
\* unless a removal came after it.
ProbeServed == \A d \in Dongle : wanted = d ~> wanted # d \/ overtaken

\* The comment states it without the exception (rtlsdr_dev.c:41): the probe
\* that is kept is the latest.  The code does not keep to it (README, 3.4).
LatestKept == ~overtaken

\* What the comments say of the endpoint: a detach gives the driver's context
\* back only when every operation has left, so no device is freed under one.
NeverDangling == ~Dangling
=============================================================================
