-------------------------- MODULE RtlAdapterProofs --------------------------
(***************************************************************************)
(* Proofs about RtlAdapter, for any number of dongles, detaches, other     *)
(* devices, attempts and tasks at the registry: a device is freed once,    *)
(* never under its endpoint unless an unregister was refused, and no       *)
(* removal is missed, which follows from who owns a device that is live.   *)
(* The probe of the newest dongle is kept, which follows from the order in *)
(* which the bus tells of dongles that come and go.                        *)
(***************************************************************************)
EXTENDS RtlAdapter, TLAPS

Places == {"idle", "probe", "open", "check", "register",
           "publish", "unregister", "wait", "close", "finish"}
Event == [kind : {"new", "gone", "other"}, dev : Dongle \cup {None}]

\* What each variable may be, as far as the rest needs it.
Flags ==
    /\ setupOn \in BOOLEAN /\ cleanupOn \in BOOLEAN
    /\ registered \in BOOLEAN /\ ignored \in BOOLEAN
Values ==
    /\ plugged \in Dongle \cup {None} /\ plugs \in 0..MaxPlugs
    /\ events \in Seq(Event)
    /\ \A i \in DOMAIN events : events[i].kind = "new" => events[i].dev \in Dongle
    /\ object \in [Dongle -> {"none", "live", "freed", "twice"}]
    /\ sdev \in Dongle \cup {None}
    /\ pending \in Dongle \cup {None} /\ late \in SUBSET Dongle
    /\ at \in [Tasks -> Places]
    /\ dev \in [Tasks -> Dongle \cup {None}]
    /\ gen \in Nat /\ setupGen \in 0..gen
    /\ phase \in {"absent", "present", "recovering", "removing"}

\* The places of the setup task alone, and of the tasks that have a device in
\* their hands.
SettingUp == {"open", "check", "register", "publish"}
Holding == {"check", "register", "publish", "unregister", "wait", "close"}
Holds(t) == at[t] \in Holding

\* A task finds its device where it looks for it.
Roles ==
    /\ \A t \in Tasks : at[t] \in SettingUp => t = setup
    /\ at[setup] # "probe"
    /\ \A t \in Tasks : at[t] \in {"open", "probe"} => dev[t] \in Dongle
    /\ setupOn <=> at[setup] # "idle"
    /\ at[setup] \notin {"idle", "finish"} => sdev = None
    /\ at[setup] \in {"open", "check", "register"} => ~registered

\* Each live device is published or in the hands of one task.
Owned ==
    /\ sdev # None => object[sdev] = "live"
    /\ \A t \in Tasks : Holds(t) =>
          dev[t] \in Dongle /\ dev[t] # sdev /\ object[dev[t]] = "live"
    /\ \A t, u \in Tasks : Holds(t) /\ Holds(u) /\ dev[t] = dev[u] => t = u
    /\ \A d \in Dongle : object[d] # "twice"

\* Who answers for the endpoint: the published device, or the task that has
\* registered it or is about to take it back.
Answers(t) ==
    \/ at[t] \in {"unregister", "wait"}
    \/ t = setup /\ at[t] = "publish" /\ registered
Endpoint ==
    /\ sdev # None => phase \in {"present", "recovering"} /\ ctx = sdev
    /\ \A t \in Tasks : Answers(t) =>
          /\ ctx = dev[t]
          /\ IF at[t] = "wait" THEN phase = "removing"
                               ELSE phase \in {"present", "recovering"}
    /\ phase # "absent" =>
          sdev # None \/ \E t \in Tasks : Answers(t)

\* The client is to be told that d has gone.
Told(d) == \E i \in DOMAIN events : events[i] = [kind |-> "gone", dev |-> d]
Here(d) == d = plugged \/ Told(d)
Fresh ==
    /\ sdev # None => Here(sdev)
    /\ at[setup] \in {"check", "register", "publish"} /\ setupGen = gen
          => Here(dev[setup])

\* What is left of the types: a setup that is about to register has an attempt
\* left to do it with.
Counts ==
    /\ pendingGen \in 0..gen /\ tries \in 0..Attempts
    /\ at[setup] = "register" => tries # Attempts
    /\ E!LeaseTypeOK /\ ctx \in Dongle \cup {None} /\ wanted \in Dongle \cup {None}
    /\ detaches \in 0..MaxDetach /\ others \in 0..MaxOther /\ overtaken \in BOOLEAN

\* The dongles that have been told of: what is published, wanted, waits or is
\* in a task's hands; and those an event still tells of.
Met == {pending, sdev, wanted} \cup late \cup {dev[t] : t \in Tasks}
Of(i) == events[i].kind # "other"
New(i) == events[i].kind = "new"

\* Dongles have numbers in the order they came, and the bus tells in order.
Order ==
    /\ plugged \in {None, plugs}
    /\ \A m \in Met : m <= plugs
    /\ \A i \in DOMAIN events : Of(i) => wanted <= events[i].dev /\ events[i].dev <= plugs
    /\ \A i \in DOMAIN events : New(i) => \A m \in Met : m < events[i].dev
    /\ \A i, j \in DOMAIN events : i < j /\ Of(i) /\ Of(j) =>
          /\ events[i].dev <= events[j].dev
          /\ New(j) => events[i].dev < events[j].dev
    /\ wanted # None => \A m \in Met : m <= wanted

\* A dongle that is wanted is not published, and its setup has not failed.
Unserved ==
    /\ at[setup] = "open" => tries = 0
    /\ wanted # None => sdev = None
    /\ wanted # None /\ wanted = dev[setup] /\ setupGen = gen =>
          /\ at[setup] = "publish" => registered
          /\ at[setup] = "check" => tries # Attempts

Inv == Flags /\ Values /\ Roles /\ Owned
Full == Inv /\ (~ignored => Endpoint) /\ Fresh

-----------------------------------------------------------------------------
LEMMA NoDongle == None \notin Dongle
BY BoundsAssumption DEF None, Dongle

LEMMA TasksAre ==
    /\ client \in Tasks /\ console \in Tasks /\ setup \in Tasks
    /\ client # setup /\ console # setup /\ client # console
    /\ Remover \subseteq Tasks /\ setup \notin Remover
    /\ \A t \in Tasks : t = client \/ t = console \/ t = setup
BY TasksAssumption DEF Tasks, Remover

LEMMA InitInv == Init => Full
<1> SUFFICES ASSUME Init PROVE Full
  OBVIOUS
<1> USE DEF Init
<1>1. Flags
  BY Zenon DEF Flags
<1>2. Values
  BY BoundsAssumption DEF Values, Places, E!LeaseInit
<1>3. Roles
  BY TasksAre DEF Roles, SettingUp
<1>4. Owned
  BY NoDongle, TasksAre DEF Owned, Holds, Holding
<1>5. Endpoint
  BY NoDongle, TasksAre DEF Endpoint, Answers, E!LeaseInit
<1>6. Fresh
  BY NoDongle, TasksAre DEF Fresh
<1> QED
  BY <1>1, <1>2, <1>3, <1>4, <1>5, <1>6 DEF Full, Inv

\* The devices that are published or being set up are live.
LEMMA Hands ==
    ASSUME Inv
    PROVE  /\ sdev # None => sdev \in Dongle /\ object[sdev] = "live"
           /\ at[setup] \in {"check", "register", "publish"} =>
                 dev[setup] \in Dongle /\ object[dev[setup]] = "live"
BY TasksAre DEF Inv, Values, Owned, Holds, Holding

-----------------------------------------------------------------------------
(* The bus *)

LEMMA Appended ==
    ASSUME Values, NEW e \in Event, e.kind = "new" => e.dev \in Dongle,
           events' = Append(events, e)
    PROVE  /\ events' \in Seq(Event)
           /\ \A i \in DOMAIN events' :
                 events'[i].kind = "new" => events'[i].dev \in Dongle
           /\ \A d : Told(d) => Told(d)'
           /\ \A d : e = [kind |-> "gone", dev |-> d] => Told(d)'
<1>1. events \in Seq(Event)
  BY DEF Values
<1>2. /\ events' \in Seq(Event) /\ DOMAIN events' = 1..Len(events) + 1
      /\ DOMAIN events = 1..Len(events) /\ Len(events) \in Nat
      /\ \A i \in DOMAIN events : events'[i] = events[i]
      /\ events'[Len(events) + 1] = e
  BY <1>1
<1> QED  BY <1>2 DEF Values, Told

LEMMA Taken ==
    ASSUME Values, events # <<>>, events' = Tail(events)
    PROVE  /\ events' \in Seq(Event)
           /\ \A i \in DOMAIN events' :
                 events'[i].kind = "new" => events'[i].dev \in Dongle
           /\ Head(events) \in Event
           /\ Head(events).kind = "new" => Head(events).dev \in Dongle
           /\ \A d : Told(d) => Told(d)' \/ Head(events) = [kind |-> "gone", dev |-> d]
<1>1. events \in Seq(Event)
  BY DEF Values
<1>2. /\ events' \in Seq(Event) /\ DOMAIN events' = 1..Len(events) - 1
      /\ DOMAIN events = 1..Len(events) /\ Len(events) \in Nat \ {0}
      /\ \A i \in DOMAIN events' : events'[i] = events[i + 1]
      /\ Head(events) = events[1] /\ Head(events) \in Event
  BY <1>1
<1>3. ASSUME NEW d, Told(d)
      PROVE  Told(d)' \/ Head(events) = [kind |-> "gone", dev |-> d]
  <2>1. PICK i \in 1..Len(events) : events[i] = [kind |-> "gone", dev |-> d]
    BY <1>2, <1>3 DEF Told
  <2>2. CASE i = 1
    BY <1>2, <2>1, <2>2
  <2>3. CASE i # 1
    <3>1. i - 1 \in DOMAIN events' /\ events'[i - 1] = events[i]
      BY <1>2, <2>3
    <3> QED  BY <2>1, <3>1 DEF Told
  <2> QED  BY <2>2, <2>3
<1>4. \A i \in DOMAIN events' : i + 1 \in DOMAIN events
  BY <1>2
<1> QED  BY <1>2, <1>3, <1>4 DEF Values

\* What is not of the bus, and what the bus tells.
Aside == <<object, life, at, dev, mine, late, phase, ctx, ignored>>

LEMMA AsideInv ==
    ASSUME Full, UNCHANGED Aside, plugged' \in Dongle \cup {None},
           plugs' \in 0..MaxPlugs, events' \in Seq(Event),
           \A i \in DOMAIN events' :
              events'[i].kind = "new" => events'[i].dev \in Dongle
    PROVE  Inv' /\ (~ignored => Endpoint)'
<1> USE DEF Full, Inv, Aside, life, mine
<1>1. Flags'
  BY DEF Flags
<1>2. Values'
  BY DEF Values
<1>3. Roles'
  BY DEF Roles
<1>4. Owned'
  BY DEF Owned, Holds
<1>5. (~ignored => Endpoint)'
  BY DEF Endpoint, Answers
<1> QED  BY <1>1, <1>2, <1>3, <1>4, <1>5

LEMMA BusInv == ASSUME Full, Plug \/ Unplug \/ OtherGone PROVE Full'
<1> USE DEF Tell, tally, slot
<1>1. CASE Plug
  <2>1. plugs + 1 \in Dongle
    BY <1>1, BoundsAssumption DEF Plug, Full, Inv, Values, Dongle
  <2> DEFINE e == [kind |-> "new", dev |-> plugs + 1]
  <2>2. e \in Event /\ events' = Append(events, e)
    BY <1>1, <2>1 DEF Plug, Event
  <2>3. /\ events' \in Seq(Event)
        /\ \A i \in DOMAIN events' :
              events'[i].kind = "new" => events'[i].dev \in Dongle
        /\ \A d : Told(d) => Told(d)'
    BY <2>1, <2>2, Appended DEF Full, Inv
  <2>4. UNCHANGED Aside /\ plugged' = plugs + 1 /\ plugs' = plugs + 1 /\ plugged = None
    BY <1>1 DEF Plug, Aside
  <2>5. plugs' \in 0..MaxPlugs
    BY <2>1, <2>4, BoundsAssumption DEF Dongle
  <2>6. Inv' /\ (~ignored => Endpoint)'
    BY <2>1, <2>3, <2>4, <2>5, AsideInv
  <2>7. \A d \in Dongle : Here(d) => Here(d)'
    BY <2>3, <2>4, NoDongle DEF Here
  <2>8. Fresh'
    BY <2>4, <2>7, Hands DEF Full, Fresh, Aside, life, mine
  <2> QED  BY <2>6, <2>8 DEF Full
<1>2. CASE Unplug
  <2>1. UNCHANGED Aside /\ plugged # None /\ plugged' = None /\ plugs' = plugs
    BY <1>2 DEF Unplug, Aside
  <2>2. /\ events' \in Seq(Event)
        /\ \A i \in DOMAIN events' :
              events'[i].kind = "new" => events'[i].dev \in Dongle
        /\ \A d : Told(d) => Told(d)'
        /\ \A d : d = plugged /\ object[d] = "live" => Told(d)'
    <3>1. CASE object[plugged] = "live"
      <4> DEFINE e == [kind |-> "gone", dev |-> plugged]
      <4>1. e \in Event /\ events' = Append(events, e) /\ e.kind # "new"
        BY <1>2, <3>1, <2>1 DEF Unplug, Event, Full, Inv, Values
      <4>2. /\ events' \in Seq(Event)
            /\ \A i \in DOMAIN events' :
                  events'[i].kind = "new" => events'[i].dev \in Dongle
            /\ \A d : Told(d) => Told(d)'
            /\ \A d : e = [kind |-> "gone", dev |-> d] => Told(d)'
        BY <4>1, Appended DEF Full, Inv
      <4> QED  BY <4>2
    <3>2. CASE object[plugged] # "live"
      BY <1>2, <3>2 DEF Unplug, Full, Inv, Values, Told
    <3> QED  BY <3>1, <3>2
  <2>3. Inv' /\ (~ignored => Endpoint)'
    BY <2>1, <2>2, AsideInv DEF Full, Inv, Values
  <2>4. \A d \in Dongle : object[d] = "live" /\ Here(d) => Here(d)'
    BY <2>1, <2>2 DEF Here
  <2>5. Fresh'
    BY <2>1, <2>4, Hands DEF Full, Fresh, Aside, life, mine
  <2> QED  BY <2>3, <2>5 DEF Full
<1>3. CASE OtherGone
  <2> DEFINE e == [kind |-> "other", dev |-> None]
  <2>1. e \in Event /\ events' = Append(events, e) /\ e.kind # "new"
    BY <1>3 DEF OtherGone, Event
  <2>2. /\ events' \in Seq(Event)
        /\ \A i \in DOMAIN events' :
              events'[i].kind = "new" => events'[i].dev \in Dongle
        /\ \A d : Told(d) => Told(d)'
    BY <2>1, Appended DEF Full, Inv
  <2>3. UNCHANGED Aside /\ plugged' = plugged /\ plugs' = plugs
    BY <1>3 DEF OtherGone, Aside
  <2>4. Inv' /\ (~ignored => Endpoint)'
    BY <2>2, <2>3, AsideInv DEF Full, Inv, Values
  <2>5. \A d : Here(d) => Here(d)'
    BY <2>2, <2>3 DEF Here
  <2>6. Fresh'
    BY <2>3, <2>5 DEF Full, Fresh, Aside, life, mine
  <2> QED  BY <2>4, <2>6 DEF Full
<1> QED  BY <1>1, <1>2, <1>3

-----------------------------------------------------------------------------
(* The removals *)

\* A device that is claimed goes from s_dev into the hands of the task.
LEMMA ClaimsInv ==
    ASSUME Full, NEW t \in Remover, at[t] = "idle", NEW d \in {sdev, None},
           Claims(t, d),
           UNCHANGED <<plugged, plugs, object, setupOn, pending, pendingGen,
                       mine, late, phase, ctx, ignored>>,
           events' \in Seq(Event),
           \A i \in DOMAIN events' :
              events'[i].kind = "new" => events'[i].dev \in Dongle,
           \A x : x = sdev /\ x # None /\ d = None /\ Told(x) => Told(x)'
    PROVE  Full'
<1> USE DEF Full, Inv, mine
<1>1. t \in Tasks /\ t # setup
  BY TasksAre
<1>2. gen' = gen + 1 /\ setupGen' # gen'
  BY DEF Claims, Values
<1>3. CASE d = None
  <2>1. UNCHANGED <<sdev, cleanupOn, at, dev>>
    BY <1>3 DEF Claims
  <2>2. Flags'
    BY <2>1 DEF Flags
  <2>3. Values'
    BY <1>2, <2>1 DEF Values
  <2>4. Roles'
    BY <2>1 DEF Roles
  <2>5. Owned'
    BY <2>1 DEF Owned, Holds
  <2>6. (~ignored => Endpoint)'
    BY <2>1 DEF Endpoint, Answers
  <2>7. Fresh'
    BY <1>2, <1>3, <2>1 DEF Fresh, Here
  <2> QED  BY <2>2, <2>3, <2>4, <2>5, <2>6, <2>7
<1>4. CASE d # None
  <2>1. /\ sdev # None /\ d = sdev /\ sdev' = None /\ cleanupOn' = TRUE
        /\ at' = [at EXCEPT ![t] = "unregister"] /\ dev' = [dev EXCEPT ![t] = sdev]
    BY <1>4 DEF Claims, Goto
  <2>2. sdev \in Dongle /\ object[sdev] = "live"
    BY <2>1, Hands
  <2>3. Flags'
    BY <2>1 DEF Flags
  <2>4. Values'
    BY <1>1, <1>2, <2>1, <2>2 DEF Values, Places
  <2>5. at[setup] \in {"idle", "finish"}
    BY <2>1 DEF Roles
  <2>6. Roles'
    BY <1>1, <2>1, <2>5, TasksAre DEF Roles, SettingUp, Values
  <2>7. Owned'
    BY <1>1, <2>1, <2>2, NoDongle DEF Owned, Holds, Holding, Values
  <2>8. (~ignored => Endpoint)'
    <3>1. ASSUME ~ignored PROVE Endpoint'
      <4>1. Endpoint /\ phase \in {"present", "recovering"} /\ ctx = sdev
        BY <2>1, <3>1 DEF Endpoint
      <4>2. \A u \in Tasks : ~Answers(u)
        <5> SUFFICES ASSUME NEW u \in Tasks, Answers(u) PROVE FALSE
          OBVIOUS
        <5>1. ctx = dev[u]
          BY <4>1 DEF Endpoint
        <5>2. Holds(u)
          BY DEF Answers, Holds, Holding
        <5> QED  BY <4>1, <5>1, <5>2 DEF Owned
      <4>3. \A u \in Tasks : Answers(u)' <=> u = t
        BY <1>1, <2>1, <4>2 DEF Answers, Values
      <4>4. dev'[t] = sdev /\ at'[t] = "unregister"
        BY <1>1, <2>1 DEF Values
      <4> QED  BY <1>1, <2>1, <4>1, <4>3, <4>4 DEF Endpoint
    <3> QED  BY <3>1
  <2>9. Fresh'
    BY <1>2, <2>1 DEF Fresh
  <2> QED  BY <2>3, <2>4, <2>6, <2>7, <2>8, <2>9
<1> QED  BY <1>3, <1>4

LEMMA HandleGoneInv == ASSUME Full, HandleGone PROVE Full'
<1> DEFINE d == IF Head(events).dev = sdev THEN sdev ELSE None
<1>1. /\ events' \in Seq(Event)
      /\ \A i \in DOMAIN events' :
            events'[i].kind = "new" => events'[i].dev \in Dongle
      /\ \A x : Told(x) => Told(x)' \/ Head(events) = [kind |-> "gone", dev |-> x]
  BY Taken DEF HandleGone, Full, Inv
<1>2. \A x : x = sdev /\ x # None /\ d = None /\ Told(x) => Told(x)'
  <2> SUFFICES ASSUME NEW x, x = sdev, x # None, d = None PROVE Told(x) => Told(x)'
    BY Zenon
  <2>1. Head(events).dev # x
    OBVIOUS
  <2> QED  BY <1>1, <2>1
<1>3. at[client] = "idle" /\ d \in {sdev, None} /\ Claims(client, d)
  BY DEF HandleGone
<1>4. UNCHANGED <<plugged, plugs, object, setupOn, pending, pendingGen,
                  mine, late, phase, ctx, ignored>>
  BY DEF HandleGone, slot
<1> QED  BY <1>1, <1>2, <1>3, <1>4, ClaimsInv DEF Remover

LEMMA DetachInv == ASSUME Full, Detach PROVE Full'
<1>1. at[console] = "idle" /\ Claims(console, sdev)
  BY DEF Detach
<1>2. UNCHANGED <<plugged, plugs, events, object, setupOn, pending, pendingGen,
                  mine, late, phase, ctx, ignored>>
  BY DEF Detach, bus, slot
<1>3. /\ events' \in Seq(Event)
      /\ \A i \in DOMAIN events' :
            events'[i].kind = "new" => events'[i].dev \in Dongle
      /\ \A x : Told(x) => Told(x)'
  BY <1>2 DEF Full, Inv, Values, Told
<1>4. console \in Remover
  BY DEF Remover
<1> QED  BY <1>1, <1>2, <1>3, <1>4, ClaimsInv

\* A remover that moves between places where it holds nothing.
EmptyHanded == {"idle", "probe", "finish"}
LEMMA MoveInv ==
    ASSUME Full, NEW t \in Remover, at[t] \in EmptyHanded, NEW p \in EmptyHanded,
           NEW d \in Dongle \cup {None}, p = "probe" => d \in Dongle,
           at' = [at EXCEPT ![t] = p], dev' \in {dev, [dev EXCEPT ![t] = d]},
           p = "probe" => dev' # dev \/ dev[t] = d,
           UNCHANGED <<object, sdev, setupOn, gen, mine, phase, ctx, ignored>>,
           plugged' = plugged, plugs' = plugs,
           cleanupOn' \in BOOLEAN, pending' \in Dongle \cup {None},
           late' \in SUBSET Dongle, events' \in Seq(Event),
           \A i \in DOMAIN events' :
              events'[i].kind = "new" => events'[i].dev \in Dongle,
           \A x \in Dongle : Told(x) => Told(x)'
    PROVE  Full'
<1> USE DEF Full, Inv, mine
<1>1. t \in Tasks /\ t # setup
  BY TasksAre
<1>2. /\ at \in [Tasks -> Places] /\ dev \in [Tasks -> Dongle \cup {None}]
      /\ \A u \in Tasks \ {t} : at'[u] = at[u] /\ dev'[u] = dev[u]
      /\ at'[t] = p /\ dev'[t] \in {dev[t], d} /\ dev' \in [Tasks -> Dongle \cup {None}]
  BY <1>1 DEF Values
<1>3. p = "probe" => dev'[t] \in Dongle
  BY <1>1, <1>2
<1>4. \A u \in Tasks : Holds(u)' <=> Holds(u)
  BY <1>1, <1>2 DEF Holds, Holding, EmptyHanded
<1>5. \A u \in Tasks : Answers(u)' <=> Answers(u)
  BY <1>1, <1>2 DEF Answers, EmptyHanded
<1>6. \A u \in Tasks : Holds(u) => u # t
  BY DEF Holds, Holding, EmptyHanded
<1>7. Flags'
  BY DEF Flags
<1>8. Values'
  BY <1>1, <1>2 DEF Values, Places, EmptyHanded
<1>9. Roles'
  BY <1>1, <1>2, <1>3, TasksAre DEF Roles, SettingUp, EmptyHanded
<1>10. Owned'
  BY <1>1, <1>2, <1>4, <1>6 DEF Owned
<1>11. (~ignored => Endpoint)'
  <2>1. ASSUME NEW u \in Tasks, Answers(u) PROVE u # t
    BY <2>1, <1>1 DEF Answers, EmptyHanded
  <2> QED  BY <1>2, <1>5, <2>1 DEF Endpoint
<1>12. Fresh'
  <2>1. at'[setup] = at[setup] /\ dev'[setup] = dev[setup]
    BY <1>1, <1>2, TasksAre
  <2>2. \A x \in Dongle : Here(x) => Here(x)'
    BY DEF Here
  <2> QED  BY <2>1, <2>2, Hands DEF Fresh
<1> QED  BY <1>7, <1>8, <1>9, <1>10, <1>11, <1>12

LEMMA HandleNewInv == ASSUME Full, HandleNew PROVE Full'
<1> DEFINE d == Head(events).dev
<1>1. /\ events' \in Seq(Event)
      /\ \A i \in DOMAIN events' :
            events'[i].kind = "new" => events'[i].dev \in Dongle
      /\ d \in Dongle
      /\ \A x : Told(x) => Told(x)' \/ Head(events) = [kind |-> "gone", dev |-> x]
  BY Taken DEF HandleNew, Full, Inv
<1>2. \A x : Told(x) => Told(x)'
  BY <1>1 DEF HandleNew
<1>3. /\ UNCHANGED <<plugged, plugs, object, life, mine, late, phase, ctx, ignored>>
      /\ at[client] = "idle"
  BY DEF HandleNew, slot
<1>4. late' \in SUBSET Dongle /\ pending' \in Dongle \cup {None} /\ cleanupOn' \in BOOLEAN
  BY <1>3 DEF life, Full, Inv, Values, Flags
<1>5. CASE plugged = d
  <2>1. at' = [at EXCEPT ![client] = "probe"] /\ dev' = [dev EXCEPT ![client] = d]
    BY <1>5 DEF HandleNew, Goto
  <2>2. dev' # dev \/ dev[client] = d
    BY <2>1, TasksAre DEF Full, Inv, Values
  <2> QED
    BY <1>1, <1>2, <1>3, <1>4, <2>1, <2>2, MoveInv DEF Remover, EmptyHanded, life
<1>6. CASE plugged # d
  <2>1. UNCHANGED <<at, dev>>
    BY <1>6 DEF HandleNew
  <2>2. at' = [at EXCEPT ![client] = "idle"]
    BY <1>3, <2>1, TasksAre DEF Full, Inv, Values
  <2> QED
    BY <1>1, <1>2, <1>3, <1>4, <2>1, <2>2, MoveInv DEF Remover, EmptyHanded, life
<1> QED  BY <1>5, <1>6

LEMMA FinishInv == ASSUME Full, NEW t \in Remover, Finish(t) PROVE Full'
<1>1. /\ UNCHANGED <<bus, object, sdev, setupOn, gen, mine, late, phase, ctx, ignored>>
      /\ at[t] = "finish" /\ cleanupOn' = FALSE
  BY DEF Finish, Finishes, slot
<1>2. pending' \in Dongle \cup {None} /\ late' \in SUBSET Dongle
  BY <1>1 DEF Finish, Finishes, Full, Inv, Values
<1>3. /\ events' \in Seq(Event) /\ plugged' = plugged /\ plugs' = plugs
      /\ \A i \in DOMAIN events' :
            events'[i].kind = "new" => events'[i].dev \in Dongle
      /\ \A x : Told(x) => Told(x)'
  BY <1>1 DEF bus, Full, Inv, Values, Told
<1>4. CASE Probes(setupOn)
  <2>1. /\ at' = [at EXCEPT ![t] = "probe"] /\ dev' = [dev EXCEPT ![t] = pending]
        /\ pending \in Dongle
    BY <1>4 DEF Finish, Goto, Probes, Full, Inv, Values
  <2>2. dev' # dev \/ dev[t] = pending
    BY <2>1, TasksAre DEF Full, Inv, Values
  <2> QED  BY <1>1, <1>2, <1>3, <2>1, <2>2, MoveInv DEF EmptyHanded
<1>5. CASE ~Probes(setupOn)
  <2>1. at' = [at EXCEPT ![t] = "idle"] /\ dev' = dev
    BY <1>5 DEF Finish, Goto
  <2>2. dev[t] \in Dongle \cup {None}
    BY TasksAre DEF Full, Inv, Values
  <2> QED  BY <1>1, <1>2, <1>3, <2>1, <2>2, MoveInv DEF EmptyHanded
<1> QED  BY <1>4, <1>5

-----------------------------------------------------------------------------
(* The endpoint and the device are given back *)

\* A task that holds a device goes on with it: nobody's hands change.
LEMMA HoldersInv ==
    ASSUME Full, NEW t \in Tasks, NEW p \in {"wait", "close", "unregister"},
           at[t] \in Holding, at' = [at EXCEPT ![t] = p],
           UNCHANGED <<bus, object, life, dev, mine, late>>,
           phase' \in {"absent", "present", "recovering", "removing"},
           ignored' \in BOOLEAN
    PROVE  /\ Inv' /\ Fresh'
           /\ \A u \in Tasks \ {t} : Answers(u)' <=> Answers(u)
           /\ at'[t] = p /\ \A u \in Tasks \ {t} : at'[u] = at[u]
<1> USE DEF Full, Inv, life, mine, bus
<1>1. /\ at \in [Tasks -> Places] /\ at'[t] = p
      /\ \A u \in Tasks \ {t} : at'[u] = at[u]
  BY DEF Values
<1>2. \A u \in Tasks : Holds(u)' <=> Holds(u)
  BY <1>1 DEF Holds, Holding
<1>3. Flags'
  BY DEF Flags
<1>4. Values'
  BY DEF Values, Places
<1>5. Roles'
  BY <1>1, TasksAre DEF Roles, SettingUp, Holding
<1>6. Owned'
  BY <1>2 DEF Owned
<1>7. Fresh'
  <2>1. at'[setup] \in {"check", "register", "publish"} => at'[setup] = at[setup]
    BY <1>1, TasksAre
  <2>2. \A x : Here(x) => Here(x)'
    BY DEF Here, Told
  <2> QED  BY <2>1, <2>2 DEF Fresh
<1>8. \A u \in Tasks \ {t} : Answers(u)' <=> Answers(u)
  BY <1>1 DEF Answers
<1> QED  BY <1>1, <1>3, <1>4, <1>5, <1>6, <1>7, <1>8

\* Only one of all tasks and s_dev answers for the endpoint.
LEMMA OneAnswers ==
    ASSUME Full, Endpoint
    PROVE  /\ \A t, u \in Tasks : Answers(t) /\ Answers(u) => t = u
           /\ \A t \in Tasks : Answers(t) => sdev = None
<1>1. \A t \in Tasks : Answers(t) => Holds(t) /\ ctx = dev[t]
  BY DEF Endpoint, Answers, Holds, Holding
<1>2. \A t \in Tasks : Answers(t) /\ sdev # None => dev[t] = sdev
  BY <1>1 DEF Endpoint
<1> QED  BY <1>1, <1>2 DEF Full, Inv, Owned

LEMMA UnregisterInv == ASSUME Full, NEW t \in Tasks, Unregister(t) PROVE Full'
<1>1. at[t] = "unregister" /\ UNCHANGED <<bus, object, life, dev, mine, late, ctx>>
  BY DEF Unregister
<1>2. CASE phase = "present" /\ phase' = "removing" /\ ignored' = ignored
           /\ at' = [at EXCEPT ![t] = "wait"]
  <2>1. /\ Inv' /\ Fresh'
        /\ \A u \in Tasks \ {t} : Answers(u)' <=> Answers(u)
        /\ at'[t] = "wait" /\ \A u \in Tasks \ {t} : at'[u] = at[u]
    BY <1>1, <1>2, HoldersInv DEF Holding, Full, Inv, Flags
  <2>2. ASSUME ~ignored PROVE Endpoint'
    <3>1. Endpoint /\ Answers(t) /\ Answers(t)'
      BY <1>1, <2>1, <2>2 DEF Full, Answers
    <3>2. sdev = None /\ \A u \in Tasks \ {t} : ~Answers(u)'
      BY <2>1, <3>1, OneAnswers
    <3>3. ctx = dev[t]
      BY <3>1 DEF Endpoint
    <3>4. sdev' = None /\ phase' = "removing" /\ ctx' = ctx /\ dev' = dev
      BY <1>1, <1>2, <3>2 DEF life
    <3> QED  BY <2>1, <3>1, <3>2, <3>3, <3>4 DEF Endpoint
  <2> QED  BY <1>2, <2>1, <2>2 DEF Full
<1>3. CASE /\ phase # "present" /\ phase' = phase
           /\ ignored' = (ignored \/ phase = "recovering")
           /\ at' = [at EXCEPT ![t] = "close"]
  <2>0. ignored' \in BOOLEAN
    BY <1>3, Zenon
  <2>1. Inv' /\ Fresh'
    BY <1>1, <1>3, <2>0, HoldersInv DEF Holding, Full, Inv, Values
  <2>2. ASSUME ~ignored' PROVE FALSE
    BY <1>1, <1>3, <2>2 DEF Full, Endpoint, Answers
  <2> QED  BY <2>1, <2>2 DEF Full
<1> QED
  BY <1>2, <1>3 DEF Unregister, Goto, E!BeginDetach

LEMMA UnregisteredInv == ASSUME Full, NEW t \in Tasks, Unregistered(t) PROVE Full'
<1>1. /\ at[t] = "wait" /\ at' = [at EXCEPT ![t] = "close"]
      /\ UNCHANGED <<bus, object, life, dev, mine, late, ignored>>
      /\ phase' = "absent" /\ ctx' = None
  BY DEF Unregistered, Goto, E!EndDetach
<1>2. /\ Inv' /\ Fresh'
      /\ \A u \in Tasks \ {t} : Answers(u)' <=> Answers(u)
      /\ at'[t] = "close" /\ \A u \in Tasks \ {t} : at'[u] = at[u]
  BY <1>1, HoldersInv DEF Holding, Full, Inv, Flags
<1>3. ASSUME ~ignored PROVE Endpoint'
  <2>1. Endpoint /\ Answers(t) /\ ~Answers(t)'
    BY <1>1, <1>2, <1>3 DEF Full, Answers
  <2>2. sdev = None /\ \A u \in Tasks : ~Answers(u)'
    BY <1>2, <2>1, OneAnswers
  <2>3. sdev' = None
    BY <1>1, <2>2 DEF life
  <2> QED  BY <1>1, <2>2, <2>3 DEF Endpoint
<1> QED  BY <1>1, <1>2, <1>3 DEF Full

LEMMA CloseInv == ASSUME Full, NEW t \in Tasks, Close(t) PROVE Full'
<1> USE DEF Full, Inv, life, mine, bus, slot
<1>1. /\ at[t] = "close" /\ at' = [at EXCEPT ![t] = "finish"]
      /\ UNCHANGED <<bus, life, dev, mine, late, phase, ctx, ignored>>
      /\ object' = [object EXCEPT ![dev[t]] = IF @ = "live" THEN "freed" ELSE "twice"]
  BY DEF Close, Goto
<1>2. dev[t] \in Dongle /\ dev[t] # sdev /\ object[dev[t]] = "live"
  BY <1>1 DEF Owned, Holds, Holding
<1>3. object' = [object EXCEPT ![dev[t]] = "freed"]
  BY <1>1, <1>2 DEF Values
<1>4. /\ at \in [Tasks -> Places] /\ at'[t] = "finish"
      /\ \A u \in Tasks \ {t} : at'[u] = at[u]
  BY <1>1 DEF Values
<1>5. ~Holds(t)' /\ ~Answers(t)' /\ ~Answers(t)
      /\ \A u \in Tasks \ {t} : (Holds(u)' <=> Holds(u)) /\ (Answers(u)' <=> Answers(u))
  BY <1>1, <1>4 DEF Holds, Holding, Answers
<1>6. Flags'
  BY <1>1 DEF Flags
<1>7. Values'
  BY <1>1, <1>3 DEF Values, Places
<1>8. Roles'
  BY <1>1, <1>4, TasksAre DEF Roles, SettingUp
<1>9. Owned'
  <2>1. \A u \in Tasks : Holds(u)' => u # t /\ Holds(u) /\ dev[u] # dev[t]
    BY <1>1, <1>5 DEF Owned, Holds, Holding
  <2>2. \A x \in Dongle \ {dev[t]} : object'[x] = object[x]
    BY <1>3 DEF Values
  <2>3. object'[dev[t]] = "freed"
    BY <1>2, <1>3 DEF Values
  <2>4. \A u \in Tasks : Holds(u)' =>
            dev'[u] \in Dongle /\ dev'[u] # sdev' /\ object'[dev'[u]] = "live"
    BY <1>1, <2>1, <2>2 DEF Owned
  <2>5. sdev' # None => object'[sdev'] = "live"
    BY <1>1, <1>2, <2>2 DEF Owned, Values
  <2>6. \A u, v \in Tasks : Holds(u)' /\ Holds(v)' /\ dev'[u] = dev'[v] => u = v
    BY <1>1, <2>1 DEF Owned
  <2>7. \A x \in Dongle : object'[x] # "twice"
    BY <2>2, <2>3 DEF Owned
  <2> QED  BY <2>4, <2>5, <2>6, <2>7 DEF Owned
<1>10. (~ignored => Endpoint)'
  BY <1>1, <1>4, <1>5 DEF Endpoint
<1>11. Fresh'
  BY <1>1, <1>4, TasksAre DEF Fresh, Here, Told
<1> QED  BY <1>6, <1>7, <1>8, <1>9, <1>10, <1>11

-----------------------------------------------------------------------------
(* A setup begins *)

\* A probe for d by a task, or by a setup on its way out: it starts the setup,
\* waits, or finds another device published.
LEMMA StartsInv ==
    ASSUME Full, NEW d \in Dongle, StartsSetup(d),
           NEW calling \in SUBSET Remover,
           \A t \in calling : at[t] = "probe",
           at' = [x \in Tasks |-> IF x \in calling THEN "idle"
                                  ELSE IF x = setup /\ Starts THEN "open" ELSE at[x]],
           dev' = [dev EXCEPT ![setup] = IF Starts THEN d ELSE @],
           UNCHANGED <<bus, object, sdev, cleanupOn, gen, phase, ctx, ignored>>,
           late' \in SUBSET Dongle
    PROVE  Full'
<1> USE DEF Full, Inv, bus
<1>1. setup \notin calling /\ setup \in Tasks
  BY TasksAre
<1>2. /\ at' \in [Tasks -> Places]
      /\ \A t \in Tasks : Holds(t)' => Holds(t) /\ at'[t] = at[t]
      /\ \A t \in Tasks \ {setup} : at'[t] = at[t] \/ at'[t] = "idle"
      /\ \A t \in Tasks \ {setup} : dev'[t] = dev[t]
  BY DEF Values, Places, Holds, Holding
<1>3. CASE Starts
  <2>1. /\ setupOn = FALSE /\ cleanupOn = FALSE /\ sdev = None
        /\ setupOn' = TRUE /\ setupGen' = gen /\ registered' = FALSE
        /\ UNCHANGED <<pending, pendingGen>>
    BY <1>3 DEF Starts, StartsSetup, Flags
  <2>2. at[setup] = "idle" /\ at'[setup] = "open" /\ dev'[setup] = d
    BY <1>1, <1>3, <2>1 DEF Roles, Values
  <2>3. Flags'
    BY <2>1 DEF Flags
  <2>4. Values'
    BY <1>1, <1>2, <1>3, <2>1 DEF Values
  <2>5. Roles'
    BY <1>1, <1>2, <2>1, <2>2 DEF Roles, SettingUp
  <2>6. \A t \in Tasks : Holds(t)' => t # setup
    BY <2>2 DEF Holds, Holding
  <2>7. Owned'
    BY <1>2, <2>1, <2>6 DEF Owned
  <2>8. (~ignored => Endpoint)'
    <3>1. \A t \in Tasks : Answers(t) => at'[t] = at[t] /\ t # setup
      BY <1>3, <2>2 DEF Answers
    <3>2. \A t \in Tasks : Answers(t)' <=> Answers(t)
      BY <1>2, <2>2, <3>1 DEF Answers
    <3> QED  BY <1>2, <2>1, <3>1, <3>2 DEF Endpoint
  <2>9. Fresh'
    BY <2>1, <2>2 DEF Fresh
  <2> QED  BY <2>3, <2>4, <2>5, <2>7, <2>8, <2>9
<1>4. CASE ~Starts
  <2>1. UNCHANGED <<setupOn, setupGen, registered, tries>>
    BY <1>4 DEF Starts, StartsSetup
  <2>2. pending' \in Dongle \cup {None}
    BY <1>4 DEF StartsSetup, Values
  <2>3. at'[setup] = at[setup] /\ dev' = dev
    BY <1>1, <1>4 DEF Values
  <2>4. Flags'
    BY <2>1 DEF Flags
  <2>5. Values'
    BY <1>2, <2>1, <2>2, <2>3 DEF Values
  <2>6. Roles'
    BY <1>1, <1>2, <2>1, <2>3 DEF Roles, SettingUp
  <2>7. Owned'
    BY <1>2, <2>3 DEF Owned
  <2>8. (~ignored => Endpoint)'
    <3>1. \A t \in Tasks : Answers(t) => at'[t] = at[t]
      BY <1>1, <1>4 DEF Answers
    <3>2. \A t \in Tasks : Answers(t)' <=> Answers(t)
      BY <1>2, <2>1, <2>3, <3>1 DEF Answers
    <3> QED  BY <2>3, <3>1, <3>2 DEF Endpoint
  <2>9. Fresh'
    BY <2>1, <2>3 DEF Fresh, Here, Told
  <2> QED  BY <2>4, <2>5, <2>6, <2>7, <2>8, <2>9
<1> QED  BY <1>3, <1>4

LEMMA ProbeInv == ASSUME Full, NEW t \in Remover, Probe(t) PROVE Full'
<1>1. at[t] = "probe" /\ dev[t] \in Dongle
  BY TasksAre DEF Probe, Full, Inv, Roles
<1>2. late' \in SUBSET Dongle
  BY DEF Probe, Full, Inv, Values
<1> DEFINE calling == {t}
<1>3. /\ at' = [x \in Tasks |-> IF x \in calling THEN "idle"
                                ELSE IF x = setup /\ Starts THEN "open" ELSE at[x]]
      /\ \A u \in calling : at[u] = "probe"
      /\ calling \in SUBSET Remover
  BY <1>1 DEF Probe
<1>4. UNCHANGED <<bus, object, sdev, cleanupOn, gen, phase, ctx, ignored>>
  BY DEF Probe, slot
<1> HIDE DEF calling
<1> QED  BY <1>1, <1>2, <1>3, <1>4, StartsInv DEF Probe

LEMMA ProbeLateInv == ASSUME Full, ProbeLate PROVE Full'
<1>1. PICK d \in late :
        /\ late' = late \ {d}
        /\ StartsSetup(d)
        /\ at' = [at EXCEPT ![setup] = IF Starts THEN "open" ELSE @]
        /\ dev' = [dev EXCEPT ![setup] = IF Starts THEN d ELSE @]
        /\ UNCHANGED <<bus, object, sdev, cleanupOn, gen, phase, ctx, ignored>>
  BY DEF ProbeLate, slot
<1>2. d \in Dongle /\ late' \in SUBSET Dongle
  BY <1>1 DEF Full, Inv, Values
<1> DEFINE calling == {}
<1>3. /\ at' = [x \in Tasks |-> IF x \in calling THEN "idle"
                                ELSE IF x = setup /\ Starts THEN "open" ELSE at[x]]
      /\ \A u \in calling : at[u] = "probe"
      /\ calling \in SUBSET Remover
  BY <1>1, TasksAre DEF Full, Inv, Values
<1> HIDE DEF calling
<1> QED  BY <1>1, <1>2, <1>3, StartsInv

LEMMA NoMemoryInv == ASSUME Full, NoMemory PROVE Full'
<1>1. /\ UNCHANGED <<bus, object, life, dev, mine, phase, ctx, ignored>>
      /\ late' \in SUBSET Dongle
  BY DEF NoMemory, slot, Full, Inv, Values
<1>2. ASSUME NEW t \in Remover, at[t] = "probe", Goto(t, "idle") PROVE Full'
  <2>1. dev[t] \in Dongle
    BY <1>2, TasksAre DEF Full, Inv, Roles
  <2>2. /\ UNCHANGED <<object, sdev, setupOn, gen, mine, phase, ctx, ignored>>
        /\ plugged' = plugged /\ plugs' = plugs /\ dev' = dev
        /\ cleanupOn' \in BOOLEAN /\ pending' \in Dongle \cup {None}
        /\ events' \in Seq(Event)
        /\ \A i \in DOMAIN events' :
              events'[i].kind = "new" => events'[i].dev \in Dongle
        /\ \A x \in Dongle : Told(x) => Told(x)'
    BY <1>1 DEF life, bus, Full, Inv, Values, Flags, Told
  <2> QED  BY <1>1, <1>2, <2>1, <2>2, MoveInv DEF EmptyHanded, Goto
<1>3. CASE UNCHANGED at
  <2> USE <1>1, <1>3 DEF Full, Inv, bus, life, mine
  <2>1. Flags'
    BY DEF Flags
  <2>2. Values'
    BY DEF Values
  <2>3. Roles'
    BY DEF Roles
  <2>4. Owned'
    BY DEF Owned, Holds
  <2>5. (~ignored => Endpoint)'
    BY DEF Endpoint, Answers
  <2>6. Fresh'
    BY DEF Fresh, Here, Told
  <2> QED  BY <2>1, <2>2, <2>3, <2>4, <2>5, <2>6
<1> QED  BY <1>2, <1>3 DEF NoMemory

-----------------------------------------------------------------------------
(* The setup task *)

\* What a step of the setup task alone does to the places.
LEMMA SetupMoves ==
    ASSUME Full, NEW p \in Places, at' = [at EXCEPT ![setup] = p]
    PROVE  /\ setup \in Tasks /\ at \in [Tasks -> Places] /\ at' \in [Tasks -> Places]
           /\ at'[setup] = p /\ \A t \in Tasks \ {setup} : at'[t] = at[t]
           /\ \A t \in Tasks \ {setup} : Holds(t)' <=> Holds(t)
           /\ Holds(setup)' <=> p \in Holding
BY TasksAre DEF Full, Inv, Values, Holds

LEMMA SetupFailsInv == ASSUME Full, SetupFails PROVE Full'
<1> USE DEF Full, Inv, bus, life, mine
<1>1. /\ at[setup] = "open" /\ at' = [at EXCEPT ![setup] = "finish"]
      /\ UNCHANGED <<bus, object, life, dev, mine, late, phase, ctx, ignored>>
  BY DEF SetupFails, Goto, slot
<1>2. /\ setup \in Tasks /\ at' \in [Tasks -> Places]
      /\ at'[setup] = "finish" /\ \A t \in Tasks \ {setup} : at'[t] = at[t]
      /\ \A t \in Tasks : Holds(t)' <=> Holds(t)
  BY <1>1, SetupMoves DEF Places, Holds, Holding
<1>3. Flags'
  BY <1>1 DEF Flags
<1>4. Values'
  BY <1>1, <1>2 DEF Values
<1>5. Roles'
  BY <1>1, <1>2, TasksAre DEF Roles, SettingUp
<1>6. Owned'
  BY <1>1, <1>2 DEF Owned
<1>7. (~ignored => Endpoint)'
  <2>1. \A t \in Tasks : Answers(t)' <=> Answers(t)
    BY <1>1, <1>2 DEF Answers
  <2>2. ~Answers(setup)
    BY <1>1 DEF Answers
  <2> QED  BY <1>1, <1>2, <2>1, <2>2 DEF Endpoint
<1>8. Fresh'
  BY <1>1, <1>2 DEF Fresh, Here, Told
<1> QED  BY <1>3, <1>4, <1>5, <1>6, <1>7, <1>8

LEMMA OpenInv == ASSUME Full, Open PROVE Full'
<1> USE DEF Full, Inv, bus, life, mine
<1>1. /\ at[setup] = "open" /\ at' = [at EXCEPT ![setup] = "check"]
      /\ plugged = dev[setup] /\ object[plugged] # "live"
      /\ object' = [object EXCEPT ![plugged] = "live"]
      /\ UNCHANGED <<bus, life, dev, mine, late, phase, ctx, ignored>>
  BY DEF Open, Goto, slot
<1>2. /\ setup \in Tasks /\ at' \in [Tasks -> Places]
      /\ at'[setup] = "check" /\ \A t \in Tasks \ {setup} : at'[t] = at[t]
      /\ \A t \in Tasks \ {setup} : Holds(t)' <=> Holds(t)
      /\ Holds(setup)'
  BY <1>1, SetupMoves DEF Places, Holding
<1>3. dev[setup] \in Dongle /\ sdev = None
  BY <1>1, TasksAre DEF Roles
<1>4. \A x \in Dongle : object'[x] = IF x = dev[setup] THEN "live" ELSE object[x]
  BY <1>1, <1>3 DEF Values
<1>5. Flags'
  BY <1>1 DEF Flags
<1>6. Values'
  BY <1>1, <1>2, <1>3 DEF Values
<1>7. Roles'
  BY <1>1, <1>2, TasksAre DEF Roles, SettingUp
<1>8. Owned'
  <2>1. \A t \in Tasks \ {setup} : Holds(t) => dev[t] # dev[setup]
    BY <1>1 DEF Owned
  <2> QED  BY <1>1, <1>2, <1>3, <1>4, <2>1, NoDongle DEF Owned
<1>9. (~ignored => Endpoint)'
  <2>1. \A t \in Tasks : Answers(t)' <=> Answers(t)
    BY <1>1, <1>2 DEF Answers
  <2>2. ~Answers(setup)
    BY <1>1 DEF Answers
  <2> QED  BY <1>1, <1>2, <2>1, <2>2 DEF Endpoint
<1>10. Fresh'
  BY <1>1, <1>2, <1>3 DEF Fresh, Here
<1> QED  BY <1>5, <1>6, <1>7, <1>8, <1>9, <1>10

LEMMA CheckCancelledInv == ASSUME Full, CheckCancelled PROVE Full'
<1> USE DEF Full, Inv, bus, life, mine
<1>1. PICK p \in {"publish", "register"} :
        /\ at[setup] = "check" /\ at' = [at EXCEPT ![setup] = p]
        /\ UNCHANGED <<bus, object, life, dev, mine, late, phase, ctx, ignored>>
  BY DEF CheckCancelled, Goto, slot
<1>2. /\ setup \in Tasks /\ at' \in [Tasks -> Places]
      /\ at'[setup] = p /\ \A t \in Tasks \ {setup} : at'[t] = at[t]
      /\ \A t \in Tasks : Holds(t)' <=> Holds(t)
  BY <1>1, SetupMoves DEF Places, Holds, Holding
<1>3. ~registered
  BY <1>1 DEF Roles
<1>4. Flags'
  BY <1>1 DEF Flags
<1>5. Values'
  BY <1>1, <1>2 DEF Values
<1>6. Roles'
  BY <1>1, <1>2, TasksAre DEF Roles, SettingUp
<1>7. Owned'
  BY <1>1, <1>2 DEF Owned
<1>8. (~ignored => Endpoint)'
  <2>1. \A t \in Tasks : Answers(t)' <=> Answers(t)
    BY <1>1, <1>2, <1>3 DEF Answers
  <2>2. ~Answers(setup)
    BY <1>1 DEF Answers
  <2> QED  BY <1>1, <1>2, <2>1, <2>2 DEF Endpoint
<1>9. Fresh'
  BY <1>1, <1>2 DEF Fresh, Here, Told
<1> QED  BY <1>4, <1>5, <1>6, <1>7, <1>8, <1>9

LEMMA RegisterEndpointInv == ASSUME Full, RegisterEndpoint PROVE Full'
<1> USE DEF Full, Inv, bus, life, mine
<1>1. PICK p \in {"publish", "check"} :
        /\ at[setup] = "register" /\ at' = [at EXCEPT ![setup] = p]
        /\ UNCHANGED <<bus, object, life, dev, setupGen, late, ignored>>
        /\ \/ /\ p = "publish" /\ registered' = TRUE
              /\ phase = "absent" /\ phase' = "present" /\ ctx' = dev[setup]
           \/ UNCHANGED <<registered, phase, ctx>>
  BY DEF RegisterEndpoint, Goto, slot, E!Attach
<1>2. /\ setup \in Tasks /\ at' \in [Tasks -> Places]
      /\ at'[setup] = p /\ \A t \in Tasks \ {setup} : at'[t] = at[t]
      /\ \A t \in Tasks : Holds(t)' <=> Holds(t)
  BY <1>1, SetupMoves DEF Places, Holds, Holding
<1>3. ~registered /\ sdev = None
  BY <1>1 DEF Roles
<1>4. Flags'
  BY <1>1 DEF Flags
<1>5. Values'
  BY <1>1, <1>2 DEF Values
<1>6. Roles'
  BY <1>1, <1>2, <1>3, TasksAre DEF Roles, SettingUp
<1>7. Owned'
  BY <1>1, <1>2 DEF Owned
<1>8. ASSUME ~ignored PROVE Endpoint'
  <2>1. ~Answers(setup) /\ Endpoint
    BY <1>1, <1>8 DEF Answers
  <2>2. CASE registered' = registered /\ UNCHANGED <<phase, ctx>>
    <3>1. \A t \in Tasks : Answers(t)' <=> Answers(t)
      BY <1>1, <1>2, <1>3, <2>2 DEF Answers
    <3> QED  BY <1>1, <1>2, <2>1, <2>2, <3>1 DEF Endpoint
  <2>3. CASE /\ p = "publish" /\ registered' = TRUE
             /\ phase = "absent" /\ phase' = "present" /\ ctx' = dev[setup]
    <3>1. \A t \in Tasks : ~Answers(t)
      BY <2>1, <2>3 DEF Endpoint
    <3>2. \A t \in Tasks : Answers(t)' <=> t = setup
      BY <1>2, <2>3, <3>1 DEF Answers
    <3> QED  BY <1>1, <1>2, <1>3, <2>3, <3>2 DEF Endpoint
  <2> QED  BY <1>1, <2>2, <2>3
<1>9. Fresh'
  BY <1>1, <1>2 DEF Fresh, Here, Told
<1> QED  BY <1>1, <1>4, <1>5, <1>6, <1>7, <1>8, <1>9

LEMMA PublishInv == ASSUME Full, Publish PROVE Full'
<1> USE DEF Full, Inv, bus, life, mine
<1>1. /\ at[setup] = "publish"
      /\ UNCHANGED <<bus, object, setupOn, cleanupOn, pending, pendingGen, gen,
                     dev, mine, late, phase, ctx, ignored>>
  BY DEF Publish, slot
<1>2. /\ dev[setup] \in Dongle /\ sdev = None /\ Holds(setup)
      /\ object[dev[setup]] = "live"
  BY <1>1, TasksAre DEF Roles, Owned, Holds, Holding
<1>3. CASE registered /\ setupGen = gen
  <2>1. sdev' = dev[setup] /\ at' = [at EXCEPT ![setup] = "finish"]
    BY <1>3 DEF Publish, Goto
  <2>2. /\ setup \in Tasks /\ at' \in [Tasks -> Places]
        /\ at'[setup] = "finish" /\ \A t \in Tasks \ {setup} : at'[t] = at[t]
        /\ \A t \in Tasks \ {setup} : Holds(t)' <=> Holds(t)
        /\ ~Holds(setup)'
    BY <2>1, SetupMoves DEF Places, Holding
  <2>3. Flags'
    BY <1>1 DEF Flags
  <2>4. Values'
    BY <1>1, <1>2, <2>1, <2>2 DEF Values
  <2>5. Roles'
    BY <1>1, <2>2, TasksAre DEF Roles, SettingUp
  <2>6. Owned'
    <3>1. \A t \in Tasks \ {setup} : Holds(t) => dev[t] # dev[setup]
      BY <1>2, <2>2 DEF Owned
    <3> QED  BY <1>1, <1>2, <2>1, <2>2, <3>1 DEF Owned
  <2>7. ASSUME ~ignored PROVE Endpoint'
    <3>1. Endpoint /\ Answers(setup)
      BY <1>1, <1>3, <2>7 DEF Answers
    <3>2. \A t \in Tasks \ {setup} : ~Answers(t)
      BY <2>2, <3>1, OneAnswers
    <3>3. \A t \in Tasks : ~Answers(t)'
      BY <2>2, <3>2 DEF Answers
    <3>4. ctx = dev[setup] /\ phase \in {"present", "recovering"}
      BY <1>1, <2>2, <3>1 DEF Endpoint
    <3> QED  BY <1>1, <1>2, <2>1, <3>3, <3>4, NoDongle DEF Endpoint
  <2>8. Fresh'
    BY <1>1, <1>3, <2>1, <2>2 DEF Fresh, Here, Told
  <2> QED  BY <1>1, <2>3, <2>4, <2>5, <2>6, <2>7, <2>8
<1>4. CASE ~(registered /\ setupGen = gen)
  <2>1. PICK p \in {"close", "unregister"} :
          /\ at' = [at EXCEPT ![setup] = p] /\ sdev' = sdev
          /\ p = "unregister" <=> registered
    BY <1>4 DEF Publish, Goto
  <2>2. /\ Inv' /\ Fresh'
        /\ \A u \in Tasks \ {setup} : Answers(u)' <=> Answers(u)
        /\ at'[setup] = p /\ \A u \in Tasks \ {setup} : at'[u] = at[u]
    BY <1>1, <1>2, <2>1, HoldersInv, TasksAre DEF Holds, Values, Flags
  <2>3. ASSUME ~ignored PROVE Endpoint'
    <3>1. Answers(setup)' <=> Answers(setup)
      BY <1>1, <2>1, <2>2 DEF Answers
    <3>2. at'[setup] # "wait" /\ at[setup] # "wait"
      BY <1>1, <2>1, <2>2
    <3> QED  BY <1>1, <2>1, <2>2, <2>3, <3>1, <3>2 DEF Endpoint
  <2> QED  BY <1>1, <2>2, <2>3
<1> QED  BY <1>3, <1>4

LEMMA FinishSetupInv == ASSUME Full, FinishSetup PROVE Full'
<1> USE DEF Full, Inv, bus, life, mine
<1>1. /\ at[setup] = "finish" /\ at' = [at EXCEPT ![setup] = "idle"]
      /\ setupOn' = FALSE /\ cleanupOn' = cleanupOn
      /\ UNCHANGED <<bus, object, sdev, gen, dev, mine, phase, ctx, ignored>>
  BY DEF FinishSetup, Finishes, Goto, slot
<1>2. /\ setup \in Tasks /\ at' \in [Tasks -> Places]
      /\ at'[setup] = "idle" /\ \A t \in Tasks \ {setup} : at'[t] = at[t]
      /\ \A t \in Tasks : Holds(t)' <=> Holds(t)
  BY <1>1, SetupMoves DEF Places, Holds, Holding
<1>3. pending' \in Dongle \cup {None} /\ late' \in SUBSET Dongle
  BY DEF FinishSetup, Finishes, Probes, Values
<1>4. Flags'
  BY <1>1 DEF Flags
<1>5. Values'
  BY <1>1, <1>2, <1>3 DEF Values
<1>6. Roles'
  BY <1>1, <1>2, TasksAre DEF Roles, SettingUp
<1>7. Owned'
  BY <1>1, <1>2 DEF Owned
<1>8. (~ignored => Endpoint)'
  <2>1. \A t \in Tasks : Answers(t)' <=> Answers(t)
    BY <1>1, <1>2 DEF Answers
  <2>2. ~Answers(setup)
    BY <1>1 DEF Answers
  <2> QED  BY <1>1, <1>2, <2>1, <2>2 DEF Endpoint
<1>9. Fresh'
  BY <1>1, <1>2 DEF Fresh, Here, Told
<1> QED  BY <1>4, <1>5, <1>6, <1>7, <1>8, <1>9

-----------------------------------------------------------------------------
(* The endpoint by itself, and the whole *)

LEMMA LeaseInv == ASSUME Full, Leases \/ DriverReturns PROVE Full'
<1> USE DEF Full, Inv, bus, life, mine
<1>1. /\ UNCHANGED <<bus, object, life, at, dev, mine, late, ctx, ignored>>
      /\ \/ phase' = phase
         \/ /\ phase \in {"present", "recovering"}
            /\ phase' \in {"present", "recovering"}
  BY DEF Leases, DriverReturns, E!Lease, E!EndClose, E!BeginRecovery, E!Close,
         E!UserEnter, E!GuestEnter, E!EndRecovery, E!Exit
<1>2. Flags'
  BY <1>1 DEF Flags
<1>3. Values'
  BY <1>1 DEF Values
<1>4. Roles'
  BY <1>1 DEF Roles
<1>5. Owned'
  BY <1>1 DEF Owned, Holds
<1>6. (~ignored => Endpoint)'
  BY <1>1 DEF Endpoint, Answers
<1>7. Fresh'
  BY <1>1 DEF Fresh, Here, Told
<1> QED  BY <1>2, <1>3, <1>4, <1>5, <1>6, <1>7

LEMMA StutterInv == ASSUME Full, UNCHANGED vars PROVE Full'
BY DEF vars, bus, life, mine, slot, tally, Full, Inv, Flags, Values, Roles, Owned,
       Holds, Endpoint, Answers, Fresh, Here, Told

LEMMA StepInv == ASSUME Full, [Next]_vars PROVE Full'
<1>1. CASE Plug \/ Unplug \/ OtherGone
  BY <1>1, BusInv
<1>2. CASE Detach
  BY <1>2, DetachInv
<1>3. ASSUME NEW t \in Remover, Removes(t) PROVE Full'
  BY <1>3, TasksAre, UnregisterInv, UnregisteredInv, CloseInv, FinishInv, ProbeInv
     DEF Removes
<1>4. CASE Client
  BY <1>3, <1>4, HandleGoneInv, HandleNewInv DEF Client, Remover
<1>5. CASE Removes(console)
  BY <1>3, <1>5 DEF Remover
<1>6. CASE SetUp
  BY <1>6, TasksAre, SetupFailsInv, OpenInv, CheckCancelledInv, RegisterEndpointInv,
     PublishInv, UnregisterInv, UnregisteredInv, CloseInv, FinishSetupInv DEF SetUp
<1>7. CASE ProbeLate \/ NoMemory
  BY <1>7, ProbeLateInv, NoMemoryInv
<1>8. CASE Leases \/ DriverReturns
  BY <1>8, LeaseInv
<1> QED
  BY <1>1, <1>2, <1>4, <1>5, <1>6, <1>7, <1>8, StutterInv DEF Next

\* The types that Values leaves out.
LEMMA CountsInit == Init => Counts
<1>1. Init => overtaken \in BOOLEAN
  BY DEF Init
<1> QED
  BY <1>1, BoundsAssumption, TasksAre DEF Init, Counts, E!LeaseInit, E!LeaseTypeOK

LEMMA CountsStep == ASSUME Full, Full', Counts, [Next]_vars PROVE Counts'
<1> USE DEF bus, life, mine, slot, tally
<1>0. /\ MaxDetach \in Nat /\ MaxOther \in Nat /\ Attempts \in Nat \ {0}
      /\ gen \in Nat /\ at \in [Tasks -> Places] /\ setup \in Tasks
      /\ client # setup /\ console # setup
  BY BoundsAssumption, TasksAre DEF Full, Inv, Values
<1>s. ASSUME UNCHANGED <<phase, lease, users, guests>> PROVE E!LeaseTypeOK'
  BY <1>s DEF Counts, E!LeaseTypeOK
<1>t. ASSUME NEW t \in Tasks, t # setup, NEW place, Goto(t, place) PROVE at'[setup] = at[setup]
  BY <1>0, <1>t DEF Goto
<1>c. ASSUME NEW t \in Remover, NEW d, Claims(t, d),
             UNCHANGED <<pendingGen, mine, slot, overtaken, others>>,
             detaches' \in 0..MaxDetach
      PROVE  Counts'
  <2>1. at'[setup] = at[setup]
    BY <1>0, <1>c, <1>t, TasksAre DEF Claims
  <2> QED  BY <1>0, <1>c, <1>s, <2>1 DEF Claims, Counts
<1>p. ASSUME NEW d, StartsSetup(d), UNCHANGED <<gen, slot, wanted, detaches, others>>,
             at'[setup] \in {at[setup], "open"}
      PROVE  Counts'
  <2>1. overtaken' \in BOOLEAN
    BY <1>p DEF StartsSetup, Counts
  <2> QED  BY <1>0, <1>p, <1>s, <2>1 DEF StartsSetup, Counts
<1>1. CASE Plug \/ Unplug
  BY <1>1, <1>s DEF Plug, Unplug, Counts
<1>2. CASE OtherGone
  BY <1>0, <1>2, <1>s DEF OtherGone, Counts
<1>3. CASE Detach
  BY <1>0, <1>3, <1>c DEF Detach, Remover, Counts
<1>4. CASE HandleGone
  <2>1. detaches' \in 0..MaxDetach
    BY <1>4 DEF HandleGone, Counts
  <2> QED  BY <1>4, <1>c, <2>1 DEF HandleGone, Remover
<1>5. CASE HandleNew
  <2>1. at'[setup] = at[setup]
    BY <1>0, <1>5 DEF HandleNew, Goto
  <2>2. wanted' \in Dongle \cup {None}
    <3>1. 1 \in DOMAIN events /\ Head(events) = events[1]
      BY <1>5 DEF HandleNew, Full, Inv, Values
    <3> QED  BY <1>5, <3>1 DEF HandleNew, Full, Inv, Values, Counts
  <2> QED  BY <1>5, <1>s, <2>1, <2>2 DEF HandleNew, Counts
<1>6. ASSUME NEW t \in Tasks, Unregister(t) PROVE Counts'
  <2>1. at'[setup] # "register" \/ at'[setup] = at[setup]
    BY <1>0, <1>6 DEF Unregister, Goto
  <2>2. E!LeaseTypeOK'
    BY <1>6 DEF Unregister, E!BeginDetach, E!LeaseTypeOK, Counts
  <2> QED  BY <1>6, <2>1, <2>2 DEF Unregister, Counts
<1>7. ASSUME NEW t \in Tasks, Unregistered(t) PROVE Counts'
  <2>1. at'[setup] # "register" \/ at'[setup] = at[setup]
    BY <1>0, <1>7 DEF Unregistered, Goto
  <2>2. E!LeaseTypeOK'
    BY <1>7 DEF Unregistered, E!EndDetach, E!LeaseTypeOK, Counts
  <2> QED  BY <1>7, <2>1, <2>2 DEF Unregistered, Counts
<1>8. ASSUME NEW t \in Tasks, Close(t) PROVE Counts'
  <2>1. at'[setup] # "register" \/ at'[setup] = at[setup]
    BY <1>0, <1>8 DEF Close, Goto
  <2> QED  BY <1>8, <1>s, <2>1 DEF Close, Counts
<1>9. ASSUME NEW t \in Remover, Finish(t) PROVE Counts'
  <2>1. at'[setup] = at[setup]
    BY <1>0, <1>9 DEF Finish, Goto
  <2> QED  BY <1>9, <1>s, <2>1 DEF Finish, Finishes, Counts
<1>10. ASSUME NEW t \in Remover, Probe(t) PROVE Counts'
  <2>1. at'[setup] \in {at[setup], "open"}
    BY <1>0, <1>10, TasksAre DEF Probe
  <2> QED  BY <1>10, <1>p, <2>1 DEF Probe
<1>11. CASE ProbeLate
  <2>1. at'[setup] \in {at[setup], "open"}
    BY <1>0, <1>11 DEF ProbeLate
  <2> QED  BY <1>11, <1>p, <2>1 DEF ProbeLate
<1>12. CASE NoMemory
  <2>1. at'[setup] = at[setup]
    BY <1>0, <1>12, TasksAre DEF NoMemory, Goto
  <2> QED  BY <1>12, <1>s, <2>1 DEF NoMemory, Served, Counts
<1>13. CASE SetupFails
  <2>1. at'[setup] = "finish"
    BY <1>0, <1>13 DEF SetupFails, Goto
  <2> QED  BY <1>13, <1>s, <2>1 DEF SetupFails, Served, Counts
<1>14. CASE Open
  <2>1. at'[setup] = "check"
    BY <1>0, <1>14 DEF Open, Goto
  <2> QED  BY <1>14, <1>s, <2>1 DEF Open, Counts
<1>15. CASE CheckCancelled
  <2>1. at'[setup] = "register" => tries # Attempts
    BY <1>0, <1>15 DEF CheckCancelled, Goto
  <2> QED  BY <1>15, <1>s, <2>1 DEF CheckCancelled, Counts
<1>16. CASE RegisterEndpoint
  <2>1. dev[setup] \in Dongle /\ tries # Attempts /\ at'[setup] \in {"publish", "check"}
    BY <1>0, <1>16 DEF RegisterEndpoint, Goto, Counts, Full, Inv, Owned, Holds, Holding
  <2>2. E!LeaseTypeOK' /\ ctx' \in Dongle \cup {None}
    BY <1>16, <2>1 DEF RegisterEndpoint, E!Attach, E!LeaseTypeOK, Counts
  <2>3. tries' \in 0..Attempts
    BY <1>0, <1>16, <2>1 DEF RegisterEndpoint, Counts
  <2>4. wanted' \in Dongle \cup {None}
    BY <1>16 DEF RegisterEndpoint, Served, Counts
  <2> QED  BY <1>16, <2>1, <2>2, <2>3, <2>4 DEF RegisterEndpoint, Counts
<1>17. CASE Publish
  <2>1. at'[setup] # "register"
    BY <1>0, <1>17 DEF Publish, Goto
  <2> QED  BY <1>17, <1>s, <2>1 DEF Publish, Served, Counts
<1>18. CASE FinishSetup
  <2>1. at'[setup] # "register"
    BY <1>0, <1>18 DEF FinishSetup, Goto
  <2> QED  BY <1>18, <1>s, <2>1 DEF FinishSetup, Finishes, Counts
<1>19. CASE Leases \/ DriverReturns
  <2>1. E!LeaseTypeOK'
    BY <1>19 DEF Leases, DriverReturns, E!Lease, E!EndClose, E!BeginRecovery, E!Close,
                 E!UserEnter, E!GuestEnter, E!EndRecovery, E!Exit, E!LeaseTypeOK, Counts
  <2> QED  BY <1>19, <2>1 DEF Leases, DriverReturns, Counts
<1>20. CASE UNCHANGED vars
  BY <1>20, <1>s DEF vars, Counts
<1>21. ASSUME NEW t \in Remover, Removes(t) PROVE Counts'
  BY <1>21, <1>6, <1>7, <1>8, <1>9, <1>10, TasksAre DEF Removes
<1> QED
  BY <1>0, <1>1, <1>2, <1>3, <1>4, <1>5, <1>6, <1>7, <1>8, <1>11, <1>12, <1>13, <1>14,
     <1>15, <1>16, <1>17, <1>18, <1>19, <1>20, <1>21 DEF Next, Client, SetUp, Remover

\* The inductive invariant of the adapter.
THEOREM Invariant == Spec => []Full
BY InitInv, StepInv, PTL DEF Spec

\* Every variable keeps its type; above all a setup never tries to register more
\* often than it may, however often the slot is still being given back.
THEOREM TypeCorrect == Spec => []TypeOK
<1>1. ASSUME Full, Full', Counts, [Next]_vars PROVE Counts'
  BY <1>1, CountsStep
<1>2. Full /\ Counts => TypeOK
  BY DEF Full, Inv, Flags, Values, Counts, TypeOK, Places, Event
<1> QED  BY <1>1, <1>2, CountsInit, Invariant, PTL DEF Spec

\* However a port reset, a console detach, an unplug and a setup interleave, no
\* device is closed and freed twice (rtlsdr_close).
THEOREM NoDoubleFree == Spec => []FreedOnce
<1>1. Full => FreedOnce
  BY DEF Full, Inv, Owned, FreedOnce
<1> QED  BY <1>1, Invariant, PTL

\* Unless an unregister was refused, the device of an endpoint that is there or
\* on its way out is not freed.
THEOREM DeviceOutlivesEndpoint == Spec => []NotDangling
<1>1. ASSUME Full PROVE NotDangling
  <2> SUFFICES ASSUME ~ignored, phase # "absent" PROVE object[ctx] = "live"
    BY DEF NotDangling, Dangling
  <2>1. Endpoint
    BY <1>1 DEF Full
  <2>2. CASE sdev # None
    BY <1>1, <2>1, <2>2 DEF Full, Inv, Endpoint, Owned
  <2>3. CASE sdev = None
    <3>1. PICK t \in Tasks : Answers(t) /\ ctx = dev[t]
      BY <2>1, <2>3 DEF Endpoint
    <3>2. Holds(t)
      BY <3>1 DEF Answers, Holds, Holding
    <3> QED  BY <1>1, <3>1, <3>2 DEF Full, Inv, Owned
  <2> QED  BY <2>2, <2>3
<1> QED  BY <1>1, Invariant, PTL

\* No removal is missed: a published device is on the bus, or the client is
\* about to be told that it went.
THEOREM NoRemovalMissed == Spec => []NotStale
<1>1. Full => NotStale
  BY DEF Full, Fresh, Here, Told, NotStale
<1> QED  BY <1>1, Invariant, PTL

-----------------------------------------------------------------------------
(* The probe of the newest dongle is kept *)

LEMMA Numbers ==
    ASSUME Full, Counts
    PROVE  /\ MaxPlugs \in Nat /\ plugs \in 0..MaxPlugs /\ Met \subseteq 0..MaxPlugs
           /\ \A i \in DOMAIN events : events[i] \in Event /\ events[i].dev \in 0..MaxPlugs
           /\ DOMAIN events = 1..Len(events) /\ Len(events) \in Nat
<1>1. \A t \in Tasks : dev[t] \in Dongle \cup {None}
  BY DEF Full, Inv, Values
<1>2. /\ Met \subseteq Dongle \cup {None} /\ MaxPlugs \in Nat
      /\ plugs \in 0..MaxPlugs /\ events \in Seq(Event)
  BY <1>1, BoundsAssumption DEF Met, Counts, Full, Inv, Values
<1>3. Dongle \cup {None} \subseteq 0..MaxPlugs
  BY <1>2 DEF Dongle, None
<1>4. DOMAIN events = 1..Len(events) /\ Len(events) \in Nat
      /\ \A i \in DOMAIN events : events[i] \in Event
  BY <1>2
<1>5. \A e \in Event : e.dev \in 0..MaxPlugs
  BY <1>3 DEF Event
<1> QED  BY <1>2, <1>3, <1>4, <1>5

\* Told of no new dongle, the bus and the tasks keep the order.
LEMMA OrderKept ==
    ASSUME Full, Counts, Order, UNCHANGED <<plugged, plugs>>,
           events' = events \/ (events # <<>> /\ events' = Tail(events)),
           Met' \subseteq Met \cup {None}, wanted' \in {wanted, None}
    PROVE  Order'
<1>1. PICK k \in {0, 1} : \A i \in DOMAIN events' :
         i \in Nat /\ i + k \in DOMAIN events /\ events'[i] = events[i + k]
  <2>1. events \in Seq(Event)
    BY DEF Full, Inv, Values
  <2>2. CASE events' = events
    BY <2>1, <2>2
  <2>3. CASE events # <<>> /\ events' = Tail(events)
    <3>1. \A i \in DOMAIN events' :
            i \in Nat /\ i + 1 \in DOMAIN events /\ events'[i] = events[i + 1]
      BY <2>1, <2>3
    <3> QED  BY <3>1
  <2> QED  BY <2>2, <2>3
<1>2. \A i \in DOMAIN events' : (Of(i)' <=> Of(i + k)) /\ (New(i)' <=> New(i + k))
  BY <1>1 DEF Of, New
<1>0. 0 <= plugs /\ \A i \in DOMAIN events : New(i) => 0 < events[i].dev
  BY Numbers DEF New, Full, Inv, Values, Dongle
<1>3. plugged' \in {None, plugs'} /\ \A m \in Met' : m <= plugs'
  BY <1>0 DEF Order, None
<1>4. \A i \in DOMAIN events' : Of(i)' =>
         wanted' <= events'[i].dev /\ events'[i].dev <= plugs'
  BY <1>1, <1>2, Numbers DEF Order, None
<1>5. \A i \in DOMAIN events' : New(i)' => \A m \in Met' : m < events'[i].dev
  BY <1>0, <1>1, <1>2 DEF Order, None
<1>6. \A i, j \in DOMAIN events' : i < j /\ Of(i)' /\ Of(j)' =>
         /\ events'[i].dev <= events'[j].dev
         /\ New(j)' => events'[i].dev < events'[j].dev
  <2> SUFFICES ASSUME NEW i \in DOMAIN events', NEW j \in DOMAIN events',
                      i < j, Of(i)', Of(j)'
               PROVE  /\ events'[i].dev <= events'[j].dev
                      /\ New(j)' => events'[i].dev < events'[j].dev
    OBVIOUS
  <2>1. i + k < j + k
    BY <1>1
  <2> QED  BY <1>1, <1>2, <2>1 DEF Order
<1>7. wanted' # None => \A m \in Met' : m <= wanted'
  <2>1. wanted \in Met /\ Met \subseteq Nat
    BY Numbers DEF Met
  <2> QED  BY <2>1 DEF Order, None
<1> QED  BY <1>3, <1>4, <1>5, <1>6, <1>7 DEF Order

\* An event that is told of comes last.
LEMMA OrderTold ==
    ASSUME Full, Counts, Order, NEW e \in Event, events' = Append(events, e),
           plugs' \in {plugs, plugs + 1}, plugged' \in {None, plugs'}, Met' = Met,
           wanted' = wanted,
           e.kind # "other" => e.dev = plugs',
           e.kind = "new" => plugs' = plugs + 1
    PROVE  Order'
<1>0. PICK last \in Nat : last = Len(events) + 1
  BY Numbers
<1>1. /\ DOMAIN events' = 1..last /\ events'[last] = e
      /\ \A i \in DOMAIN events : events'[i] = events[i]
  BY <1>0, Numbers DEF Full, Inv, Values
<1>2. \A i \in DOMAIN events' : i = last \/ i \in DOMAIN events
  BY <1>0, <1>1, Numbers
<1>3. \A i \in DOMAIN events : (Of(i)' <=> Of(i)) /\ (New(i)' <=> New(i))
  BY <1>1 DEF Of, New
<1>4. Met' \subseteq 0..MaxPlugs /\ plugs' \in Nat /\ plugs <= plugs' /\ wanted \in Met
  BY Numbers DEF Met
<1>5. \A m \in Met' : m <= plugs'
  BY <1>4, Numbers DEF Order
<1>6. \A i \in DOMAIN events' : Of(i)' =>
         wanted' <= events'[i].dev /\ events'[i].dev <= plugs'
  <2>1. \A i \in DOMAIN events : Of(i)' =>
           wanted' <= events'[i].dev /\ events'[i].dev <= plugs'
    BY <1>1, <1>3, <1>4, Numbers DEF Order
  <2>2. Of(last)' => wanted' <= e.dev /\ e.dev <= plugs'
    BY <1>1, <1>4, <1>5 DEF Of
  <2> QED  BY <1>1, <1>2, <2>1, <2>2
<1>7. \A i \in DOMAIN events' : New(i)' => \A m \in Met' : m < events'[i].dev
  <2>1. \A i \in DOMAIN events : New(i)' => \A m \in Met' : m < events'[i].dev
    BY <1>1, <1>3 DEF Order
  <2>2. New(last)' => \A m \in Met' : m < e.dev
    <3> SUFFICES ASSUME New(last)', NEW m \in Met' PROVE m < e.dev
      OBVIOUS
    <3>1. e.kind = "new" /\ e.dev = plugs + 1
      BY <1>1 DEF New
    <3>2. m <= plugs /\ m \in Nat
      BY <1>4 DEF Order
    <3> QED  BY <3>1, <3>2, Numbers
  <2> QED  BY <1>1, <1>2, <2>1, <2>2
<1>8. \A i, j \in DOMAIN events' : i < j /\ Of(i)' /\ Of(j)' =>
         /\ events'[i].dev <= events'[j].dev
         /\ New(j)' => events'[i].dev < events'[j].dev
  <2> SUFFICES ASSUME NEW i \in DOMAIN events', NEW j \in DOMAIN events',
                      i < j, Of(i)', Of(j)'
               PROVE  /\ events'[i].dev <= events'[j].dev
                      /\ New(j)' => events'[i].dev < events'[j].dev
    OBVIOUS
  <2>1. i \in DOMAIN events
    BY <1>0, <1>1, Numbers
  <2>2. CASE j \in DOMAIN events
    BY <1>1, <1>3, <2>1, <2>2 DEF Order
  <2>3. CASE j = last
    <3>1. events'[j] = e /\ events'[i] = events[i] /\ events[i].dev <= plugs /\ Of(i)
      BY <1>1, <1>3, <2>1, <2>3 DEF Order
    <3>2. e.dev = plugs' /\ (New(j)' => plugs' = plugs + 1)
      BY <3>1 DEF Of, New
    <3>3. events[i].dev \in Nat /\ plugs \in Nat
      BY <2>1, Numbers
    <3> QED  BY <1>4, <3>1, <3>2, <3>3
  <2> QED  BY <1>2, <2>2, <2>3
<1>9. wanted' # None => \A m \in Met' : m <= wanted'
  BY DEF Order
<1> QED  BY <1>5, <1>6, <1>7, <1>8, <1>9 DEF Order

LEMMA BusOrder == ASSUME Full, Counts, Order, Plug \/ Unplug \/ OtherGone PROVE Order'
<1>1. Met' = Met /\ wanted' = wanted
  BY DEF Plug, Unplug, OtherGone, Met, life
<1>2. CASE Plug
  <2> DEFINE e == [kind |-> "new", dev |-> plugs + 1]
  <2>1. /\ e \in Event /\ events' = Append(events, e)
        /\ plugs' = plugs + 1 /\ plugged' = plugs'
    BY <1>2, BoundsAssumption, Numbers DEF Plug, Tell, Event, Dongle
  <2> HIDE DEF e
  <2>2. e.kind = "new" /\ e.dev = plugs'
    BY <2>1 DEF e
  <2> QED  BY <1>1, <2>1, <2>2, OrderTold
<1>3. CASE Unplug
  <2>1. plugged = plugs /\ plugs' = plugs /\ plugged' = None
    BY <1>3 DEF Unplug, Order
  <2>2. CASE object[plugged] = "live"
    <3> DEFINE e == [kind |-> "gone", dev |-> plugs]
    <3>1. e \in Event /\ events' = Append(events, e) /\ e.kind = "gone" /\ e.dev = plugs'
      BY <1>3, <2>1, <2>2 DEF Unplug, Tell, Event, Full, Inv, Values
    <3> HIDE DEF e
    <3> QED  BY <1>1, <2>1, <3>1, OrderTold
  <2>3. CASE object[plugged] # "live"
    <3>1. events' = events
      BY <1>3, <2>3 DEF Unplug
    <3> QED  BY <1>1, <2>1, <3>1 DEF Order, Of, New
  <2> QED  BY <2>2, <2>3
<1>4. CASE OtherGone
  <2> DEFINE e == [kind |-> "other", dev |-> None]
  <2>1. e \in Event /\ events' = Append(events, e) /\ e.kind = "other"
        /\ plugs' = plugs /\ plugged' \in {None, plugs'}
    BY <1>4 DEF OtherGone, Tell, Event, Order
  <2> HIDE DEF e
  <2> QED  BY <1>1, <2>1, OrderTold
<1> QED  BY <1>2, <1>3, <1>4

LEMMA HandleNewOrder ==
    ASSUME Full, Counts, Order, HandleNew, plugged = Head(events).dev
    PROVE  /\ Order' /\ wanted' = plugged /\ wanted' # None /\ sdev = None
           /\ \A m \in Met : m < wanted'
<1> DEFINE d == Head(events).dev
<1>1. /\ events # <<>> /\ events' = Tail(events) /\ wanted' = d /\ plugged = d
      /\ UNCHANGED <<plugs, plugged, pending, sdev, late>>
      /\ dev' = [dev EXCEPT ![client] = d]
  BY DEF HandleNew, life
<1>2. /\ 1 \in DOMAIN events /\ d = events[1].dev /\ New(1) /\ Of(1) /\ d \in Dongle
      /\ \A i \in DOMAIN events' :
            i \in Nat \ {0} /\ i + 1 \in DOMAIN events /\ events'[i] = events[i + 1]
  <2>1. events \in Seq(Event)
    BY DEF Full, Inv, Values
  <2>2. /\ 1 \in DOMAIN events /\ Head(events) = events[1]
        /\ \A i \in DOMAIN events' :
              i \in Nat \ {0} /\ i + 1 \in DOMAIN events /\ events'[i] = events[i + 1]
    BY <1>1, <2>1
  <2>3. New(1) /\ Of(1)
    BY <2>2 DEF HandleNew, New, Of
  <2>4. events[1].dev \in Dongle
    BY <2>2, <2>3 DEF Full, Inv, Values, New
  <2> QED  BY <2>2, <2>3, <2>4
<1> HIDE DEF d
<1>3. \A m \in Met : m < d
  BY <1>2 DEF Order
<1>4. Met' \subseteq Met \cup {d}
  <2>1. \A t \in Tasks : dev'[t] \in {dev[t], d}
    BY <1>1 DEF Full, Inv, Values
  <2> QED  BY <1>1, <2>1 DEF Met
<1>5. \A i \in DOMAIN events' : (Of(i)' <=> Of(i + 1)) /\ (New(i)' <=> New(i + 1))
  BY <1>2 DEF Of, New
<1>6. d \in Nat /\ d <= plugs /\ Met \subseteq Nat /\ plugs \in Nat
  BY <1>2, Numbers DEF Order
<1>7. plugged' \in {None, plugs'} /\ \A m \in Met' : m <= plugs'
  BY <1>1, <1>4, <1>6 DEF Order
<1>8. \A i \in DOMAIN events' : Of(i)' =>
         wanted' <= events'[i].dev /\ events'[i].dev <= plugs'
  <2> SUFFICES ASSUME NEW i \in DOMAIN events', Of(i)'
               PROVE  wanted' <= events'[i].dev /\ events'[i].dev <= plugs'
    OBVIOUS
  <2>1. 1 < i + 1 /\ i + 1 \in DOMAIN events /\ Of(i + 1)
    BY <1>2, <1>5
  <2>2. d <= events[i + 1].dev /\ events[i + 1].dev <= plugs
    BY <1>2, <2>1 DEF Order
  <2> QED  BY <1>1, <1>2, <2>2
<1>9. \A i \in DOMAIN events' : New(i)' => \A m \in Met' : m < events'[i].dev
  <2> SUFFICES ASSUME NEW i \in DOMAIN events', New(i)', NEW m \in Met'
               PROVE  m < events'[i].dev
    OBVIOUS
  <2>1. 1 < i + 1 /\ i + 1 \in DOMAIN events /\ New(i + 1) /\ Of(i + 1)
    BY <1>2, <1>5 DEF New, Of
  <2>2. d < events[i + 1].dev
    BY <1>2, <2>1 DEF Order
  <2>3. m \in Met => m < events[i + 1].dev
    BY <2>1 DEF Order
  <2> QED  BY <1>2, <1>4, <2>2, <2>3
<1>10. \A i, j \in DOMAIN events' : i < j /\ Of(i)' /\ Of(j)' =>
         /\ events'[i].dev <= events'[j].dev
         /\ New(j)' => events'[i].dev < events'[j].dev
  <2> SUFFICES ASSUME NEW i \in DOMAIN events', NEW j \in DOMAIN events',
                      i < j, Of(i)', Of(j)'
               PROVE  /\ events'[i].dev <= events'[j].dev
                      /\ New(j)' => events'[i].dev < events'[j].dev
    OBVIOUS
  <2>1. i + 1 < j + 1
    BY <1>2
  <2> QED  BY <1>2, <1>5, <2>1 DEF Order
<1>11. \A m \in Met' : m <= wanted'
  BY <1>1, <1>3, <1>4, <1>6
<1>12. ASSUME sdev # None PROVE FALSE
  <2>1. sdev \in Met /\ Here(sdev)
    BY <1>12 DEF Met, Full, Fresh
  <2>2. sdev < d /\ sdev \in Nat
    BY <1>3, <1>6, <2>1
  <2>3. PICK i \in DOMAIN events : events[i] = [kind |-> "gone", dev |-> sdev]
    BY <1>1, <1>6, <2>1, <2>2 DEF Here, Told
  <2>4. Of(i) /\ ~New(i) /\ i # 1 /\ events[i].dev = sdev
    BY <1>2, <2>3 DEF Of, New
  <2>5. 1 < i
    BY <2>3, <2>4, Numbers
  <2>6. d <= sdev
    BY <1>2, <2>4, <2>5 DEF Order
  <2> QED  BY <1>6, <2>2, <2>6
<1>13. Order' /\ wanted' # None
  BY <1>1, <1>2, <1>7, <1>8, <1>9, <1>10, <1>11, NoDongle DEF Order
<1> QED  BY <1>1, <1>3, <1>12, <1>13

\* A dongle that is here, or that the client is still to be told of as gone, is
\* the one that is wanted, if any is.
LEMMA HereWanted ==
    ASSUME Full, Counts, Order, wanted # None, NEW d \in Met, d \in Dongle, Here(d)
    PROVE  d = wanted
<1>1. d <= wanted /\ wanted <= plugs /\ wanted \in Nat /\ d \in Nat /\ plugs \in Nat
  BY Numbers DEF Order, Met
<1>2. CASE d = plugged
  BY <1>1, <1>2, NoDongle DEF Order
<1>3. CASE Told(d)
  <2>1. PICK i \in DOMAIN events : events[i] = [kind |-> "gone", dev |-> d]
    BY <1>3 DEF Told
  <2>2. wanted <= d
    BY <2>1 DEF Order, Of
  <2> QED  BY <1>1, <2>2
<1> QED  BY <1>2, <1>3 DEF Here

\* What a step does that leaves the probes alone.
LEMMA StillKept ==
    ASSUME Unserved, ProbeKept, UNCHANGED <<wanted, overtaken, late, at, dev, life, mine>>
    PROVE  Unserved' /\ ProbeKept'
BY DEF Unserved, ProbeKept, InHand, life, mine

Kept == Order /\ Unserved /\ ProbeKept

LEMMA BusKept == ASSUME Full, Counts, Kept, Plug \/ Unplug \/ OtherGone PROVE Kept'
<1>1. UNCHANGED <<wanted, overtaken, late, at, dev, life, mine>>
  BY DEF Plug, Unplug, OtherGone, tally
<1> QED  BY <1>1, StillKept, BusOrder DEF Kept

LEMMA LeaseKept ==
    ASSUME Full, Counts, Kept, Leases \/ DriverReturns \/ UNCHANGED vars
    PROVE  Kept'
<1>1. UNCHANGED <<wanted, overtaken, late, at, dev, life, mine, bus>>
  BY DEF Leases, DriverReturns, vars, tally
<1>2. Met' = Met
  BY <1>1 DEF Met, life
<1>3. Order'
  BY <1>1, <1>2, OrderKept DEF Kept, bus
<1> QED  BY <1>1, <1>3, StillKept DEF Kept

\* After a removal nothing is wanted until the next dongle comes.
LEMMA ClaimsKept ==
    ASSUME Full, Counts, Kept, NEW t \in Remover, NEW d \in {sdev, None}, Claims(t, d),
           UNCHANGED <<plugged, plugs, pending, late, mine>>,
           events' = events \/ (events # <<>> /\ events' = Tail(events))
    PROVE  Kept'
<1>1. t \in Tasks /\ t # setup /\ setup \in Tasks
  BY TasksAre
<1>2. wanted' = None /\ at'[setup] = at[setup]
  BY <1>1 DEF Claims, Goto, Full, Inv, Values
<1>3. \A u \in Tasks : dev'[u] \in {dev[u], sdev}
  BY <1>1 DEF Claims, Full, Inv, Values
<1>4. sdev' \in {sdev, None} /\ (sdev' # sdev => d # None)
  BY DEF Claims
<1>5. Met' \subseteq Met \cup {None}
  BY <1>2, <1>3, <1>4 DEF Met
<1>6. Order'
  BY <1>2, <1>5, OrderKept DEF Kept
<1>7. Unserved'
  BY <1>2 DEF Kept, Unserved, mine
<1>8. ProbeKept'
  BY <1>2 DEF ProbeKept
<1> QED  BY <1>6, <1>7, <1>8 DEF Kept

LEMMA HandleNewKept == ASSUME Full, Counts, Kept, HandleNew PROVE Kept'
<1>1. /\ UNCHANGED <<plugged, plugs, life, mine, late, overtaken>>
      /\ events # <<>> /\ events' = Tail(events)
      /\ client \in Tasks /\ setup \in Tasks /\ setup # client /\ client \in Remover
  BY TasksAre DEF HandleNew, tally, Remover
<1>2. CASE plugged = Head(events).dev
  <2>1. /\ Order' /\ wanted' = plugged /\ wanted' # None /\ sdev = None
        /\ \A m \in Met : m < wanted'
    BY <1>2, HandleNewOrder DEF Kept
  <2>2. /\ at'[client] = "probe" /\ dev'[client] = wanted'
        /\ at'[setup] = at[setup] /\ dev'[setup] = dev[setup]
    BY <1>1, <1>2, <2>1 DEF HandleNew, Goto, Full, Inv, Values
  <2>3. dev[setup] \in Met /\ Met \subseteq Nat /\ plugged \in Nat
    BY <1>1, Numbers DEF Met, Full, Inv, Values, Dongle, None
  <2>4. dev[setup] # wanted'
    BY <2>1, <2>3
  <2>5. Unserved'
    BY <1>1, <2>1, <2>2, <2>4 DEF Kept, Unserved, life, mine
  <2>6. ProbeKept'
    BY <1>1, <2>2 DEF ProbeKept, InHand
  <2> QED  BY <2>1, <2>5, <2>6 DEF Kept
<1>3. CASE plugged # Head(events).dev
  <2>1. UNCHANGED <<at, dev, wanted>>
    BY <1>3 DEF HandleNew
  <2>2. Met' = Met
    BY <1>1, <2>1 DEF Met, life
  <2> QED  BY <1>1, <2>1, <2>2, OrderKept, StillKept DEF Kept
<1> QED  BY <1>2, <1>3

LEMMA GivesBackKept ==
    ASSUME Full, Counts, Kept, NEW t \in Tasks,
           Unregister(t) \/ Unregistered(t) \/ Close(t)
    PROVE  Kept'
<1>1. /\ UNCHANGED <<bus, life, dev, mine, late, wanted, overtaken>>
      /\ at[t] \in {"unregister", "wait", "close"}
  BY DEF Unregister, Unregistered, Close, tally
<1>2. PICK p \in {"wait", "close", "finish"} : at' = [at EXCEPT ![t] = p]
  BY DEF Unregister, Unregistered, Close, Goto
<1>3. at'[t] = p /\ \A u \in Tasks \ {t} : at'[u] = at[u]
  BY <1>2 DEF Full, Inv, Values
<1>4. \A u \in Tasks : at'[u] \in {"probe", "open", "check", "register", "publish"}
                       \/ at[u] \in {"probe", "open", "check", "register", "publish"}
                       => at'[u] = at[u]
  BY <1>1, <1>3
<1>5. Met' = Met
  BY <1>1 DEF Met, life
<1>6. Order'
  BY <1>1, <1>5, OrderKept DEF Kept, bus
<1>7. Unserved'
  BY <1>1, <1>4, TasksAre DEF Kept, Unserved, life, mine
<1>8. ProbeKept'
  <2>1. InHand(wanted) => InHand(wanted)'
    BY <1>1, <1>4, TasksAre DEF InHand, life, mine
  <2> QED  BY <1>1, <2>1 DEF Kept, ProbeKept
<1> QED  BY <1>6, <1>7, <1>8 DEF Kept

\* The end of a removal or of a setup makes the probe that waits, or leaves it to
\* the other.
LEMMA FinishKept == ASSUME Full, Counts, Kept, NEW t \in Remover, Finish(t) PROVE Kept'
<1>1. /\ UNCHANGED <<bus, setupOn, mine, late, wanted, overtaken, sdev, pendingGen, gen>>
      /\ at[t] = "finish" /\ cleanupOn' = FALSE
  BY DEF Finish, Finishes, tally
<1>2. /\ t \in Tasks /\ setup \in Tasks /\ t # setup /\ setupOn \in BOOLEAN
      /\ Remover \subseteq Tasks
  BY TasksAre DEF Full, Inv, Flags
<1>3. /\ \A u \in Tasks \ {t} : at'[u] = at[u] /\ dev'[u] = dev[u]
      /\ at'[t] \in {"probe", "idle"} /\ dev'[t] \in {dev[t], pending}
      /\ Probes(setupOn) => at'[t] = "probe" /\ dev'[t] = pending
  BY <1>2 DEF Finish, Goto, Full, Inv, Values
<1>4. Met' \subseteq Met \cup {None}
  <2>1. pending' \in {pending, None}
    BY DEF Finish, Finishes
  <2>2. \A u \in Tasks : dev'[u] \in {dev[u], pending}
    BY <1>3
  <2> QED  BY <1>1, <2>1, <2>2 DEF Met
<1>5. Order'
  BY <1>1, <1>4, OrderKept DEF Kept, bus
<1>6. Unserved'
  BY <1>1, <1>2, <1>3 DEF Kept, Unserved, mine
<1>7. ASSUME wanted # None, InHand(wanted) PROVE InHand(wanted)'
  <2>1. CASE pending = wanted /\ pendingGen = gen /\ (setupOn \/ cleanupOn)
    <3>1. CASE Probes(setupOn)
      BY <1>1, <1>3, <2>1, <3>1 DEF InHand
    <3>2. CASE ~Probes(setupOn)
      <4>1. setupOn
        BY <1>7, <2>1, <3>2 DEF Probes, Kept, Unserved
      <4>2. pending' = pending
        BY <2>1, <3>2 DEF Finish, Finishes
      <4> QED  BY <1>1, <2>1, <4>1, <4>2 DEF InHand
    <3> QED  BY <3>1, <3>2
  <2>2. CASE wanted \in late
    BY <1>1, <2>2 DEF InHand
  <2>3. CASE \E u \in Remover : at[u] = "probe" /\ dev[u] = wanted
    BY <1>1, <1>2, <1>3, <2>3 DEF InHand
  <2>4. CASE /\ at[setup] \in {"open", "check", "register", "publish"}
             /\ dev[setup] = wanted /\ setupGen = gen
    BY <1>1, <1>2, <1>3, <2>4 DEF InHand, mine
  <2> QED  BY <1>7, <2>1, <2>2, <2>3, <2>4 DEF InHand
<1>8. ProbeKept'
  BY <1>1, <1>7 DEF Kept, ProbeKept
<1> QED  BY <1>5, <1>6, <1>8 DEF Kept

LEMMA FinishSetupKept == ASSUME Full, Counts, Kept, FinishSetup PROVE Kept'
<1>1. /\ UNCHANGED <<bus, cleanupOn, dev, mine, wanted, overtaken, sdev, pendingGen, gen>>
      /\ at[setup] = "finish"
      /\ late' = IF Probes(cleanupOn) THEN late \cup {pending} ELSE late
  BY DEF FinishSetup, Finishes, tally
<1>2. setup \in Tasks /\ setup \notin Remover /\ Remover \subseteq Tasks
  BY TasksAre
<1>3. at'[setup] = "idle" /\ \A u \in Tasks \ {setup} : at'[u] = at[u]
  BY <1>2 DEF FinishSetup, Goto, Full, Inv, Values
<1>4. Met' \subseteq Met \cup {None}
  <2>1. pending' \in {pending, None} /\ late' \subseteq late \cup {pending}
    BY <1>1 DEF FinishSetup, Finishes
  <2> QED  BY <1>1, <2>1 DEF Met
<1>5. Order'
  BY <1>1, <1>4, OrderKept DEF Kept, bus
<1>6. Unserved'
  BY <1>1, <1>3 DEF Kept, Unserved, mine
<1>7. ASSUME wanted # None, InHand(wanted) PROVE InHand(wanted)'
  <2>1. CASE pending = wanted /\ pendingGen = gen /\ (setupOn \/ cleanupOn)
    <3>1. CASE Probes(cleanupOn)
      BY <1>1, <2>1, <3>1 DEF InHand
    <3>2. CASE ~Probes(cleanupOn)
      <4>1. cleanupOn
        BY <1>7, <2>1, <3>2 DEF Probes, Kept, Unserved
      <4>2. pending' = pending
        BY <2>1, <3>2 DEF FinishSetup, Finishes
      <4> QED  BY <1>1, <2>1, <4>1, <4>2 DEF InHand
    <3> QED  BY <3>1, <3>2
  <2>2. CASE wanted \in late
    BY <1>1, <2>2 DEF InHand
  <2>3. CASE \E u \in Remover : at[u] = "probe" /\ dev[u] = wanted
    BY <1>1, <1>2, <1>3, <2>3 DEF InHand
  <2> QED  BY <1>1, <1>7, <2>1, <2>2, <2>3 DEF InHand
<1>8. ProbeKept'
  BY <1>1, <1>7 DEF Kept, ProbeKept
<1> QED  BY <1>5, <1>6, <1>8 DEF Kept

\* A probe starts the setup or waits; what it replaces is older or the same, or
\* else it is overtaken.
LEMMA StartsKept ==
    ASSUME Full, Counts, Kept, NEW d \in Met, d \in Dongle, StartsSetup(d),
           at'[setup] = IF Starts THEN "open" ELSE at[setup],
           dev' = [dev EXCEPT ![setup] = IF Starts THEN d ELSE @],
           UNCHANGED <<bus, sdev, cleanupOn, gen, wanted>>,
           late' \subseteq late, \A x \in late : x # d => x \in late',
           \A u \in Remover : at[u] = "probe" /\ dev[u] # d => at'[u] = "probe"
    PROVE  Kept'
<1>1. setup \in Tasks /\ setup \notin Remover /\ Remover \subseteq Tasks
  BY TasksAre
<1>2. /\ \A u \in Tasks \ {setup} : dev'[u] = dev[u]
      /\ dev'[setup] = IF Starts THEN d ELSE dev[setup]
  BY <1>1 DEF Full, Inv, Values
<1>3. Met' \subseteq Met \cup {None}
  <2>1. pending' \in {pending, d}
    BY DEF StartsSetup
  <2>2. \A u \in Tasks : dev'[u] \in {dev[u], d}
    BY <1>2
  <2> QED  BY <2>1, <2>2 DEF Met
<1>4. Order'
  BY <1>3, OrderKept DEF Kept, bus
<1>5. CASE Starts
  <2>1. /\ setupGen' = gen' /\ tries' = 0 /\ setupOn = FALSE /\ cleanupOn = FALSE
        /\ overtaken' = overtaken
    BY <1>5 DEF Starts, StartsSetup, Full, Inv, Flags
  <2>2. at[setup] = "idle" /\ at'[setup] = "open" /\ dev'[setup] = d
    BY <1>2, <1>5, <2>1 DEF Full, Inv, Roles
  <2>3. Unserved'
    BY <2>1, <2>2 DEF Kept, Unserved
  <2>4. ASSUME InHand(wanted) PROVE InHand(wanted)'
    <3>1. CASE wanted = d
      BY <2>1, <2>2, <3>1 DEF InHand
    <3>2. CASE wanted # d
      BY <1>1, <1>2, <2>1, <2>2, <2>4, <3>2 DEF InHand
    <3> QED  BY <3>1, <3>2
  <2>5. ProbeKept'
    BY <2>1, <2>4 DEF Kept, ProbeKept
  <2> QED  BY <1>4, <2>3, <2>5 DEF Kept
<1>6. CASE ~Starts
  <2>1. UNCHANGED <<setupOn, setupGen, tries, registered>> /\ dev'[setup] = dev[setup]
        /\ at'[setup] = at[setup]
    BY <1>2, <1>6 DEF Starts, StartsSetup
  <2>2. Unserved'
    BY <2>1 DEF Kept, Unserved
  <2>3. ASSUME wanted # None, ~overtaken' PROVE ~overtaken /\ (InHand(wanted) => InHand(wanted)')
    <3>1. setupOn \/ cleanupOn
      BY <1>6, <2>3 DEF Starts, Kept, Unserved
    <3>2. pending' = d /\ pendingGen' = gen' /\ ~overtaken /\ ~Overtakes(d)
      BY <2>3, <3>1 DEF StartsSetup
    <3>3. CASE wanted = d
      BY <2>1, <3>1, <3>2, <3>3 DEF InHand
    <3>4. CASE wanted # d
      <4>1. d < wanted
        <5>1. d <= wanted
          BY <2>3 DEF Kept, Order
        <5>2. d \in Nat /\ wanted \in Nat
          BY Numbers DEF Met
        <5> QED  BY <3>4, <5>1, <5>2
      <4>2. ~(pending = wanted /\ pendingGen = gen)
        BY <3>2, <4>1 DEF Overtakes
      <4> QED  BY <1>1, <1>2, <2>1, <3>2, <3>4, <4>2 DEF InHand
    <3> QED  BY <3>2, <3>3, <3>4
  <2>4. ProbeKept'
    BY <2>3 DEF Kept, ProbeKept
  <2> QED  BY <1>4, <2>2, <2>4 DEF Kept
<1> QED  BY <1>5, <1>6

LEMMA ProbesKept ==
    ASSUME Full, Counts, Kept, (\E t \in Remover : Probe(t)) \/ ProbeLate
    PROVE  Kept'
<1>1. setup \in Tasks /\ setup \notin Remover /\ Remover \subseteq Tasks
      /\ at \in [Tasks -> Places] /\ late \subseteq Dongle
  BY TasksAre DEF Full, Inv, Values
<1>2. ASSUME NEW t \in Remover, Probe(t) PROVE Kept'
  <2>1. dev[t] \in Dongle /\ dev[t] \in Met /\ at[t] = "probe"
    BY <1>1, <1>2 DEF Probe, Met, Full, Inv, Roles
  <2>2. /\ \A u \in Remover : u # t => at'[u] = at[u]
        /\ at'[setup] = IF Starts THEN "open" ELSE at[setup]
    BY <1>1, <1>2 DEF Probe
  <2>3. \A u \in Remover : at[u] = "probe" /\ dev[u] # dev[t] => at'[u] = "probe"
    BY <2>2
  <2> QED  BY <1>2, <2>1, <2>2, <2>3, StartsKept DEF Probe
<1>3. ASSUME NEW d \in late, late' = late \ {d}, StartsSetup(d),
             at' = [at EXCEPT ![setup] = IF Starts THEN "open" ELSE @],
             dev' = [dev EXCEPT ![setup] = IF Starts THEN d ELSE @],
             UNCHANGED <<bus, sdev, cleanupOn, gen, wanted>>
      PROVE  Kept'
  <2>1. d \in Dongle /\ d \in Met
    BY <1>1 DEF Met
  <2>2. /\ \A u \in Remover : at'[u] = at[u]
        /\ at'[setup] = IF Starts THEN "open" ELSE at[setup]
    BY <1>1, <1>3
  <2> QED  BY <1>3, <2>1, <2>2, StartsKept
<1> QED  BY <1>2, <1>3 DEF ProbeLate

LEMMA NoMemoryKept == ASSUME Full, Counts, Kept, NoMemory PROVE Kept'
<1>1. UNCHANGED <<bus, life, dev, mine, overtaken>> /\ late' \subseteq late
  BY DEF NoMemory, tally
<1>2. setup \in Tasks /\ setup \notin Remover /\ Remover \subseteq Tasks
      /\ at \in [Tasks -> Places]
  BY TasksAre DEF Full, Inv, Values
<1>3. PICK d : /\ Served(d)
               /\ \A x \in late : x # d => x \in late'
               /\ \A u \in Remover : at[u] = "probe" /\ dev[u] # d => at'[u] = "probe"
               /\ at'[setup] = at[setup]
  BY <1>2 DEF NoMemory, Goto
<1>4. wanted' \in {wanted, None} /\ (wanted' # None => wanted' = wanted /\ wanted # d)
  BY <1>3 DEF Served
<1>5. Met' \subseteq Met \cup {None}
  BY <1>1, <1>4 DEF Met, life
<1>6. Order'
  BY <1>1, <1>4, <1>5, OrderKept DEF Kept, bus
<1>7. Unserved'
  BY <1>1, <1>3, <1>4 DEF Kept, Unserved, life, mine
<1>8. ProbeKept'
  <2> SUFFICES ASSUME wanted' # None, ~overtaken' PROVE InHand(wanted)'
    BY DEF ProbeKept
  <2>1. InHand(wanted) /\ wanted' = wanted /\ wanted # d
    BY <1>1, <1>4 DEF Kept, ProbeKept
  <2> QED  BY <1>1, <1>2, <1>3, <2>1 DEF InHand, life, mine
<1> QED  BY <1>6, <1>7, <1>8 DEF Kept

\* The setup task: it goes on with the probe in its hands, or serves it.
LEMMA SetupKept ==
    ASSUME Full, Counts, Kept, NEW p \in Places, at' = [at EXCEPT ![setup] = p],
           UNCHANGED <<bus, setupOn, cleanupOn, pending, pendingGen, gen, dev,
                       setupGen, late, overtaken>>,
           sdev' \in Met, Served(dev[setup]) \/ wanted' = wanted, p # "open",
           wanted' # None =>
              /\ sdev' = sdev
              /\ wanted # dev[setup] \/ setupGen # gen
                 \/ /\ p \in SettingUp
                    /\ p = "publish" => registered'
                    /\ p = "check" => tries' # Attempts
    PROVE  Kept'
<1>1. setup \in Tasks /\ setup \notin Remover /\ Remover \subseteq Tasks
  BY TasksAre
<1>2. at'[setup] = p /\ \A u \in Tasks \ {setup} : at'[u] = at[u]
  BY <1>1 DEF Full, Inv, Values
<1>3. wanted' \in {wanted, None}
  BY DEF Served
<1>4. Met' \subseteq Met \cup {None}
  BY <1>3 DEF Met
<1>5. Order'
  BY <1>3, <1>4, OrderKept DEF Kept, bus
<1>6. Unserved'
  BY <1>2, <1>3 DEF Kept, Unserved
<1>7. ProbeKept'
  <2> SUFFICES ASSUME wanted' # None, ~overtaken' PROVE InHand(wanted)'
    BY DEF ProbeKept
  <2>1. InHand(wanted) /\ wanted' = wanted
    BY <1>3 DEF Kept, ProbeKept
  <2>2. CASE wanted = dev[setup] /\ setupGen = gen
    BY <1>2, <2>1, <2>2 DEF InHand, SettingUp
  <2>3. CASE ~(wanted = dev[setup] /\ setupGen = gen)
    BY <1>1, <1>2, <2>1, <2>3 DEF InHand
  <2> QED  BY <2>2, <2>3
<1> QED  BY <1>5, <1>6, <1>7 DEF Kept

LEMMA SetupStepsKept ==
    ASSUME Full, Counts, Kept,
           SetupFails \/ Open \/ CheckCancelled \/ RegisterEndpoint \/ Publish
    PROVE  Kept'
<1>1. /\ setup \in Tasks /\ sdev \in Met /\ dev[setup] \in Met
      /\ Attempts \in Nat \ {0}
  BY TasksAre, BoundsAssumption DEF Met
<1>2. CASE SetupFails
  <2>1. wanted' # None => wanted # dev[setup]
    BY <1>2 DEF SetupFails, Served
  <2> QED  BY <1>1, <1>2, <2>1, SetupKept DEF SetupFails, Goto, Places, life, mine, tally
<1>3. CASE Open
  <2>1. tries' # Attempts
    BY <1>1, <1>3 DEF Open, mine, Kept, Unserved
  <2> QED
    BY <1>1, <1>3, <2>1, SetupKept DEF Open, Goto, Places, SettingUp, life, mine, tally
<1>4. CASE CheckCancelled
  <2>1. PICK p \in {"publish", "register"} :
          /\ at' = [at EXCEPT ![setup] = p]
          /\ p = "publish" => setupGen # gen \/ tries = Attempts
    BY <1>4 DEF CheckCancelled, Goto
  <2>2. at[setup] = "check" /\ wanted' = wanted
    BY <1>4 DEF CheckCancelled
  <2>3. wanted # None /\ wanted = dev[setup] /\ setupGen = gen => p = "register"
    BY <2>1, <2>2 DEF Kept, Unserved
  <2> QED
    BY <1>1, <1>4, <2>1, <2>2, <2>3, SetupKept
       DEF CheckCancelled, Places, SettingUp, life, mine, tally
<1>5. CASE RegisterEndpoint
  <2>1. PICK p \in {"publish", "check"} :
          /\ at' = [at EXCEPT ![setup] = p]
          /\ p = "publish" => registered' \/ Served(dev[setup])
          /\ p = "check" => tries' # Attempts \/ Served(dev[setup])
    BY <1>5 DEF RegisterEndpoint, Goto
  <2>2. Served(dev[setup]) \/ wanted' = wanted
    BY <1>5 DEF RegisterEndpoint
  <2>3. Served(dev[setup]) /\ wanted' # None => wanted # dev[setup]
    BY DEF Served
  <2> QED
    BY <1>1, <1>5, <2>1, <2>2, <2>3, SetupKept
       DEF RegisterEndpoint, Places, SettingUp, life, mine, tally
<1>6. CASE Publish
  <2>1. at[setup] = "publish" /\ dev[setup] \in Dongle
    BY <1>1, <1>6 DEF Publish, Full, Inv, Owned, Holds, Holding
  <2>2. CASE registered /\ setupGen = gen
    <3>1. sdev' = dev[setup] /\ Served(dev[setup])
      BY <1>6, <2>2 DEF Publish
    <3>2. wanted # None => dev[setup] = wanted
      BY <1>1, <2>1, <2>2, HereWanted DEF Kept, Full, Fresh
    <3>3. wanted' = None
      BY <3>1, <3>2 DEF Served
    <3> QED
      BY <1>1, <1>6, <2>2, <3>1, <3>3, SetupKept DEF Publish, Goto, Places, mine, tally
  <2>3. CASE ~(registered /\ setupGen = gen)
    <3>1. PICK p \in {"unregister", "close"} : at' = [at EXCEPT ![setup] = p]
      BY <1>6, <2>3 DEF Publish, Goto
    <3>2. wanted' = wanted /\ sdev' = sdev
      BY <1>6, <2>3 DEF Publish
    <3>3. wanted # None /\ wanted = dev[setup] => setupGen # gen
      BY <2>1, <2>3 DEF Kept, Unserved
    <3> QED
      BY <1>1, <1>6, <3>1, <3>2, <3>3, SetupKept DEF Publish, Places, mine, tally
  <2> QED  BY <2>2, <2>3
<1> QED  BY <1>2, <1>3, <1>4, <1>5, <1>6

LEMMA KeptInit == Init => Kept
<1> SUFFICES ASSUME Init PROVE Kept
  OBVIOUS
<1>1. Met \subseteq {None} /\ events = <<>>
  BY DEF Init, Met
<1>2. Order
  BY <1>1 DEF Init, Order, None
<1>3. Unserved /\ ProbeKept
  BY TasksAre DEF Init, Unserved, ProbeKept
<1> QED  BY <1>2, <1>3 DEF Kept

LEMMA KeptStep == ASSUME Full, Counts, Kept, [Next]_vars PROVE Kept'
<1>1. CASE Detach
  BY <1>1, ClaimsKept DEF Detach, Remover, bus
<1>2. CASE HandleGone
  BY <1>2, ClaimsKept DEF HandleGone, Remover
<1>3. ASSUME NEW t \in Remover, Removes(t) PROVE Kept'
  BY <1>3, TasksAre, GivesBackKept, FinishKept, ProbesKept DEF Removes
<1>4. CASE Client
  BY <1>2, <1>3, <1>4, HandleNewKept DEF Client, Remover
<1>5. CASE Removes(console)
  BY <1>3, <1>5 DEF Remover
<1>6. CASE SetUp
  BY <1>6, TasksAre, SetupStepsKept, GivesBackKept, FinishSetupKept DEF SetUp
<1> QED
  BY <1>1, <1>4, <1>5, <1>6, BusKept, LeaseKept, ProbesKept, NoMemoryKept DEF Next

\* The probe of the dongle that came last is lost by no setup and no removal: as
\* long as no older one has overtaken it, it is in somebody's hands until it is
\* served (finish_lifecycle, rtl_adapter_probe_async).
THEOREM NoProbeLost == Spec => []ProbeKept
<1>1. Full /\ Full' /\ Counts /\ [Next]_vars => Counts'
  BY CountsStep
<1>2. Full /\ Counts /\ Kept /\ [Next]_vars => Kept'
  BY KeptStep
<1>3. Kept => ProbeKept
  BY DEF Kept
<1> QED  BY <1>1, <1>2, <1>3, CountsInit, KeptInit, Invariant, PTL DEF Spec

\* A dongle is wanted only while none is published, whatever the order of what
\* the bus tells: a probe for the newest is never dropped because an older
\* device still stands (the third case of rtl_adapter_probe_async).
THEOREM NoneInTheWay == Spec => [](wanted # None => sdev = None)
<1>1. Full /\ Full' /\ Counts /\ [Next]_vars => Counts'
  BY CountsStep
<1>2. Full /\ Counts /\ Kept /\ [Next]_vars => Kept'
  BY KeptStep
<1>3. Kept => (wanted # None => sdev = None)
  BY DEF Kept, Unserved
<1> QED  BY <1>1, <1>2, <1>3, CountsInit, KeptInit, Invariant, PTL DEF Spec
=============================================================================
