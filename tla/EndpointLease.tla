---------------------------- MODULE EndpointLease ----------------------------
(***************************************************************************)
(* What the endpoint registry promises of one receiver, without saying     *)
(* how: a device is given back only when nobody is inside it, and a lease  *)
(* ends only when nobody who uses it is inside.                            *)
(***************************************************************************)
CONSTANT Task

VARIABLES
    phase,  \* the device: absent, present, recovering or removing
    lease,  \* free, held or closing
    users,  \* the tasks inside on behalf of a session
    guests  \* the tasks inside a front-end call, which needs no lease

leaseVars == <<phase, lease, users, guests>>

LeaseTypeOK ==
    /\ phase \in {"absent", "present", "recovering", "removing"}
    /\ lease \in {"free", "held", "closing"}
    /\ users \in SUBSET Task
    /\ guests \in SUBSET Task

LeaseInit == phase = "absent" /\ lease = "free" /\ users = {} /\ guests = {}

Empty == users = {} /\ guests = {}

\* A new device comes to an empty, unleased place.
Attach ==
    /\ phase = "absent" /\ lease = "free" /\ Empty
    /\ phase' = "present"
    /\ UNCHANGED <<lease, users, guests>>

BeginDetach ==
    /\ phase = "present" /\ phase' = "removing"
    /\ UNCHANGED <<lease, users, guests>>

EndDetach ==
    /\ phase = "removing" /\ Empty
    /\ phase' = "absent"
    /\ UNCHANGED <<lease, users, guests>>

BeginRecovery ==
    /\ phase = "present" /\ lease = "free"
    /\ phase' = "recovering"
    /\ UNCHANGED <<lease, users, guests>>

EndRecovery ==
    /\ phase = "recovering" /\ phase' = "present"
    /\ UNCHANGED <<lease, users, guests>>

Lease ==
    /\ phase \in {"present", "recovering"} /\ lease = "free"
    /\ lease' = "held"
    /\ UNCHANGED <<phase, users, guests>>

\* The task that closes the lease goes in once more, to stop the stream.
Close(t) ==
    /\ lease = "held" /\ lease' = "closing"
    /\ users' \in {users, users \cup {t}}
    /\ UNCHANGED <<phase, guests>>

EndClose ==
    /\ lease = "closing" /\ users = {}
    /\ lease' = "free"
    /\ UNCHANGED <<phase, users, guests>>

UserEnter(t) ==
    /\ t \notin users
    /\ \/ phase = "present" /\ lease # "closing"
       \/ phase = "recovering" /\ lease = "held"
    /\ users' = users \cup {t}
    /\ UNCHANGED <<phase, lease, guests>>

GuestEnter(t) ==
    /\ t \notin guests /\ phase = "present"
    /\ guests' = guests \cup {t}
    /\ UNCHANGED <<phase, lease, users>>

Exit(t) ==
    /\ t \in users \cup guests
    /\ users' = users \ {t} /\ guests' = guests \ {t}
    /\ UNCHANGED <<phase, lease>>

LeaseNext ==
    \/ Attach \/ BeginDetach \/ EndDetach \/ BeginRecovery \/ EndRecovery
    \/ Lease \/ EndClose
    \/ \E t \in Task : Close(t) \/ UserEnter(t) \/ GuestEnter(t) \/ Exit(t)

LeaseSpec == LeaseInit /\ [][LeaseNext]_leaseVars
=============================================================================
