----------------------------- MODULE CallLibrary -----------------------------
(***************************************************************************)
(* What the call archive promises of the calls it hears, without saying    *)
(* how: a call is saved once or not at all, in the order in which calls    *)
(* begin; a recording goes when it is removed and never while it is        *)
(* played; and whatever is lost, dropped or removed does not come back.    *)
(* CallArchive implements it with a ring, a worker and files.              *)
(***************************************************************************)
EXTENDS Naturals

VARIABLES
    begun,   \* the number of calls that have begun, the name of the last
    pending, \* the calls that are neither saved nor lost
    saved,   \* the calls that are recordings
    played   \* the recordings that are played

libraryVars == <<begun, pending, saved, played>>

LibraryInit == begun = 0 /\ pending = {} /\ saved = {} /\ played = {}

Begin ==
    /\ begun' = begun + 1
    /\ pending' = pending \cup {begun'}
    /\ UNCHANGED <<saved, played>>

Oldest(c) == c \in pending /\ \A d \in pending : c <= d

Save(c) ==
    /\ Oldest(c)
    /\ pending' = pending \ {c} /\ saved' = saved \cup {c}
    /\ UNCHANGED <<begun, played>>

\* The call is too short or encrypted, the card is full or fails.
Drop(c) ==
    /\ Oldest(c)
    /\ pending' = pending \ {c}
    /\ UNCHANGED <<begun, saved, played>>

Remove(c) ==
    /\ c \in saved \ played
    /\ saved' = saved \ {c}
    /\ UNCHANGED <<begun, pending, played>>

Play(c) ==
    /\ c \in saved
    /\ played' = played \cup {c}
    /\ UNCHANGED <<begun, pending, saved>>

StopPlaying(c) ==
    /\ played' = played \ {c}
    /\ UNCHANGED <<begun, pending, saved>>

\* What is saved survives a loss of power, and nothing else does.
PowerCut ==
    /\ pending' = {} /\ played' = {}
    /\ UNCHANGED <<begun, saved>>

LibraryNext ==
    \/ Begin \/ PowerCut
    \/ \E c \in pending : Save(c) \/ Drop(c)
    \/ \E c \in saved : Remove(c) \/ Play(c)
    \/ \E c \in played : StopPlaying(c)

LibrarySpec == LibraryInit /\ [][LibraryNext]_libraryVars
=============================================================================
