---------------------------- MODULE CallArchive ----------------------------
(***************************************************************************)
(* The call archive: audio/call_recorder.c, call_store.c, call_archive.c.  *)
(* A decoder task cuts what it hears into calls and publishes them, block  *)
(* by block, on a ring that never waits.  One worker owns the SD card: it  *)
(* writes each call to a .part file that it renames to .wav when the call  *)
(* ends, deletes and protects recordings on request, deletes those past    *)
(* their days, and stops recording while the card is nearly full.  The     *)
(* interface asks through two mailboxes of one entry and plays recordings  *)
(* under a lease.  The power may be cut between any two steps on the card; *)
(* what is on the card survives.                                           *)
(*                                                                         *)
(* One recorder is modelled; the others share nothing with it but the      *)
(* worker's turn.  A definition marked "Slip" is not part of the model: it *)
(* is the one below it with a mistake a change of the code could make, and *)
(* the property named after it is the one that catches the mistake.        *)
(***************************************************************************)
EXTENDS Integers, Sequences, FiniteSets

CONSTANTS
    Capacity,   \* CALL_SLOTS, the length of the ring
    Leases,     \* the number of s_leases
    KeepDays,   \* CALL_OPT_DAYS
    MaxCall,    \* bound on the calls begun
    MaxDay,     \* bound on the days that pass
    MaxCuts,    \* bound on the power cuts
    MaxAsks     \* bound on the requests of the interface

\* room() refuses a ring of fewer than three blocks.
ASSUME CapacityAssumption == Capacity \in Nat /\ Capacity >= 3
ASSUME LeasesAssumption   == Leases \in Nat
ASSUME KeepDaysAssumption == KeepDays \in Nat \ {0}
ASSUME BoundsAssumption   == {MaxCall, MaxDay, MaxCuts, MaxAsks} \subseteq Nat

Call  == 1..MaxCall
\* Before the clock is set a call goes to the directory 00000000.
NoDay == -1
\* <day>/<clock>_<talkgroup>[_<collision>]: k stands for all after the day.
Name  == [day : NoDay..MaxDay, k : 0..MaxCall]
None  == [day |-> NoDay - 1, k |-> 0]
Block == [event : {"begin", "pcm", "end", "abort"}, call : Call]
Keep  == [name : Name \cup {None}, on : BOOLEAN]

VARIABLES
    ring,      \* the published blocks that are not consumed
    active, poisoned, current,  \* call_recorder_t; the last call begun
    part, wav, \* the names with a .part and with a .wav
    heard,     \* whose audio the file of a name holds
    meta,      \* whose .meta a name has, or zero
    mark,      \* the names with a .keep
    at, back,  \* the worker: where it is, where its subroutine returns to
    open, writing, \* call_writer_t: its file's name, its call
    victim, left,  \* the name it deletes; the names retention has yet to see
    paused, refresh, retained, \* paused, refresh, retained_day
    recent,    \* the list of recordings
    deletion, protection,      \* the two mailboxes
    playing,   \* the names under a playback lease
    day, synced, \* the date; whether the clock is set
    cuts, asks, \* power cuts and requests so far
    \* ghosts: the calls that turned out encrypted while they were recorded;
    \* the calls the space guard closed; the names whose last request that
    \* was taken is to keep them; those of whose last request that was served
    \* the marker could not be made
    revoked, guarded, kept, unmarked

decoder == <<ring, active, poisoned, current>>
card    == <<part, wav, heard, meta, mark>>
worker  == <<at, back, open, writing, victim, left, paused, retained>>
others  == <<deletion, protection, playing, day, synced, cuts, asks>>
ghosts  == <<revoked, guarded, kept, unmarked>>
vars    == <<decoder, card, worker, refresh, recent, others, ghosts>>

TypeOK ==
    /\ ring \in Seq(Block) /\ Len(ring) <= Capacity
    /\ active \in BOOLEAN /\ poisoned \in BOOLEAN /\ current \in 0..MaxCall
    /\ part \in SUBSET Name /\ wav \in SUBSET Name /\ mark \in SUBSET Name
    /\ heard \in [Name -> SUBSET Call] /\ meta \in [Name -> 0..MaxCall]
    /\ at \in {"top", "protect", "retain", "step", "idle",
               "unlink_meta", "unlink_keep", "side", "rename"}
    /\ back \in {"top", "protect", "retain", "step"}
    /\ open \in Name \cup {None} /\ writing \in 0..MaxCall
    /\ victim \in Name \cup {None} /\ left \in SUBSET Name
    /\ paused \in BOOLEAN /\ refresh \in BOOLEAN /\ synced \in BOOLEAN
    /\ retained \in NoDay..MaxDay /\ day \in 0..MaxDay
    /\ recent \in SUBSET Name /\ playing \in SUBSET Name
    /\ deletion \in Name \cup {None} /\ protection \in Keep
    /\ cuts \in 0..MaxCuts /\ asks \in 0..MaxAsks
    /\ revoked \in SUBSET Call /\ guarded \in SUBSET Call /\ kept \in SUBSET Name
    /\ unmarked \in SUBSET Name

Init ==
    /\ ring = <<>> /\ active = FALSE /\ poisoned = FALSE
    /\ at = "top" /\ back = "top" /\ open = None /\ writing = 0
    /\ victim = None /\ left = {} /\ paused = FALSE /\ refresh = TRUE
    /\ retained = NoDay /\ recent = {}
    /\ deletion = None /\ protection = [name |-> None, on |-> FALSE]
    /\ playing = {} /\ synced = FALSE
    /\ current = 0
    /\ part = {} /\ wav = {} /\ mark = {}
    /\ heard = [n \in Name |-> {}] /\ meta = [n \in Name |-> 0]
    /\ day = 0 /\ cuts = 0 /\ asks = 0
    /\ revoked = {} /\ guarded = {} /\ kept = {} /\ unmarked = {}

-----------------------------------------------------------------------------
\* The decoder.  The last slot is for the block that closes a call.
\* Slip (EndFits): no slot is set aside.
RoomForAll(r, closing) == Len(r) < Capacity

Room(r, closing) == Len(r) < Capacity - (IF closing THEN 0 ELSE 1)

\* Slip (CallSettles): the block that closes a call needs room like any other.
ClosedLast(discard) ==
    IF active /\ Room(ring, FALSE)
    THEN Append(ring, [event |-> IF discard THEN "abort" ELSE "end",
                       call |-> current])
    ELSE ring

\* call_recorder_end.
Closed(discard) ==
    IF active /\ Room(ring, TRUE)
    THEN Append(ring, [event |-> IF discard THEN "abort" ELSE "end",
                       call |-> current])
    ELSE ring

\* Slip (RevokedGone): a call that turns out encrypted is ended, not aborted.
EndAll(discard) ==
    /\ ring' = Closed(FALSE)
    /\ active' = FALSE
    /\ poisoned' = discard
    /\ UNCHANGED current

End(discard) ==
    /\ ring' = Closed(discard)
    /\ active' = FALSE
    /\ poisoned' = discard
    /\ UNCHANGED current

\* Slip (OpenIsClosed): the next call begins before the last has ended.
RecordOn(split) ==
    LET was    == active /\ ~split
        r1     == ring
        begins == ~was /\ (split \/ ~poisoned) /\ Room(r1, FALSE)
                  /\ current < MaxCall
        call   == IF begins THEN current + 1 ELSE current
        r2     == IF begins THEN Append(r1, [event |-> "begin", call |-> call])
                  ELSE r1
    IN /\ active' = (was \/ begins)
       /\ poisoned' = (poisoned /\ ~split)
       /\ current' = call
       /\ ring' = IF active' /\ Room(r2, FALSE)
                  THEN Append(r2, [event |-> "pcm", call |-> call])
                  ELSE r2

\* call_recorder_gate, open, and call_recorder_pcm.  split: the gap since the
\* last audio is long, or the channel or talkgroup is another.
Record(split) ==
    LET was    == active /\ ~split
        r1     == IF split THEN Closed(FALSE) ELSE ring
        begins == ~was /\ (split \/ ~poisoned) /\ Room(r1, FALSE)
                  /\ current < MaxCall
        call   == IF begins THEN current + 1 ELSE current
        r2     == IF begins THEN Append(r1, [event |-> "begin", call |-> call])
                  ELSE r1
    IN /\ active' = (was \/ begins)
       /\ poisoned' = (poisoned /\ ~split)
       /\ current' = call
       /\ ring' = IF active' /\ Room(r2, FALSE)
                  THEN Append(r2, [event |-> "pcm", call |-> call])
                  ELSE r2

\* call_archive_audio with clear audio that is permitted.
Audio(split) ==
    /\ IF paused THEN End(FALSE) ELSE Record(split)
    /\ UNCHANGED <<card, worker, refresh, recent, others, ghosts>>

\* call_archive_end and call_archive_gate, and audio that is not permitted.
Hangup ==
    /\ active \/ poisoned
    /\ End(FALSE)
    /\ UNCHANGED <<card, worker, refresh, recent, others, ghosts>>

\* call_archive_audio, not clear.
Encrypted ==
    /\ active \/ ~poisoned
    /\ End(TRUE)
    /\ revoked' = IF active THEN revoked \cup {current} ELSE revoked
    /\ UNCHANGED <<card, worker, refresh, recent, others, guarded, kept,
                   unmarked>>

-----------------------------------------------------------------------------
\* The interface.
Ask == asks < MaxAsks /\ asks' = asks + 1

AskDelete(n) ==
    /\ Ask
    /\ deletion = None
    /\ deletion' = n
    /\ kept' = kept \ {n}
    /\ UNCHANGED <<decoder, card, worker, refresh, recent, protection, playing,
                   day, synced, cuts, revoked, guarded, unmarked>>

AskKeep(n, on) ==
    /\ Ask
    /\ protection.name = None
    /\ protection' = [name |-> n, on |-> on]
    /\ kept' = IF on /\ n \in wav THEN kept \cup {n} ELSE kept \ {n}
    /\ UNCHANGED <<decoder, card, worker, refresh, recent, deletion, playing,
                   day, synced, cuts, revoked, guarded, unmarked>>

\* call_store_delete holds the lock of the leases until it returns.
Unlocked == at \notin {"unlink_meta", "unlink_keep"}

Play(n) ==
    /\ Unlocked
    /\ n \in wav /\ Cardinality(playing) < Leases
    /\ playing' = playing \cup {n}
    /\ UNCHANGED <<decoder, card, worker, refresh, recent, deletion, protection,
                   day, synced, cuts, asks, ghosts>>

StopPlaying(n) ==
    /\ Unlocked
    /\ n \in playing
    /\ playing' = playing \ {n}
    /\ UNCHANGED <<decoder, card, worker, refresh, recent, deletion, protection,
                   day, synced, cuts, asks, ghosts>>

\* Slip (PlayedStays): without a look at the leases.
DeleteAnyhow(n, next) ==
    \/ /\ n \in wav
       /\ wav' = wav \ {n} /\ kept' = kept \ {n} /\ unmarked' = unmarked \ {n}
       /\ victim' = n
       /\ back' = next
       /\ at' = "unlink_meta"
    \/ at' = next /\ UNCHANGED <<wav, kept, unmarked, victim, back>>

-----------------------------------------------------------------------------
\* call_store_delete: the .wav, then the .meta, then the .keep.  Any of the three
\* may fail; the last two are not asked whether they did.
Delete(n, next) ==
    \/ /\ n \in wav \ playing
       /\ wav' = wav \ {n} /\ kept' = kept \ {n} /\ unmarked' = unmarked \ {n}
       /\ victim' = n
       /\ back' = next
       /\ at' = "unlink_meta"
    \/ at' = next /\ UNCHANGED <<wav, kept, unmarked, victim, back>>

UnlinkMeta ==
    /\ at = "unlink_meta"
    /\ meta' \in {meta, [meta EXCEPT ![victim] = 0]}
    /\ at' = "unlink_keep"
    /\ UNCHANGED <<decoder, part, wav, heard, mark, back, open, writing, victim,
                   left, paused, retained, refresh, recent, others, ghosts>>

UnlinkKeep ==
    /\ at = "unlink_keep"
    /\ mark' \in {mark, mark \ {victim}}
    /\ at' = back
    /\ back' = "top"
    /\ victim' = None
    /\ UNCHANGED <<decoder, part, wav, heard, meta, open, writing, left, paused,
                   retained, refresh, recent, others, ghosts>>

\* Slip (ListTrue): the list is not read again.
TakeDeletionOnly ==
    /\ at = "top"
    /\ deletion' = None
    /\ IF deletion = None
       THEN at' = "protect" /\ UNCHANGED <<wav, victim, back, kept, unmarked>>
       ELSE Delete(deletion, "protect")
    /\ UNCHANGED <<decoder, part, heard, meta, mark, open, writing, left, paused,
                   retained, recent, refresh, protection, playing, day, synced,
                   cuts, asks, revoked, guarded>>

\* One pass of service_once: the deletion, ...
TakeDeletion ==
    /\ at = "top"
    /\ deletion' = None
    /\ IF deletion = None
       THEN at' = "protect" /\ UNCHANGED <<refresh, wav, victim, back, kept, unmarked>>
       ELSE Delete(deletion, "protect") /\ refresh' = TRUE
    /\ UNCHANGED <<decoder, part, heard, meta, mark, open, writing, left, paused,
                   retained, recent, protection, playing, day, synced, cuts, asks,
                   revoked, guarded>>

\* ... the protection, and what retention has to look at.
Expired(n) == n.day # NoDay /\ day - n.day >= KeepDays
Due == synced /\ day # retained

\* call_store_protect: the marker is made or removed, unless that fails.
Protects(n, on) ==
    /\ \/ UNCHANGED mark
       \/ n \in wav /\ mark' = IF on THEN mark \cup {n} ELSE mark \ {n}
    /\ unmarked' = IF on /\ n \in wav \ mark' THEN unmarked \cup {n} ELSE unmarked \ {n}

\* Slip (Served): the mailbox is not emptied.
TakeProtectionAgain ==
    /\ at = "protect"
    /\ protection' = protection
    /\ Protects(protection.name, protection.on)
    /\ refresh' = (refresh \/ protection.name # None \/ Due)
    /\ left' = IF Due THEN {n \in wav : Expired(n)} ELSE {}
    /\ retained' = IF Due THEN day ELSE retained
    /\ at' = "retain"
    /\ UNCHANGED <<decoder, part, wav, heard, meta, back, open, writing, victim,
                   paused, recent, deletion, playing, day, synced, cuts, asks, revoked,
                   guarded, kept>>

TakeProtection ==
    /\ at = "protect"
    /\ protection' = [name |-> None, on |-> FALSE]
    /\ Protects(protection.name, protection.on)
    /\ refresh' = (refresh \/ protection.name # None \/ Due)
    /\ left' = IF Due THEN {n \in wav : Expired(n)} ELSE {}
    /\ retained' = IF Due THEN day ELSE retained
    /\ at' = "retain"
    /\ UNCHANGED <<decoder, part, wav, heard, meta, back, open, writing, victim,
                   paused, recent, deletion, playing, day, synced, cuts, asks, revoked,
                   guarded, kept>>

\* Slip (KeepRace): the marker is not looked for.
RetainNone ==
    /\ at = "retain" /\ left # {}
    /\ \E n \in left : left' = left \ {n} /\ Delete(n, "retain")
    /\ UNCHANGED <<decoder, part, heard, meta, mark, open, writing, paused,
                   retained, refresh, recent, others, revoked, guarded>>

\* call_store_retain, one recording of an expired day.
Retain ==
    /\ at = "retain" /\ left # {}
    /\ \E n \in left :
         /\ left' = left \ {n}
         /\ IF n \in mark THEN UNCHANGED <<at, wav, victim, back, kept, unmarked>>
            ELSE Delete(n, "retain")
    /\ UNCHANGED <<decoder, part, heard, meta, mark, open, writing, paused,
                   retained, refresh, recent, others, revoked, guarded>>

-----------------------------------------------------------------------------
\* finish(): the header is written and the file closed, then the .meta is
\* written, then the .part is renamed.  A call that is too short, and any
\* write that fails, removes it instead, and is not asked whether it did.
Discard(n) ==
    /\ part' \in {part, part \ {n}}
    /\ meta' \in {meta, [meta EXCEPT ![n] = 0]}
    /\ open' = None /\ writing' = 0

\* The worker comes back from finish(): the block that asked for it is
\* consumed now, and the pass ends after it.
Return(next) ==
    /\ at' = next /\ back' = "top"
    /\ ring' = IF next = "top" THEN Tail(ring) ELSE ring

\* Slip (CallsApart): the file is renamed before its .meta is written.
FinishRename(discard, next) ==
    \/ /\ ~discard /\ heard[open] # {}
       /\ at' = "rename" /\ back' = next
       /\ UNCHANGED <<ring, part, meta, open, writing>>
    \/ Discard(open) /\ Return(next)

Finish(discard, next) ==
    \/ /\ ~discard /\ heard[open] # {}
       /\ at' = "side" /\ back' = next
       /\ UNCHANGED <<ring, part, meta, open, writing>>
    \/ Discard(open) /\ Return(next)

WriteMeta ==
    /\ at = "side"
    /\ \/ at' = "rename" /\ meta' = [meta EXCEPT ![open] = writing]
          /\ UNCHANGED <<ring, part, open, writing, back>>
       \/ Discard(open) /\ Return(back)
    /\ UNCHANGED <<active, poisoned, current, wav, heard, mark, victim, left,
                   paused, retained, refresh, recent, others, ghosts>>

\* recent_insert follows the rename.
Rename ==
    /\ at = "rename"
    /\ \/ part' = part \ {open} /\ wav' = wav \cup {open}
          /\ recent' = recent \cup {open}
          /\ open' = None /\ writing' = 0 /\ UNCHANGED meta
       \/ Discard(open) /\ UNCHANGED <<wav, recent>>
    /\ Return(back)
    /\ UNCHANGED <<active, poisoned, current, heard, mark, victim, left, paused,
                   retained, refresh, others, ghosts>>

\* The space of the card is looked at before a call is begun, and by the
\* clock, by what was written and on request at any other time.  With little
\* of it the open file is closed where it is.
Beginning == ring # <<>> /\ Head(ring).event = "begin"

Space ==
    /\ at = "retain" /\ left = {}
    /\ \/ /\ ~Beginning
          /\ at' = "step"
          /\ UNCHANGED <<ring, part, meta, open, writing, back, paused, refresh,
                         guarded>>
       \/ \E low \in BOOLEAN :
            /\ paused' = low
            /\ refresh' = (refresh \/ low # paused)
            /\ IF low /\ open # None
               THEN Finish(FALSE, "step") /\ guarded' = guarded \cup {writing}
               ELSE /\ at' = "step"
                    /\ UNCHANGED <<ring, part, meta, open, writing, back, guarded>>
    /\ UNCHANGED <<active, poisoned, current, wav, heard, mark, victim, left,
                   retained, recent, others, revoked, kept, unmarked>>

\* begin(): a file that is still open is given up, and the first name that
\* has neither a .wav nor a .part is taken, unless there is none or the
\* directory or the file cannot be made.
Free(k) == [day |-> IF synced THEN day ELSE NoDay, k |-> k]

\* Slip (ImplementsLibrary): the name is not looked for on the card.
FirstName(k, taken) == k = 0

FreeName(k, taken) ==
    Free(k) \notin taken /\ \A j \in 0..k - 1 : Free(j) \in taken

Begin(call) ==
    \E gone \in {part, part \ {open}} :
       /\ UNCHANGED meta \/ (open # None /\ meta' = [meta EXCEPT ![open] = 0])
       /\ \/ /\ \E k \in 0..MaxCall : FreeName(k, wav \cup gone) /\ open' = Free(k)
             /\ writing' = call /\ part' = gone \cup {open'}
             /\ heard' = [heard EXCEPT ![open'] = {}]
          \/ open' = None /\ writing' = 0 /\ part' = gone /\ UNCHANGED heard

\* call_store_step, or the block is thrown away while recording is paused.
Step ==
    /\ at = "step" /\ ring # <<>>
    /\ LET b == Head(ring)
       IN IF paused \/ (b.event # "begin" /\ open = None)
          THEN Return("top") /\ UNCHANGED <<part, meta, heard, open, writing>>
          ELSE CASE b.event = "begin" ->
                      Begin(b.call) /\ Return("top")
                 [] b.event = "pcm" ->
                      /\ heard' = [heard EXCEPT ![open] = @ \cup {b.call}]
                      /\ Return("top")
                      /\ UNCHANGED <<part, meta, open, writing>>
                 [] OTHER ->
                      /\ Finish(b.event = "abort", "top")
                      /\ UNCHANGED heard
    /\ UNCHANGED <<active, poisoned, current, wav, mark, victim, left, paused,
                   retained, refresh, recent, others, ghosts>>

\* Nothing to do for the decoder: the list is read again if it was asked for.
Idle ==
    /\ at = "step" /\ ring = <<>>
    /\ at' = "top"
    /\ refresh' = FALSE
    /\ recent' = IF refresh THEN {n \in wav : meta[n] # 0} ELSE recent
    /\ UNCHANGED <<decoder, card, back, open, writing, victim, left, paused,
                   retained, others, ghosts>>

-----------------------------------------------------------------------------
Refresh ==
    /\ Ask
    /\ refresh' = TRUE
    /\ UNCHANGED <<decoder, card, worker, recent, deletion, protection, playing,
                   day, synced, cuts, ghosts>>

Midnight ==
    /\ day < MaxDay
    /\ day' = day + 1
    /\ UNCHANGED <<decoder, card, worker, refresh, recent, deletion, protection,
                   playing, synced, cuts, asks, ghosts>>

SetClock ==
    /\ ~synced
    /\ synced' = TRUE
    /\ UNCHANGED <<decoder, card, worker, refresh, recent, deletion, protection,
                   playing, day, cuts, asks, ghosts>>

\* The power is cut and comes back: what was asked for and not done is gone.
PowerCut ==
    /\ cuts < MaxCuts
    /\ cuts' = cuts + 1
    /\ ring' = <<>> /\ active' = FALSE /\ poisoned' = FALSE
    /\ at' = "top" /\ back' = "top" /\ open' = None /\ writing' = 0
    /\ victim' = None /\ left' = {} /\ paused' = FALSE /\ refresh' = TRUE
    /\ retained' = NoDay /\ recent' = {}
    /\ deletion' = None /\ protection' = [name |-> None, on |-> FALSE]
    /\ playing' = {} /\ synced' = FALSE
    /\ kept' = kept \cap mark /\ unmarked' = {}
    /\ UNCHANGED <<current, card, day, asks, revoked, guarded>>

Worker == \/ TakeDeletion \/ TakeProtection \/ Retain \/ Space \/ Step \/ Idle
          \/ UnlinkMeta \/ UnlinkKeep \/ WriteMeta \/ Rename

Next ==
    \/ \E split \in BOOLEAN : Audio(split)
    \/ Hangup \/ Encrypted
    \/ \E n \in recent : AskDelete(n) \/ Play(n)
    \/ \E n \in recent, on \in BOOLEAN : AskKeep(n, on)
    \/ \E n \in playing : StopPlaying(n)
    \/ Worker
    \/ Refresh \/ Midnight \/ SetClock \/ PowerCut

Spec == Init /\ [][Next]_vars
\* The worker is a task of its own that never blocks for good.
FairSpec == Spec /\ WF_vars(Worker)

-----------------------------------------------------------------------------
\* A call that is being recorded can always be closed: however full the ring,
\* there is a slot for the block that ends it (call_recorder_end).
EndFits == active => Room(ring, TRUE)

\* A file is open only while the call it is for is being recorded or the
\* block that closes it is on its way, behind none but that call's audio: no
\* call is given up because the next one finds its file open.
OpenIsClosed ==
    open # None =>
        /\ \A i \in DOMAIN ring :
             (\A j \in 1..i - 1 : ring[j].event = "pcm")
                 => ring[i].event # "begin" /\ ring[i].call = writing
        /\ (\A i \in DOMAIN ring : ring[i].event = "pcm")
                 => active /\ current = writing

\* A recording holds the audio of one call, and its .meta is that call's,
\* wherever the power was cut and whatever name was used before.
CallsApart ==
    /\ \A n \in wav  : meta[n] # 0 /\ heard[n] = {meta[n]}
    /\ \A n \in part : \E c \in Call : heard[n] \subseteq {c}
    /\ \A n, o \in wav : meta[n] = meta[o] => n = o

\* A call that turned out encrypted while it was recorded is no recording,
\* unless the space guard had closed it before.
RevokedGone == \A n \in wav : meta[n] \in revoked => meta[n] \in guarded

\* A recording that is played is not deleted under the player, neither on
\* request nor by retention.
PlayedStays == playing \subseteq wav

\* Between two passes with nothing left to read again, the list is what is on
\* the card, though it is kept by insertion.
ListTrue == at = "top" /\ ~refresh => recent = wav

\* Retention deletes a recording the user has asked to keep in two cases only:
\* the request was taken and is still in its mailbox, or it was served and its
\* marker could not be made, which call_archive.c only counts.
KeepRace == [][\A n \in wav \ wav' : at = "retain" /\ n \in kept =>
                 protection = [name |-> n, on |-> TRUE] \/ n \in unmarked]_vars

\* The manual has neither case (docs/TDP4_UPDATES_AND_CALLS.md:41): a call
\* that is marked KEEP is left by age cleanup.  The code does not keep to it
\* (README, 3.4).
KeepHolds == [][\A n \in wav \ wav' : at = "retain" => n \notin kept]_vars

\* Every request is served.
Served == /\ deletion # None ~> deletion = None
          /\ protection.name # None ~> protection.name = None

\* A call that ended leaves no open file behind.
CallSettles == \A c \in Call :
    (open # None /\ writing = c /\ ~(active /\ current = c))
        ~> (open = None \/ writing # c)

\* The calls whose first block waits in the ring, and that of the open file.
Waiting(r) == {r[i].call : i \in {j \in DOMAIN r : r[j].event = "begin"}}
Pending == Waiting(ring) \cup {c \in {writing} : open # None}
CallsOf(names) == {meta[n] : n \in names}

\* The archive implements the library: a call is saved at most once, in order,
\* a recording is removed whole and not under its player, and nothing that is
\* gone comes back, wherever the power is cut.
Library == INSTANCE CallLibrary
             WITH begun <- current, pending <- Pending,
                  saved <- CallsOf(wav), played <- CallsOf(playing)
ImplementsLibrary == Library!LibrarySpec
=============================================================================
