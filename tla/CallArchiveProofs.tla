------------------------- MODULE CallArchiveProofs -------------------------
(***************************************************************************)
(* Proofs about CallArchive, for a ring of any length, any number of       *)
(* leases, any number of calls, days, requests and power cuts: a call can  *)
(* always be closed and none is given up for the next, a recording is one  *)
(* call and none that was encrypted, it is not deleted under its player,   *)
(* retention deletes what the user wants kept in two cases only, and the   *)
(* list is what is on the card.  With these the archive implements the     *)
(* library of CallLibrary, and a call that is gone does not come back.     *)
(***************************************************************************)
EXTENDS CallArchive, TLAPS

\* The ring.  A block that ends a file (back is "top") stays at the head of
\* the ring until the file is dealt with.
Finishing == at \in {"side", "rename"}
Places    == {"top", "protect", "retain", "step"}
RingInv ==
    /\ ring \in Seq(Block) /\ Len(ring) <= Capacity
    /\ active \in BOOLEAN
    /\ active => Len(ring) < Capacity
    /\ back \in Places
    /\ Finishing /\ back = "top" => ring # <<>>
    /\ current \in 0..MaxCall /\ (active => current # 0)

\* What the user wants kept is on the card, and it has its marker, or the
\* request for it is still in the mailbox, or its marker could not be made.
KeepInv ==
    /\ None \notin wav /\ None \notin recent
    /\ Finishing => open # None
    /\ at \in {"unlink_meta", "unlink_keep"} => victim \notin wav
    /\ kept \subseteq wav
    /\ \A n \in kept : n \in mark \/ n \in unmarked \/ protection = [name |-> n, on |-> TRUE]
    /\ ~protection.on => protection.name \notin kept

\* What is recent is on the card, or the list will be read again; retention
\* has names left to see only in the pass that asked for that.
ListInv ==
    /\ refresh \/ recent = wav
    /\ left # {} => refresh
    /\ left # {} => \/ at = "retain"
                    \/ at \in {"unlink_meta", "unlink_keep"} /\ back = "retain"

\* From a block of a call on, the ring r holds that call's audio and the block
\* that closes it, or the call is the one being recorded.
Follows(r, act, cur, from, call) ==
    /\ \A i \in DOMAIN r :
         i > from /\ (\A j \in from + 1..i - 1 : r[j].event = "pcm")
             => r[i].event # "begin" /\ r[i].call = call
    /\ (\A i \in DOMAIN r : i > from => r[i].event = "pcm") => act /\ cur = call

\* Calls are numbered as they begin, and one that ended well is not revoked.
Order(r, act, cur, rev) ==
    /\ \A c \in rev : c <= cur
    /\ act => cur \notin rev
    /\ \A i \in DOMAIN r :
         /\ r[i].call <= cur
         /\ r[i].event = "end" => r[i].call \notin rev /\ ~(act /\ cur = r[i].call)
    /\ \A i \in DOMAIN r : r[i].event = "begin" =>
         /\ Follows(r, act, cur, i, r[i].call)
         /\ \A j \in DOMAIN r : j > i /\ r[j].event = "begin" => r[i].call < r[j].call

Earlier(c, r, cur) ==
    c <= cur /\ \A i \in DOMAIN r : r[i].event = "begin" => c < r[i].call
Settled(c, act, cur, rev) ==
    c \in guarded \/ (c \notin rev /\ ~(act /\ cur = c))

\* What the ring, the open file and the recordings say of each other's calls.
Calls(r, act, cur, rev) ==
    /\ Order(r, act, cur, rev)
    /\ open # None => /\ Follows(r, act, cur, 0, writing)
                      /\ Earlier(writing, r, cur)
                      /\ \A n \in wav : meta[n] < writing
    /\ \A n \in wav : Earlier(meta[n], r, cur) /\ Settled(meta[n], act, cur, rev)
    /\ Finishing => Settled(writing, act, cur, rev)
CallInv == Calls(ring, active, current, revoked)

\* The open file has a name of its own and holds the audio of its call.
FileInv ==
    /\ open # None => open \notin wav /\ heard[open] \subseteq {writing}
    /\ Finishing => heard[open] = {writing}
    /\ at = "rename" => meta[open] = writing
    /\ paused /\ open # None => Finishing
    /\ CallsApart

\* The types, and that an open file is some call's.
TypeInv == TypeOK /\ (open # None => writing \in Call)

-----------------------------------------------------------------------------
\* The initial states and the steps that leave the ring alone keep RingInv.
LEMMA CallBound == MaxCall \in Nat
  BY BoundsAssumption

LEMMA RingStart == Init => RingInv
  <1> SUFFICES ASSUME Init PROVE RingInv
    OBVIOUS
  <1>1. ring \in Seq(Block) /\ Len(ring) <= Capacity
    BY CapacityAssumption DEF Init
  <1>2. active = FALSE /\ ~Finishing /\ back \in Places
        /\ current = 0 /\ 0 \in 0..MaxCall
    BY CallBound DEF Init, Finishing, Places
  <1> QED
    BY <1>1, <1>2 DEF RingInv

LEMMA RingStays ==
  ASSUME RingInv, UNCHANGED decoder, back' \in Places,
         Finishing' => Finishing /\ UNCHANGED back
  PROVE  RingInv'
  BY DEF RingInv, Finishing, Places, decoder

\* A block appended in a free slot leaves the ring a sequence of blocks.
LEMMA Appended ==
  ASSUME NEW r \in Seq(Block), NEW b \in Block
  PROVE  /\ Append(r, b) \in Seq(Block) /\ Len(Append(r, b)) = Len(r) + 1
         /\ Append(r, b) # <<>>
  <1>1. Append(r, b) \in Seq(Block) /\ Len(Append(r, b)) = Len(r) + 1
    OBVIOUS
  <1>2. Len(r) \in Nat
    OBVIOUS
  <1> QED
    BY <1>1, <1>2

LEMMA ClosedFits ==
  ASSUME RingInv, NEW discard \in BOOLEAN
  PROVE  /\ Closed(discard) \in Seq(Block) /\ Len(Closed(discard)) <= Capacity
         /\ ring # <<>> => Closed(discard) # <<>>
  <1> DEFINE b == [event |-> IF discard THEN "abort" ELSE "end", call |-> current]
  <1>1. CASE active /\ Room(ring, TRUE)
    <2>1. current \in Call
      BY <1>1, BoundsAssumption DEF RingInv, Call
    <2>2. b \in Block
      BY <2>1 DEF Block
    <2>3. Closed(discard) = Append(ring, b)
      BY <1>1 DEF Closed
    <2>4. Len(ring) \in Nat /\ Len(ring) < Capacity
      BY <1>1, CapacityAssumption DEF Room, RingInv
    <2>5. /\ Append(ring, b) \in Seq(Block) /\ Len(Append(ring, b)) = Len(ring) + 1
          /\ Append(ring, b) # <<>>
      BY <2>2, Appended DEF RingInv
    <2> QED
      BY <2>3, <2>4, <2>5, CapacityAssumption
  <1>2. CASE ~(active /\ Room(ring, TRUE))
    BY <1>2 DEF Closed, RingInv
  <1> QED
    BY <1>1, <1>2

LEMMA RingEnds ==
  ASSUME RingInv, NEW discard \in BOOLEAN, End(discard), UNCHANGED <<at, back>>
  PROVE  RingInv'
  BY ClosedFits DEF RingInv, End, Finishing

\* The block that opens a call and the one that carries its audio are taken
\* only while a slot stays free after them.
LEMMA RingRecords ==
  ASSUME RingInv, NEW split \in BOOLEAN, Record(split), UNCHANGED <<at, back>>
  PROVE  RingInv'
  <1> DEFINE was    == active /\ ~split
             r1     == IF split THEN Closed(FALSE) ELSE ring
             begins == ~was /\ (split \/ ~poisoned) /\ Room(r1, FALSE)
                       /\ current < MaxCall
             call   == IF begins THEN current + 1 ELSE current
             r2     == IF begins THEN Append(r1, [event |-> "begin", call |-> call])
                       ELSE r1
  <1>1. /\ active' = (was \/ begins) /\ current' = call
        /\ ring' = IF active' /\ Room(r2, FALSE)
                   THEN Append(r2, [event |-> "pcm", call |-> call]) ELSE r2
    BY DEF Record
  <1>2. /\ r1 \in Seq(Block) /\ Len(r1) <= Capacity /\ (ring # <<>> => r1 # <<>>)
        /\ was => Len(r1) < Capacity
    BY ClosedFits DEF RingInv
  <1>3. /\ call \in 0..MaxCall
        /\ was \/ begins => call \in Call
    <2>1. current \in 0..MaxCall /\ (active => current # 0)
      BY DEF RingInv
    <2>2. CASE begins
      <3>1. call = current + 1 /\ current < MaxCall
        BY <2>2
      <3> HIDE DEF call, begins, was
      <3> QED
        BY <2>1, <3>1, CallBound DEF Call
    <2>3. CASE ~begins
      <3>1. call = current /\ (was => active)
        BY <2>3
      <3> HIDE DEF call, begins, was
      <3> QED
        BY <2>1, <2>3, <3>1, CallBound DEF Call
    <2> QED
      BY <2>2, <2>3
  <1>4. /\ r2 \in Seq(Block) /\ Len(r2) <= Capacity /\ (ring # <<>> => r2 # <<>>)
        /\ was \/ begins => Len(r2) < Capacity
    <2>1. CASE begins
      <3>1. [event |-> "begin", call |-> call] \in Block
        BY <1>3, <2>1 DEF Block
      <3>2. /\ r2 \in Seq(Block) /\ Len(r2) = Len(r1) + 1 /\ r2 # <<>>
        BY <3>1, <2>1, <1>2, Appended
      <3>3. Room(r1, FALSE) /\ r1 \in Seq(Block)
        BY <2>1, <1>2
      <3>4. Len(r1) < Capacity - 1 /\ Len(r1) \in Nat
        <4> HIDE DEF r1
        <4> QED
          BY <3>3 DEF Room
      <3> HIDE DEF r2, r1, call, begins, was
      <3> QED
        BY <3>2, <3>4, CapacityAssumption
    <2>2. CASE ~begins
      BY <2>2, <1>2
    <2> QED
      BY <2>1, <2>2
  <1>5. /\ ring' \in Seq(Block) /\ Len(ring') <= Capacity
        /\ ring # <<>> => ring' # <<>>
        /\ active' => Len(ring') < Capacity
    <2> HIDE DEF r2, call, begins, was, r1
    <2>1. CASE active' /\ Room(r2, FALSE)
      <3>1. [event |-> "pcm", call |-> call] \in Block
        BY <1>1, <1>3, <2>1 DEF Block
      <3>2. ring' = Append(r2, [event |-> "pcm", call |-> call])
        BY <1>1, <2>1
      <3>3. ring' \in Seq(Block) /\ Len(ring') = Len(r2) + 1 /\ ring' # <<>>
        BY <3>1, <3>2, <1>4, Appended
      <3>4. Len(r2) < Capacity - 1 /\ Len(r2) \in Nat
        BY <2>1, <1>4 DEF Room
      <3> QED
        BY <3>3, <3>4, CapacityAssumption
    <2>2. CASE ~(active' /\ Room(r2, FALSE))
      <3>1. ring' = r2
        BY <2>2, <1>1
      <3> QED
        BY <3>1, <1>1, <1>4
    <2> QED
      BY <2>1, <2>2
  <1>6. current' \in 0..MaxCall /\ (active' => current' # 0)
    <2>1. \A c \in Call : c # 0
      BY CallBound DEF Call
    <2> HIDE DEF r2, r1, call, begins, was
    <2> QED
      BY <1>1, <1>3, <2>1
  <1>7. active' \in BOOLEAN
    BY <1>1
  <1> QED
    BY <1>5, <1>6, <1>7 DEF RingInv, Finishing, Places

\* The worker consumes a block, or keeps it while the file is dealt with.
LEMMA RingReturns ==
  ASSUME RingInv, NEW next, Return(next), next = "top" => ring # <<>>,
         next \in Places, UNCHANGED <<active, current>>
  PROVE  RingInv'
  <1>1. ~Finishing' /\ back' \in Places
    BY DEF Return, Finishing, Places
  <1>2. CASE next = "top"
    <2>1. ring' = Tail(ring)
      BY <1>2 DEF Return
    <2>2. ring' \in Seq(Block) /\ Len(ring') = Len(ring) - 1 /\ Len(ring) \in Nat
      BY <1>2, <2>1 DEF RingInv
    <2> QED
      BY <1>1, <2>2, CapacityAssumption DEF RingInv
  <1>3. CASE next # "top"
    BY <1>1, <1>3 DEF Return, RingInv
  <1> QED
    BY <1>2, <1>3

LEMMA RingFinishes ==
  ASSUME RingInv, NEW discard, NEW next, Finish(discard, next),
         next = "top" => ring # <<>>, next \in Places,
         UNCHANGED <<active, current>>
  PROVE  RingInv'
  <1>1. CASE Return(next)
    BY <1>1, RingReturns
  <1>2. CASE at' = "side" /\ back' = next /\ UNCHANGED ring
    BY <1>2 DEF RingInv, Finishing, Places
  <1> QED
    BY <1>1, <1>2 DEF Finish

-----------------------------------------------------------------------------
\* One step for each action.
LEMMA RingStep == RingInv /\ [Next]_vars => RingInv'
  <1> SUFFICES ASSUME RingInv, [Next]_vars PROVE RingInv'
    OBVIOUS
  <1>1. ASSUME NEW split \in BOOLEAN, Audio(split) PROVE RingInv'
    <2>1. UNCHANGED <<at, back>>
      BY <1>1 DEF Audio, worker
    <2>2. End(FALSE) \/ Record(split)
      BY <1>1 DEF Audio
    <2> QED
      BY <2>1, <2>2, RingEnds, RingRecords
  <1>2. CASE Hangup
    BY <1>2, RingEnds DEF Hangup, worker
  <1>3. CASE Encrypted
    BY <1>3, RingEnds DEF Encrypted, worker
  <1>4. ASSUME NEW n \in recent, AskDelete(n) \/ Play(n) \/ \E on \in BOOLEAN : AskKeep(n, on)
        PROVE  RingInv'
    BY <1>4 DEF AskDelete, Play, AskKeep, decoder, worker, RingInv, Finishing, Places
  <1>5. CASE \E n \in playing : StopPlaying(n)
    BY <1>5 DEF StopPlaying, decoder, worker, RingInv, Finishing, Places
  <1>6. CASE Refresh \/ Midnight \/ SetClock
    BY <1>6 DEF Refresh, Midnight, SetClock, decoder, worker, RingInv, Finishing, Places
  <1>7. CASE PowerCut
    <2>1. /\ ring' = <<>> /\ active' = FALSE /\ at' = "top" /\ back' = "top" /\ UNCHANGED current
      BY <1>7 DEF PowerCut
    <2>2. ring' \in Seq(Block) /\ Len(ring') <= Capacity
      BY <2>1, CapacityAssumption
    <2> QED
      BY <2>1, <2>2 DEF RingInv, Finishing, Places
  <1>8. CASE Worker
    <2>1. CASE TakeDeletion
      BY <2>1 DEF TakeDeletion, Delete, decoder, RingInv, Finishing, Places
    <2>2. CASE TakeProtection
      BY <2>2 DEF TakeProtection, decoder, RingInv, Finishing, Places
    <2>3. CASE Retain
      BY <2>3 DEF Retain, Delete, decoder, RingInv, Finishing, Places
    <2>4. CASE UnlinkMeta
      BY <2>4 DEF UnlinkMeta, decoder, RingInv, Finishing, Places
    <2>5. CASE UnlinkKeep
      BY <2>5, RingStays DEF UnlinkKeep, RingInv, Finishing, Places
    <2>6. CASE WriteMeta
      BY <2>6, RingReturns DEF WriteMeta, RingInv, Finishing, Places
    <2>7. CASE Rename
      BY <2>7, RingReturns DEF Rename, RingInv, Finishing, Places
    <2>8. CASE Space
      BY <2>8, RingFinishes DEF Space, RingInv, Finishing, Places
    <2>9. CASE Step
      BY <2>9, RingReturns, RingFinishes DEF Step, Places
    <2>10. CASE Idle
      BY <2>10 DEF Idle, decoder, RingInv, Finishing, Places
    <2> QED
      BY <1>8, <2>1, <2>2, <2>3, <2>4, <2>5, <2>6, <2>7, <2>8, <2>9, <2>10 DEF Worker
  <1>9. CASE UNCHANGED vars
    BY <1>9 DEF vars, decoder, worker, RingInv, Finishing, Places
  <1> QED
    BY <1>1, <1>2, <1>3, <1>4, <1>5, <1>6, <1>7, <1>8, <1>9 DEF Next

-----------------------------------------------------------------------------
\* What the recorder and the clock do is no business of the kept recordings.
LEMMA KeepStart == Init => KeepInv
  BY DEF Init, KeepInv, Finishing

LEMMA KeepStays ==
  ASSUME KeepInv, UNCHANGED <<card, worker, recent, protection, kept, unmarked>>
  PROVE  KeepInv'
  BY DEF KeepInv, Finishing, card, worker

\* call_store_delete takes the marker's claim away with the recording.
LEMMA KeepDeletes ==
  ASSUME KeepInv, ~Finishing, NEW n, NEW next \in Places, Delete(n, next),
         UNCHANGED <<mark, recent, protection, open>>
  PROVE  KeepInv'
  <1>1. CASE wav' = wav \ {n} /\ kept' = kept \ {n} /\ unmarked' = unmarked \ {n}
             /\ victim' = n /\ at' = "unlink_meta"
    BY <1>1 DEF KeepInv, Finishing
  <1>2. CASE at' = next /\ UNCHANGED <<wav, kept, unmarked, victim>>
    BY <1>2 DEF KeepInv, Finishing, Places
  <1> QED
    BY <1>1, <1>2 DEF Delete

\* Finishing a file adds a recording at most.
LEMMA KeepFinishes ==
  ASSUME KeepInv, NEW discard, NEW next \in Places, open # None,
         Finish(discard, next), UNCHANGED <<wav, mark, recent, protection, kept, unmarked>>
  PROVE  KeepInv'
  BY DEF KeepInv, Finish, Discard, Return, Finishing, Places

LEMMA KeepStep == RingInv /\ KeepInv /\ [Next]_vars => KeepInv'
  <1> SUFFICES ASSUME RingInv, KeepInv, [Next]_vars PROVE KeepInv'
    OBVIOUS
  <1>0. back \in Places
    BY DEF RingInv
  <1>1. CASE \E split \in BOOLEAN : Audio(split)
    BY <1>1, KeepStays DEF Audio, others, ghosts
  <1>2. CASE Hangup \/ Encrypted
    BY <1>2, KeepStays DEF Hangup, Encrypted, others, ghosts
  <1>3. CASE \E n \in recent : AskDelete(n)
    BY <1>3 DEF AskDelete, KeepInv, Finishing, card, worker
  <1>4. CASE \E n \in recent : Play(n)
    BY <1>4, KeepStays DEF Play, ghosts
  <1>5. ASSUME NEW n \in recent, NEW on \in BOOLEAN, AskKeep(n, on) PROVE KeepInv'
    <2>1. /\ UNCHANGED <<mark, wav, recent, at, open, victim, unmarked>>
          /\ protection.name = None /\ protection' = [name |-> n, on |-> on]
          /\ kept' = IF on /\ n \in wav THEN kept \cup {n} ELSE kept \ {n}
      BY <1>5 DEF AskKeep, card, worker
    <2>2. \A o \in kept : o \in mark \/ o \in unmarked
      <3> SUFFICES ASSUME NEW o \in kept, o \notin mark, o \notin unmarked PROVE FALSE
        OBVIOUS
      <3>1. protection = [name |-> o, on |-> TRUE] /\ o \in wav
        BY DEF KeepInv
      <3>2. protection.name = o
        BY <3>1
      <3> QED
        BY <3>1, <3>2, <2>1 DEF KeepInv
    <2>3. protection'.name = n /\ protection'.on = on
      BY <2>1
    <2>4. \A o \in kept' : \/ o \in mark' \/ o \in unmarked'
                            \/ protection' = [name |-> o, on |-> TRUE]
      BY <2>1, <2>2
    <2>5. ~protection'.on => protection'.name \notin kept'
      BY <2>1, <2>3
    <2> QED
      BY <2>1, <2>4, <2>5 DEF KeepInv, Finishing
  <1>6. CASE \E n \in playing : StopPlaying(n)
    BY <1>6, KeepStays DEF StopPlaying, ghosts
  <1>7. CASE Refresh \/ Midnight \/ SetClock
    BY <1>7, KeepStays DEF Refresh, Midnight, SetClock, ghosts
  <1>8. CASE PowerCut
    <2>1. /\ UNCHANGED <<wav, mark>> /\ recent' = {} /\ at' = "top"
          /\ kept' = kept \cap mark
          /\ protection' = [name |-> None, on |-> FALSE]
      BY <1>8 DEF PowerCut, card
    <2>2. protection'.name = None
      BY <2>1
    <2>3. protection'.name \notin kept'
      BY <2>1, <2>2 DEF KeepInv
    <2> QED
      BY <2>1, <2>3 DEF KeepInv, Finishing
  <1>9. CASE Worker
    <2>1. CASE TakeDeletion
      <3>1. CASE deletion = None
        BY <2>1, <3>1 DEF TakeDeletion, KeepInv, Finishing
      <3>2. CASE deletion # None
        BY <2>1, <3>2, KeepDeletes DEF TakeDeletion, Finishing, Places
      <3> QED
        BY <3>1, <3>2
    <2>2. CASE TakeProtection
      <3>1. /\ UNCHANGED <<wav, recent, kept, open, victim>> /\ at' = "retain"
            /\ protection' = [name |-> None, on |-> FALSE]
            /\ Protects(protection.name, protection.on)
        BY <2>2 DEF TakeProtection
      <3>2. ASSUME NEW n \in kept PROVE n \in mark' \/ n \in unmarked'
        <4>1. n \in wav /\ (~protection.on => protection.name # n)
          BY DEF KeepInv
        <4>2. CASE protection.name = n
          BY <4>1, <4>2, <3>1 DEF Protects
        <4>3. CASE protection.name # n
          <5>1. n \in mark \/ n \in unmarked
            BY <4>3 DEF KeepInv
          <5>2. (n \in mark => n \in mark') /\ (n \in unmarked => n \in unmarked')
            BY <4>3, <3>1 DEF Protects
          <5> QED
            BY <5>1, <5>2
        <4> QED
          BY <4>2, <4>3
      <3>3. protection'.name = None
        BY <3>1
      <3>4. protection'.name \notin kept'
        BY <3>1, <3>3 DEF KeepInv
      <3> QED
        BY <3>1, <3>2, <3>4 DEF KeepInv, Finishing
    <2>3. CASE Retain
      <3>1. PICK n \in left : IF n \in mark THEN UNCHANGED <<at, wav, victim, back, kept, unmarked>>
                              ELSE Delete(n, "retain")
        BY <2>3 DEF Retain
      <3>2. at = "retain" /\ UNCHANGED <<mark, recent, protection, open>>
        BY <2>3 DEF Retain, others
      <3>3. CASE n \in mark
        BY <3>1, <3>2, <3>3 DEF KeepInv, Finishing
      <3>4. CASE n \notin mark
        BY <3>1, <3>2, <3>4, KeepDeletes DEF Finishing, Places
      <3> QED
        BY <3>3, <3>4
    <2>4. CASE UnlinkMeta
      BY <2>4 DEF UnlinkMeta, others, ghosts, KeepInv, Finishing
    <2>5. CASE UnlinkKeep
      BY <2>5, <1>0 DEF UnlinkKeep, others, ghosts, KeepInv, Finishing, Places
    <2>6. CASE WriteMeta
      BY <2>6, <1>0 DEF WriteMeta, Discard, Return, others, ghosts, KeepInv, Finishing, Places
    <2>7. CASE Rename
      BY <2>7, <1>0 DEF Rename, Discard, Return, others, ghosts, KeepInv, Finishing, Places
    <2>8. CASE Space
      <3>1. /\ ~Finishing /\ UNCHANGED <<wav, mark, victim, recent, protection, kept, unmarked>>
        BY <2>8 DEF Space, others, Finishing
      <3>2. CASE at' = "step"
        BY <3>1, <3>2 DEF KeepInv, Finishing
      <3>3. CASE at' # "step"
        BY <2>8, <3>1, <3>3, KeepFinishes DEF Space, Places
      <3> QED
        BY <3>2, <3>3
    <2>9. CASE Step
      <3>1. ~Finishing /\ UNCHANGED <<wav, mark, victim, recent, protection, kept, unmarked>>
        BY <2>9 DEF Step, others, ghosts, Finishing
      <3>2. CASE at' = "top"
        BY <3>1, <3>2 DEF KeepInv, Finishing
      <3>3. CASE at' # "top"
        <4>1. open # None /\ Finish(Head(ring).event = "abort", "top")
          BY <2>9, <3>3 DEF Step, Return
        <4> QED
          BY <4>1, <3>1, KeepFinishes DEF Places
      <3> QED
        BY <3>2, <3>3
    <2>10. CASE Idle
      BY <2>10 DEF Idle, card, others, ghosts, KeepInv, Finishing
    <2> QED
      BY <1>9, <2>1, <2>2, <2>3, <2>4, <2>5, <2>6, <2>7, <2>8, <2>9, <2>10 DEF Worker
  <1>10. CASE UNCHANGED vars
    BY <1>10, KeepStays DEF vars, others, ghosts
  <1> QED
    BY <1>1, <1>2, <1>3, <1>4, <1>5, <1>6, <1>7, <1>8, <1>9, <1>10 DEF Next

-----------------------------------------------------------------------------
\* Types.  A name is made only of the day and a number.
LEMMA Names ==
  /\ None \notin Name /\ NoDay \in Int /\ MaxDay \in Nat
  /\ \A n \in Name : n # None
  /\ TypeOK => \A k \in 0..MaxCall : Free(k) \in Name
  <1>1. MaxDay \in Nat /\ NoDay = -1 /\ None.day = NoDay - 1
    BY BoundsAssumption DEF NoDay, None
  <1>2. \A n \in Name : n.day \in NoDay..MaxDay
    BY DEF Name
  <1>3. None \notin Name
    BY <1>1, <1>2
  <1>4. ASSUME TypeOK, NEW k \in 0..MaxCall PROVE Free(k) \in Name
    <2>1. (IF synced THEN day ELSE NoDay) \in NoDay..MaxDay
      BY <1>1, <1>4 DEF TypeOK
    <2> QED
      BY <2>1 DEF Free, Name
  <1> QED
    BY <1>1, <1>3, <1>4

LEMMA TypeStart == Init => TypeInv
  <1> SUFFICES ASSUME Init PROVE TypeInv
    OBVIOUS
  <1>1. /\ 0 \in 0..MaxCall /\ 0 \in 0..MaxDay /\ 0 \in 0..MaxCuts /\ 0 \in 0..MaxAsks
        /\ NoDay \in NoDay..MaxDay
    BY BoundsAssumption DEF NoDay
  <1>2. ring \in Seq(Block) /\ Len(ring) <= Capacity
    BY CapacityAssumption DEF Init
  <1>3. heard \in [Name -> SUBSET Call] /\ meta \in [Name -> 0..MaxCall]
    BY <1>1 DEF Init
  <1>4. protection \in Keep
    BY DEF Init, Keep
  <1> QED
    BY <1>1, <1>2, <1>3, <1>4 DEF Init, TypeInv, TypeOK

\* The parts of TypeOK that the decoder and the worker change, and the rest.
CardOK ==
    /\ part \in SUBSET Name /\ wav \in SUBSET Name /\ mark \in SUBSET Name
    /\ heard \in [Name -> SUBSET Call] /\ meta \in [Name -> 0..MaxCall]
WorkerOK ==
    /\ at \in {"top", "protect", "retain", "step", "idle",
               "unlink_meta", "unlink_keep", "side", "rename"}
    /\ back \in {"top", "protect", "retain", "step"}
    /\ open \in Name \cup {None} /\ writing \in 0..MaxCall
    /\ victim \in Name \cup {None} /\ left \in SUBSET Name
    /\ paused \in BOOLEAN /\ retained \in NoDay..MaxDay
OthersOK ==
    /\ deletion \in Name \cup {None} /\ protection \in Keep
    /\ playing \in SUBSET Name /\ day \in 0..MaxDay /\ synced \in BOOLEAN
    /\ cuts \in 0..MaxCuts /\ asks \in 0..MaxAsks
GhostsOK ==
    /\ revoked \in SUBSET Call /\ guarded \in SUBSET Call
    /\ kept \in SUBSET Name /\ unmarked \in SUBSET Name

\* Giving a file up or finishing it; deleting a recording.
LEMMA TypeFinishes ==
  ASSUME CardOK, WorkerOK, open # None, open # None => writing \in Call,
         NEW discard, NEW next \in Places, Finish(discard, next),
         UNCHANGED <<wav, mark, heard, victim, left, retained>>,
         paused' \in BOOLEAN
  PROVE  CardOK' /\ WorkerOK' /\ (open' # None => writing' \in Call)
  <1>1. 0 \in 0..MaxCall
    BY CallBound
  <1>2. CASE Discard(open) /\ Return(next)
    <2>1. CardOK'
      BY <1>1, <1>2 DEF CardOK, Discard
    <2>2. WorkerOK'
      BY <1>1, <1>2 DEF WorkerOK, Discard, Return, Places
    <2> QED
      BY <2>1, <2>2, <1>2 DEF Discard
  <1>3. CASE at' = "side" /\ back' = next /\ UNCHANGED <<ring, part, meta, open, writing>>
    BY <1>3 DEF CardOK, WorkerOK, Places
  <1> QED
    BY <1>2, <1>3 DEF Finish

LEMMA TypeDeletes ==
  ASSUME CardOK, WorkerOK, GhostsOK, NEW n \in Name, NEW next \in Places, Delete(n, next),
         left' \subseteq left,
         UNCHANGED <<part, heard, meta, mark, open, writing, paused, retained, revoked, guarded>>
  PROVE  CardOK' /\ WorkerOK' /\ GhostsOK'
  <1>1. kept' \subseteq kept /\ unmarked' \subseteq unmarked /\ wav' \subseteq wav
    BY DEF Delete
  <1>2. back' \in Places /\ victim' \in Name \cup {None}
        /\ at' \in Places \cup {"unlink_meta"}
    BY DEF Delete, WorkerOK, Places
  <1> QED
    BY <1>1, <1>2 DEF CardOK, WorkerOK, GhostsOK, Places

LEMMA TypeStep == RingInv /\ RingInv' /\ KeepInv /\ TypeInv /\ [Next]_vars => TypeInv'
  <1> SUFFICES ASSUME RingInv, RingInv', KeepInv, TypeInv, [Next]_vars PROVE TypeInv'
    OBVIOUS
  <1>0. /\ TypeOK /\ (open # None => writing \in Call) /\ CardOK /\ WorkerOK
        /\ OthersOK /\ GhostsOK /\ poisoned \in BOOLEAN /\ refresh \in BOOLEAN
        /\ recent \in SUBSET Name /\ MaxDay \in Nat /\ MaxCuts \in Nat /\ MaxAsks \in Nat
        /\ MaxCall \in Nat /\ 0 \in 0..MaxCall /\ NoDay \in NoDay..MaxDay
    BY BoundsAssumption DEF TypeInv, TypeOK, CardOK, WorkerOK, OthersOK, GhostsOK, NoDay
  <1>a. /\ ring' \in Seq(Block) /\ Len(ring') <= Capacity
        /\ active' \in BOOLEAN /\ current' \in 0..MaxCall
    BY DEF RingInv
  <1>b. ASSUME UNCHANGED <<card, worker>>
        PROVE  CardOK' /\ WorkerOK' /\ (open' # None => writing' \in Call)
    BY <1>0, <1>b DEF CardOK, WorkerOK, card, worker
  <1>c. ASSUME UNCHANGED others PROVE OthersOK'
    BY <1>0, <1>c DEF OthersOK, others
  <1>d. ASSUME UNCHANGED ghosts PROVE GhostsOK'
    BY <1>0, <1>d DEF GhostsOK, ghosts
  <1>e. ASSUME poisoned' \in BOOLEAN, refresh' \in BOOLEAN, recent' \in SUBSET Name,
               CardOK', WorkerOK', OthersOK', GhostsOK', open' # None => writing' \in Call
        PROVE  TypeInv'
    BY <1>a, <1>e DEF TypeInv, TypeOK, CardOK, WorkerOK, OthersOK, GhostsOK
  <1>1. CASE \E split \in BOOLEAN : Audio(split)
    <2>1. poisoned' \in BOOLEAN
      BY <1>1, <1>0 DEF Audio, End, Record
    <2> QED
      BY <1>1, <2>1, <1>0, <1>e, <1>b, <1>c, <1>d DEF Audio
  <1>2. CASE Hangup
    BY <1>2, <1>0, <1>e, <1>b, <1>c, <1>d DEF Hangup, End
  <1>3. CASE Encrypted
    <2>1. GhostsOK'
      BY <1>3, <1>0 DEF Encrypted, GhostsOK, RingInv, Call
    <2> QED
      BY <1>3, <2>1, <1>0, <1>e, <1>b, <1>c DEF Encrypted, End
  <1>4. ASSUME NEW n \in recent, AskDelete(n) \/ Play(n) \/ \E on \in BOOLEAN : AskKeep(n, on)
        PROVE  TypeInv'
    <2>1. n \in Name
      BY <1>0
    <2>2. CASE AskDelete(n)
      <3>1. OthersOK'
        BY <1>0, <2>1, <2>2 DEF AskDelete, Ask, OthersOK
      <3>2. GhostsOK'
        BY <1>0, <2>1, <2>2 DEF AskDelete, GhostsOK
      <3> QED
        BY <2>2, <3>1, <3>2, <1>0, <1>e, <1>b DEF AskDelete, decoder
    <2>3. CASE Play(n)
      <3>1. OthersOK'
        BY <1>0, <2>1, <2>3 DEF Play, OthersOK
      <3> QED
        BY <2>3, <3>1, <1>0, <1>e, <1>b, <1>d DEF Play, decoder
    <2>4. ASSUME NEW on \in BOOLEAN, AskKeep(n, on) PROVE TypeInv'
      <3>0. protection' \in Keep
        BY <2>1, <2>4 DEF AskKeep, Keep
      <3>1. OthersOK'
        BY <1>0, <3>0, <2>4 DEF AskKeep, Ask, OthersOK
      <3>2. GhostsOK'
        BY <1>0, <2>1, <2>4 DEF AskKeep, GhostsOK
      <3> QED
        BY <2>4, <3>1, <3>2, <1>0, <1>e, <1>b DEF AskKeep, decoder
    <2> QED
      BY <1>4, <2>2, <2>3, <2>4
  <1>5. CASE \E n \in playing : StopPlaying(n)
    <2>1. OthersOK'
      BY <1>5, <1>0 DEF StopPlaying, OthersOK
    <2> QED
      BY <1>5, <2>1, <1>0, <1>e, <1>b, <1>d DEF StopPlaying, decoder
  <1>6. CASE Refresh \/ Midnight \/ SetClock
    <2>1. OthersOK'
      <3>1. asks' \in 0..MaxAsks
        BY <1>6, <1>0 DEF Refresh, Ask, Midnight, SetClock, OthersOK
      <3>2. day' \in 0..MaxDay
        BY <1>6, <1>0 DEF Refresh, Midnight, SetClock, OthersOK
      <3>4. synced' \in BOOLEAN
        BY <1>6, <1>0 DEF Refresh, Midnight, SetClock, OthersOK
      <3>3. UNCHANGED <<deletion, protection, playing, cuts>>
        BY <1>6 DEF Refresh, Midnight, SetClock
      <3> QED
        BY <3>1, <3>2, <3>3, <3>4, <1>0 DEF OthersOK
    <2> QED
      BY <1>6, <2>1, <1>0, <1>e, <1>b, <1>d DEF Refresh, Midnight, SetClock, decoder
  <1>7. CASE PowerCut
    <2>1. WorkerOK' /\ open' = None
      BY <1>7, <1>0, Names DEF PowerCut, WorkerOK
    <2>2. protection' \in Keep
      BY <1>7 DEF PowerCut, Keep
    <2>3. OthersOK'
      <3>1. cuts' \in 0..MaxCuts
        BY <1>7, <1>0 DEF PowerCut, OthersOK
      <3>2. /\ deletion' = None /\ playing' = {} /\ synced' = FALSE
            /\ UNCHANGED <<day, asks>>
        BY <1>7 DEF PowerCut
      <3> QED
        BY <2>2, <3>1, <3>2, <1>0 DEF OthersOK
    <2>4. GhostsOK'
      BY <1>7, <1>0 DEF PowerCut, GhostsOK
    <2>5. CardOK'
      BY <1>7, <1>0 DEF PowerCut, CardOK, card
    <2> QED
      BY <1>7, <2>1, <2>3, <2>4, <2>5, <1>0, <1>e DEF PowerCut
  <1>8. CASE Worker
    <2>0. back \in Places /\ UNCHANGED poisoned
      BY <1>8 DEF RingInv, Worker, decoder, TakeDeletion, TakeProtection, Retain, Space,
                  Step, Idle, UnlinkMeta, UnlinkKeep, WriteMeta, Rename
    <2>1. CASE TakeDeletion
      <3>1. OthersOK'
        BY <2>1, <1>0 DEF TakeDeletion, OthersOK
      <3>2. CASE deletion = None
        <4>1. CardOK' /\ WorkerOK' /\ GhostsOK'
          BY <2>1, <3>2, <1>0 DEF TakeDeletion, CardOK, WorkerOK, GhostsOK
        <4> QED
          BY <2>0, <2>1, <3>1, <3>2, <4>1, <1>0, <1>e DEF TakeDeletion
      <3>3. CASE deletion # None
        <4>1. deletion \in Name
          BY <3>3, <1>0 DEF OthersOK
        <4>2. CardOK' /\ WorkerOK' /\ GhostsOK'
          BY <2>1, <3>3, <4>1, <1>0, TypeDeletes DEF TakeDeletion, Places
        <4> QED
          BY <2>0, <2>1, <3>1, <3>3, <4>2, <1>0, <1>e DEF TakeDeletion
      <3> QED
        BY <3>2, <3>3
    <2>2. CASE TakeProtection
      <3>1. protection' \in Keep
        BY <2>2 DEF TakeProtection, Keep
      <3>2. OthersOK'
        BY <2>2, <3>1, <1>0 DEF TakeProtection, OthersOK
      <3>3. mark' \in SUBSET Name /\ GhostsOK'
        BY <2>2, <1>0 DEF TakeProtection, Protects, CardOK, GhostsOK
      <3>4. retained' \in NoDay..MaxDay
        BY <2>2, <1>0 DEF TakeProtection, WorkerOK, OthersOK, NoDay
      <3>5. CardOK' /\ WorkerOK'
        BY <2>2, <3>3, <3>4, <1>0 DEF TakeProtection, CardOK, WorkerOK
      <3>6. refresh' \in BOOLEAN
        BY <2>2, <1>0 DEF TakeProtection
      <3> QED
        BY <2>0, <2>2, <3>2, <3>3, <3>5, <3>6, <1>0, <1>e DEF TakeProtection
    <2>3. CASE Retain
      <3>1. PICK n \in left : /\ left' = left \ {n}
                              /\ IF n \in mark THEN UNCHANGED <<at, wav, victim, back, kept, unmarked>>
                                 ELSE Delete(n, "retain")
        BY <2>3 DEF Retain
      <3>2. n \in Name
        BY <1>0 DEF WorkerOK
      <3>3. CASE n \in mark
        BY <2>0, <2>3, <3>1, <3>3, <1>0, <1>e, <1>c DEF Retain, CardOK, WorkerOK, GhostsOK
      <3>4. CASE n \notin mark
        <4>1. CardOK' /\ WorkerOK' /\ GhostsOK'
          BY <2>3, <3>1, <3>2, <3>4, <1>0, TypeDeletes DEF Retain, Places
        <4> QED
          BY <2>0, <2>3, <4>1, <1>0, <1>e, <1>c DEF Retain
      <3> QED
        BY <3>3, <3>4
    <2>4. CASE UnlinkMeta
      <3>1. meta' \in [Name -> 0..MaxCall]
        BY <2>4, <1>0 DEF UnlinkMeta, CardOK
      <3> QED
        BY <2>0, <2>4, <3>1, <1>0, <1>e, <1>c, <1>d DEF UnlinkMeta, CardOK, WorkerOK
    <2>5. CASE UnlinkKeep
      BY <2>0, <2>5, <1>0, <1>e, <1>c, <1>d DEF UnlinkKeep, CardOK, WorkerOK, Places
    <2>6. CASE WriteMeta
      <3>0. open \in Name /\ 0 \in 0..MaxCall
        BY <2>6, <1>0 DEF WriteMeta, KeepInv, Finishing, WorkerOK
      <3>1. meta' \in [Name -> 0..MaxCall] /\ part' \in SUBSET Name
        BY <2>6, <1>0, <3>0 DEF WriteMeta, Discard, CardOK, WorkerOK
      <3>2. CardOK'
        BY <2>6, <1>0, <3>1 DEF WriteMeta, CardOK
      <3>3. WorkerOK' /\ (open' # None => writing' \in Call)
        BY <2>0, <2>6, <1>0, <3>0 DEF WriteMeta, Discard, Return, WorkerOK, Places
      <3> QED
        BY <2>0, <2>6, <3>2, <3>3, <1>0, <1>e, <1>c, <1>d DEF WriteMeta
    <2>7. CASE Rename
      <3>0. open \in Name /\ 0 \in 0..MaxCall
        BY <2>7, <1>0 DEF Rename, KeepInv, Finishing, WorkerOK
      <3>1. /\ meta' \in [Name -> 0..MaxCall] /\ part' \in SUBSET Name
            /\ wav' \in SUBSET Name /\ recent' \in SUBSET Name
        BY <2>7, <1>0, <3>0 DEF Rename, Discard, CardOK, WorkerOK
      <3>2. CardOK'
        BY <2>7, <1>0, <3>1 DEF Rename, CardOK
      <3>3. WorkerOK' /\ open' = None
        BY <2>0, <2>7, <1>0, <3>0 DEF Rename, Discard, Return, WorkerOK, Places
      <3> QED
        BY <2>0, <2>7, <3>1, <3>2, <3>3, <1>0, <1>e, <1>c, <1>d DEF Rename
    <2>8. CASE Space
      <3>1. /\ UNCHANGED <<wav, mark, heard, victim, left, retained, recent, others,
                          revoked, kept, unmarked>>
            /\ paused' \in BOOLEAN /\ refresh' \in BOOLEAN
        BY <2>8, <1>0 DEF Space, WorkerOK
      <3>2. CASE UNCHANGED <<part, meta, open, writing, back, guarded>> /\ at' = "step"
        <4>1. CardOK' /\ WorkerOK' /\ GhostsOK'
          BY <3>1, <3>2, <1>0 DEF CardOK, WorkerOK, GhostsOK
        <4> QED
          BY <2>0, <3>1, <3>2, <4>1, <1>0, <1>e, <1>c
      <3>3. CASE open # None /\ Finish(FALSE, "step") /\ guarded' = guarded \cup {writing}
        <4>1. CardOK' /\ WorkerOK' /\ (open' # None => writing' \in Call)
          BY <3>1, <3>3, <1>0, TypeFinishes DEF Places
        <4>2. GhostsOK'
          BY <3>1, <3>3, <1>0 DEF GhostsOK
        <4> QED
          BY <2>0, <3>1, <4>1, <4>2, <1>0, <1>e, <1>c
      <3> QED
        BY <2>8, <3>2, <3>3 DEF Space
    <2>9. CASE Step
      <3> DEFINE b == Head(ring)
      <3>0. b.call \in Call /\ b.call \in 0..MaxCall
        <4>1. b \in Block
          BY <2>9 DEF Step, RingInv
        <4> QED
          BY <4>1, <1>0 DEF Block, Call
      <3>1. UNCHANGED <<wav, mark, victim, left, paused, retained, refresh, recent,
                        others, ghosts>>
        BY <2>9 DEF Step
      <3>2. CASE Return("top") /\ UNCHANGED <<part, meta, heard, open, writing>>
        <4>1. CardOK' /\ WorkerOK'
          BY <3>1, <3>2, <1>0 DEF CardOK, WorkerOK, Return
        <4> QED
          BY <2>0, <3>1, <3>2, <4>1, <1>0, <1>e, <1>c, <1>d
      <3>3. CASE Begin(b.call) /\ Return("top")
        <4>1. meta' \in [Name -> 0..MaxCall]
          BY <3>3, <3>0, <1>0 DEF Begin, CardOK
        <4>2. CASE open' = None /\ writing' = 0 /\ part' \subseteq part /\ UNCHANGED heard
          <5>1. CardOK' /\ WorkerOK'
            BY <3>1, <3>3, <4>1, <4>2, <3>0, <1>0 DEF CardOK, WorkerOK, Return
          <5> QED
            BY <2>0, <3>1, <4>2, <5>1, <1>0, <1>e, <1>c, <1>d
        <4>3. ASSUME NEW k \in 0..MaxCall, open' = Free(k), writing' = b.call,
                     part' \subseteq part \cup {open'},
                     heard' = [heard EXCEPT ![open'] = {}]
              PROVE  TypeInv'
          <5>1. open' \in Name /\ writing' \in 0..MaxCall /\ writing' \in Call
            BY <4>3, <1>0, <3>0, Names DEF Call
          <5>2. CardOK'
            BY <3>1, <4>1, <4>3, <5>1, <1>0 DEF CardOK
          <5>3. WorkerOK'
            BY <3>1, <3>3, <5>1, <1>0 DEF WorkerOK, Return
          <5> QED
            BY <2>0, <3>1, <5>1, <5>2, <5>3, <1>0, <1>e, <1>c, <1>d
        <4> QED
          BY <3>3, <4>2, <4>3 DEF Begin
      <3>4. CASE /\ heard' = [heard EXCEPT ![open] = @ \cup {b.call}]
                 /\ Return("top") /\ UNCHANGED <<part, meta, open, writing>>
        <4>1. heard' \in [Name -> SUBSET Call]
          BY <3>0, <3>4, <1>0 DEF CardOK
        <4>2. CardOK' /\ WorkerOK'
          BY <3>1, <3>4, <4>1, <1>0 DEF CardOK, WorkerOK, Return
        <4> QED
          BY <2>0, <3>1, <3>4, <4>2, <1>0, <1>e, <1>c, <1>d
      <3>5. CASE open # None /\ Finish(b.event = "abort", "top") /\ UNCHANGED heard
        <4>1. paused' \in BOOLEAN
          BY <3>1, <1>0 DEF WorkerOK
        <4>2. CardOK' /\ WorkerOK' /\ (open' # None => writing' \in Call)
          BY <3>1, <3>5, <4>1, <1>0, TypeFinishes DEF Places
        <4> QED
          BY <2>0, <3>1, <4>2, <1>0, <1>e, <1>c, <1>d
      <3> QED
        BY <2>9, <3>2, <3>3, <3>4, <3>5 DEF Step
    <2>10. CASE Idle
      <3>1. recent' \in SUBSET Name /\ refresh' \in BOOLEAN
        BY <2>10, <1>0 DEF Idle, CardOK
      <3>2. CardOK' /\ WorkerOK'
        BY <2>10, <1>0 DEF Idle, card, CardOK, WorkerOK
      <3> QED
        BY <2>0, <2>10, <3>1, <3>2, <1>0, <1>e, <1>c, <1>d DEF Idle
    <2> QED
      BY <1>8, <2>1, <2>2, <2>3, <2>4, <2>5, <2>6, <2>7, <2>8, <2>9, <2>10 DEF Worker
  <1>9. CASE UNCHANGED vars
    <2>1. UNCHANGED <<card, worker, others, ghosts, recent, refresh, poisoned>>
      BY <1>9 DEF vars, decoder
    <2> QED
      BY <2>1, <1>0, <1>e, <1>b, <1>c, <1>d
  <1> QED
    BY <1>1, <1>2, <1>3, <1>4, <1>5, <1>6, <1>7, <1>8, <1>9 DEF Next

-----------------------------------------------------------------------------
\* The list.  Only a pass that will have it read again deletes a recording.
LEMMA ListStep == ListInv /\ FileInv /\ [Next]_vars => ListInv'
  <1> SUFFICES ASSUME ListInv, FileInv, [Next]_vars PROVE ListInv'
    OBVIOUS
  <1>0. ASSUME UNCHANGED <<wav, recent, left, at, back>>, refresh => refresh' PROVE ListInv'
    BY <1>0 DEF ListInv
  <1>1. CASE (\E split \in BOOLEAN : Audio(split)) \/ Hangup \/ Encrypted
    BY <1>0, <1>1 DEF Audio, Hangup, Encrypted, card, worker
  <1>2. CASE \E n \in recent : AskDelete(n) \/ Play(n) \/ \E on \in BOOLEAN : AskKeep(n, on)
    BY <1>0, <1>2 DEF AskDelete, Play, AskKeep, card, worker
  <1>3. CASE (\E n \in playing : StopPlaying(n)) \/ Refresh \/ Midnight \/ SetClock
    BY <1>0, <1>3 DEF StopPlaying, Refresh, Midnight, SetClock, card, worker
  <1>4. CASE PowerCut
    BY <1>4 DEF PowerCut, ListInv
  <1>5. CASE Worker
    <2>1. CASE TakeDeletion
      <3>1. left = {} /\ left' = {}
        BY <2>1 DEF TakeDeletion, ListInv
      <3> QED
        BY <2>1, <3>1 DEF TakeDeletion, Delete, ListInv
    <2>2. CASE TakeProtection
      BY <2>2 DEF TakeProtection, ListInv
    <2>3. CASE Retain
      BY <2>3 DEF Retain, Delete, ListInv
    <2>4. CASE UnlinkMeta
      BY <2>4 DEF UnlinkMeta, ListInv
    <2>5. CASE UnlinkKeep
      BY <2>5 DEF UnlinkKeep, ListInv
    <2>6. CASE WriteMeta
      BY <2>6 DEF WriteMeta, Return, ListInv
    <2>7. CASE Rename
      BY <2>7 DEF Rename, Return, ListInv
    <2>8. CASE Space
      BY <2>8 DEF Space, Finish, Return, ListInv
    <2>9. CASE Step
      BY <2>9 DEF Step, Finish, Return, ListInv
    <2>10. CASE Idle
      <3>1. left = {} /\ left' = {}
        BY <2>10 DEF Idle, ListInv
      <3>2. {n \in wav : meta[n] # 0} = wav
        BY DEF FileInv, CallsApart
      <3> QED
        BY <2>10, <3>1, <3>2 DEF Idle, card, ListInv
    <2> QED
      BY <1>5, <2>1, <2>2, <2>3, <2>4, <2>5, <2>6, <2>7, <2>8, <2>9, <2>10 DEF Worker
  <1>6. CASE UNCHANGED vars
    BY <1>0, <1>6 DEF vars, card, worker
  <1> QED
    BY <1>1, <1>2, <1>3, <1>4, <1>5, <1>6 DEF Next

-----------------------------------------------------------------------------
\* A block appended: the old blocks keep their places.
LEMMA AppendPlaces ==
  ASSUME NEW r \in Seq(Block), NEW b \in Block
  PROVE  /\ Append(r, b) \in Seq(Block) /\ Len(r) \in Nat
         /\ DOMAIN r = 1..Len(r) /\ DOMAIN Append(r, b) = 1..Len(r) + 1
         /\ \A i \in DOMAIN r : Append(r, b)[i] = r[i]
         /\ Append(r, b)[Len(r) + 1] = b
  OBVIOUS

\* While a call is recorded the next block is its own; when none is, the next
\* block begins one; a block of audio leaves its call being recorded.
Continues(b, act, cur, act1, cur1) ==
    /\ act => b.event # "begin" /\ b.call = cur /\ cur1 = cur
    /\ ~act => b.event = "begin" /\ b.call = cur + 1 /\ cur1 = cur + 1
    /\ act1 <=> b.event \in {"begin", "pcm"}

LEMMA FollowsOn ==
  ASSUME NEW r \in Seq(Block), NEW b \in Block, NEW from \in 0..Len(r), NEW call,
         NEW act \in BOOLEAN, NEW cur \in Nat, NEW act1 \in BOOLEAN, NEW cur1 \in Nat,
         Continues(b, act, cur, act1, cur1), Follows(r, act, cur, from, call)
  PROVE  Follows(Append(r, b), act1, cur1, from, call)
  <1> DEFINE s == Append(r, b)
  <1>0. /\ s \in Seq(Block) /\ Len(r) \in Nat
        /\ DOMAIN r = 1..Len(r) /\ DOMAIN s = 1..Len(r) + 1
        /\ \A i \in DOMAIN r : s[i] = r[i]
        /\ s[Len(r) + 1] = b
    BY AppendPlaces
  <1> HIDE DEF s
  <1>1. ASSUME \A j \in from + 1..Len(r) : s[j].event = "pcm"
        PROVE  act /\ cur = call
    <2>1. \A i \in DOMAIN r : i > from => r[i].event = "pcm"
      BY <1>0, <1>1
    <2> QED
      BY <2>1 DEF Follows
  <1>2. ASSUME NEW i \in DOMAIN s, i > from, \A j \in from + 1..i - 1 : s[j].event = "pcm"
        PROVE  s[i].event # "begin" /\ s[i].call = call
    <2>1. CASE i \in DOMAIN r
      <3>1. \A j \in from + 1..i - 1 : r[j].event = "pcm"
        BY <1>0, <1>2, <2>1
      <3> QED
        BY <1>0, <1>2, <2>1, <3>1 DEF Follows
    <2>2. CASE i = Len(r) + 1
      BY <1>0, <1>1, <1>2, <2>2 DEF Continues
    <2> QED
      BY <1>0, <2>1, <2>2
  <1>3. ASSUME \A i \in DOMAIN s : i > from => s[i].event = "pcm"
        PROVE  act1 /\ cur1 = call
    <2>1. act /\ cur = call /\ b.event = "pcm"
      BY <1>0, <1>1, <1>3
    <2> QED
      BY <2>1 DEF Continues
  <1> QED
    BY <1>2, <1>3 DEF Follows, s

\* What the recorder appends keeps the calls in order; a call it gives up for
\* its encryption ends in a block that says so.
LEMMA Advance ==
  ASSUME TypeInv, KeepInv, NEW r \in Seq(Block), NEW b \in Block,
         NEW act \in BOOLEAN, NEW cur \in 0..MaxCall, NEW rev \in SUBSET Call,
         NEW act1 \in BOOLEAN, NEW cur1 \in 0..MaxCall, NEW rev1 \in SUBSET Call,
         Calls(r, act, cur, rev), Continues(b, act, cur, act1, cur1),
         \/ rev1 = rev
         \/ b.event = "abort" /\ rev1 = rev \cup {cur}
  PROVE  Calls(Append(r, b), act1, cur1, rev1)
  <1> DEFINE s == Append(r, b)
  <1>0. /\ s \in Seq(Block) /\ Len(r) \in Nat
        /\ DOMAIN r = 1..Len(r) /\ DOMAIN s = 1..Len(r) + 1
        /\ \A i \in DOMAIN r : s[i] = r[i]
        /\ s[Len(r) + 1] = b
    BY AppendPlaces
  <1>1. /\ cur \in Nat /\ cur1 \in Nat /\ writing \in Nat
        /\ \A n \in wav : meta[n] \in Nat
        /\ \A c \in rev1 : c \in Nat
        /\ \A i \in DOMAIN r : r[i].call \in Nat
    <2>1. \A i \in DOMAIN r : r[i] \in Block
      BY <1>0
    <2>2. \A c \in Call : c \in Nat
      BY CallBound DEF Call
    <2>3. \A i \in DOMAIN r : r[i].call \in Call
      BY <2>1 DEF Block
    <2>4. cur \in Nat /\ cur1 \in Nat /\ writing \in Nat
      BY CallBound DEF TypeInv, TypeOK
    <2>5. \A n \in wav : meta[n] \in 0..MaxCall
      BY DEF TypeInv, TypeOK
    <2>6. \A n \in wav : meta[n] \in Nat
      BY <2>5, CallBound
    <2> QED
      BY <2>2, <2>3, <2>4, <2>6
  <1> HIDE DEF s
  <1>2. /\ cur <= cur1 /\ b.call <= cur1 /\ (act => cur1 = cur /\ b.call = cur)
        /\ (b.event = "begin" => cur1 = cur + 1 /\ b.call = cur + 1 /\ ~act)
        /\ (b.event = "end" => act /\ ~act1 /\ rev1 = rev)
        /\ (act1 => b.call = cur1 /\ rev1 = rev)
    BY <1>1 DEF Continues
  <1>3. ASSUME NEW c, Settled(c, act, cur, rev), c \in Nat, c <= cur
        PROVE  Settled(c, act1, cur1, rev1)
    BY <1>1, <1>2, <1>3 DEF Settled, Continues
  <1>4. ASSUME NEW c, Earlier(c, r, cur), c \in Nat
        PROVE  Earlier(c, s, cur1) /\ c <= cur
    BY <1>0, <1>1, <1>2, <1>4 DEF Earlier
  <1>5. ASSUME NEW from \in 0..Len(r), NEW call, Follows(r, act, cur, from, call)
        PROVE  Follows(s, act1, cur1, from, call)
    BY <1>1, <1>5, FollowsOn DEF s
  <1>6. Order(s, act1, cur1, rev1)
    <2>0. Order(r, act, cur, rev)
      BY DEF Calls
    <2>1. \A c \in rev1 : c <= cur1
      BY <1>1, <1>2, <2>0 DEF Order
    <2>2. act1 => cur1 \notin rev1
      BY <1>1, <1>2, <2>0 DEF Order, Continues
    <2>3. ASSUME NEW i \in DOMAIN s
          PROVE  /\ s[i].call <= cur1
                 /\ s[i].event = "end" => s[i].call \notin rev1 /\ ~(act1 /\ cur1 = s[i].call)
      <3>1. CASE i \in DOMAIN r
        BY <1>0, <1>1, <1>2, <2>0, <3>1 DEF Order, Continues
      <3>2. CASE i = Len(r) + 1
        BY <1>0, <1>1, <1>2, <2>0, <3>2 DEF Order
      <3> QED
        BY <1>0, <3>1, <3>2
    <2>4. ASSUME NEW i \in DOMAIN s, s[i].event = "begin"
          PROVE  /\ Follows(s, act1, cur1, i, s[i].call)
                 /\ \A j \in DOMAIN s : j > i /\ s[j].event = "begin" => s[i].call < s[j].call
      <3>1. CASE i \in DOMAIN r
        <4>1. Follows(s, act1, cur1, i, s[i].call)
          BY <1>0, <1>5, <2>0, <2>4, <3>1 DEF Order
        <4>2. ASSUME NEW j \in DOMAIN s, j > i, s[j].event = "begin"
              PROVE  s[i].call < s[j].call
          <5>1. CASE j \in DOMAIN r
            BY <1>0, <2>0, <2>4, <3>1, <4>2, <5>1 DEF Order
          <5>2. CASE j = Len(r) + 1
            BY <1>0, <1>1, <1>2, <2>0, <3>1, <4>2, <5>2 DEF Order
          <5> QED
            BY <1>0, <5>1, <5>2
        <4> QED
          BY <4>1, <4>2
      <3>2. CASE i = Len(r) + 1
        <4>1. act1 /\ cur1 = s[i].call /\ \A j \in DOMAIN s : ~(j > i)
          BY <1>0, <1>2, <2>4, <3>2 DEF Continues
        <4> QED
          BY <4>1 DEF Follows
      <3> QED
        BY <1>0, <3>1, <3>2
    <2> QED
      BY <2>1, <2>2, <2>3, <2>4 DEF Order
  <1>7. ASSUME open # None
        PROVE  /\ Follows(s, act1, cur1, 0, writing) /\ Earlier(writing, s, cur1)
               /\ \A n \in wav : meta[n] < writing
    BY <1>0, <1>1, <1>4, <1>5, <1>7 DEF Calls
  <1>8. ASSUME NEW n \in wav
        PROVE  Earlier(meta[n], s, cur1) /\ Settled(meta[n], act1, cur1, rev1)
    BY <1>1, <1>3, <1>4 DEF Calls
  <1>9. ASSUME Finishing PROVE Settled(writing, act1, cur1, rev1)
    <2>1. open # None
      BY <1>9 DEF KeepInv
    <2> QED
      BY <1>1, <1>3, <1>4, <1>9, <2>1 DEF Calls
  <1> QED
    BY <1>6, <1>7, <1>8, <1>9 DEF Calls, s

\* Only the recorder's part and revoked have changed.
LEMMA Recorded ==
  ASSUME Calls(ring', active', current', revoked'),
         UNCHANGED <<open, writing, wav, meta, guarded, at>>
  PROVE  CallInv'
  BY DEF CallInv, Calls, Order, Follows, Earlier, Settled, Finishing

LEMMA Closes ==
  ASSUME RingInv, KeepInv, TypeInv, CallInv, NEW discard \in BOOLEAN, NEW rev1 \in SUBSET Call,
         IF discard /\ active THEN rev1 = revoked \cup {current} ELSE rev1 = revoked
  PROVE  Calls(Closed(discard), FALSE, current, rev1)
  <1> DEFINE b == [event |-> IF discard THEN "abort" ELSE "end", call |-> current]
  <1>0. /\ ring \in Seq(Block) /\ active \in BOOLEAN /\ current \in 0..MaxCall
        /\ revoked \in SUBSET Call
    BY DEF TypeInv, TypeOK
  <1>1. CASE active
    <2>1. current \in Call
      BY <1>1, CallBound DEF RingInv, Call
    <2>2. b \in Block
      BY <2>1 DEF Block
    <2>3. Closed(discard) = Append(ring, b)
      BY <1>1, CapacityAssumption DEF Closed, Room, RingInv
    <2>4. Continues(b, active, current, FALSE, current)
      BY <1>1 DEF Continues
    <2>5. rev1 = revoked \/ (b.event = "abort" /\ rev1 = revoked \cup {current})
      BY <1>1
    <2>6. Calls(ring, active, current, revoked)
      BY DEF CallInv
    <2> HIDE DEF b
    <2>7. Calls(Append(ring, b), FALSE, current, rev1)
      BY <1>0, <2>2, <2>4, <2>5, <2>6, Advance
    <2> QED
      BY <2>3, <2>7
  <1>2. CASE ~active
    <2>1. Closed(discard) = ring /\ rev1 = revoked /\ active = FALSE
      BY <1>0, <1>2 DEF Closed
    <2> QED
      BY <2>1 DEF CallInv
  <1> QED
    BY <1>1, <1>2

LEMMA CallEnds ==
  ASSUME RingInv, KeepInv, TypeInv, TypeInv', CallInv, NEW discard \in BOOLEAN, End(discard),
         IF discard /\ active THEN revoked' = revoked \cup {current} ELSE revoked' = revoked,
         UNCHANGED <<open, writing, wav, meta, guarded, at>>
  PROVE  CallInv'
  <1>1. revoked' \in SUBSET Call
    BY DEF TypeInv, TypeOK
  <1>2. Calls(Closed(discard), FALSE, current, revoked')
    BY <1>1, Closes
  <1> QED
    BY <1>2, Recorded DEF End

\* The last call is closed if another begins; then that begins; then its audio.
LEMMA CallRecords ==
  ASSUME RingInv, KeepInv, TypeInv, TypeInv', CallInv, NEW split \in BOOLEAN, Record(split),
         UNCHANGED <<open, writing, wav, meta, guarded, at, revoked>>
  PROVE  CallInv'
  <1> DEFINE was    == active /\ ~split
             r1     == IF split THEN Closed(FALSE) ELSE ring
             begins == ~was /\ (split \/ ~poisoned) /\ Room(r1, FALSE)
                       /\ current < MaxCall
             call   == IF begins THEN current + 1 ELSE current
             r2     == IF begins THEN Append(r1, [event |-> "begin", call |-> call])
                       ELSE r1
  <1>0. /\ ring \in Seq(Block) /\ active \in BOOLEAN /\ current \in 0..MaxCall
        /\ revoked \in SUBSET Call /\ MaxCall \in Nat
    BY CallBound DEF TypeInv, TypeOK
  <1>1. /\ active' = (was \/ begins) /\ current' = call
        /\ ring' = IF active' /\ Room(r2, FALSE)
                   THEN Append(r2, [event |-> "pcm", call |-> call]) ELSE r2
    BY DEF Record
  <1>2. r1 \in Seq(Block) /\ Calls(r1, was, current, revoked)
    <2>1. CASE split
      <3>1. Calls(Closed(FALSE), FALSE, current, revoked)
        BY <1>0, Closes
      <3> QED
        BY <2>1, <3>1, ClosedFits
    <2>2. CASE ~split
      <3>1. was = active /\ r1 = ring
        BY <1>0, <2>2
      <3> QED
        BY <1>0, <3>1 DEF CallInv
    <2> QED
      BY <2>1, <2>2
  <1>3. current' \in 0..MaxCall /\ active' \in BOOLEAN /\ (active' => current' \in Call)
    <2>1. current' \in 0..MaxCall
      BY DEF TypeInv, TypeOK
    <2>2. CASE begins
      <3>1. current' = current + 1
        BY <1>1, <2>2
      <3> HIDE DEF call, begins, r2
      <3> QED
        BY <1>0, <1>1, <2>1, <3>1 DEF Call
    <2>3. CASE ~begins
      <3>1. current' = current /\ (active' => active)
        BY <1>1, <2>3
      <3> HIDE DEF call, begins, r2, was, r1
      <3> QED
        BY <1>0, <1>1, <2>1, <3>1 DEF RingInv, Call
    <2> QED
      BY <2>2, <2>3
  <1>4. r2 \in Seq(Block) /\ Calls(r2, active', current', revoked)
    <2>1. CASE begins
      <3> DEFINE b == [event |-> "begin", call |-> current + 1]
      <3>1. /\ current' = current + 1 /\ active' = TRUE /\ was = FALSE
            /\ r2 = Append(r1, b)
        BY <1>1, <2>1
      <3>2. b \in Block
        BY <1>3, <3>1 DEF Block
      <3>3. Continues(b, was, current, active', current')
        BY <3>1 DEF Continues
      <3> HIDE DEF was, r1, begins, call, r2, b
      <3>4. was \in BOOLEAN
        BY <3>1
      <3>5. Calls(Append(r1, b), active', current', revoked)
        BY <1>0, <1>2, <1>3, <3>2, <3>3, <3>4, Advance
      <3> QED
        BY <1>2, <3>1, <3>2, <3>5, AppendPlaces
    <2>2. CASE ~begins
      <3>1. r2 = r1 /\ current' = current /\ active' = was
        BY <1>1, <2>2
      <3> QED
        BY <1>2, <3>1
    <2> QED
      BY <2>1, <2>2
  <1>5. Calls(ring', active', current', revoked')
    <2> DEFINE b == [event |-> "pcm", call |-> current']
    <2>1. CASE active' /\ Room(r2, FALSE)
      <3>1. b \in Block /\ ring' = Append(r2, b)
        BY <1>1, <1>3, <2>1 DEF Block
      <3>2. Continues(b, active', current', active', current')
        BY <2>1 DEF Continues
      <3> HIDE DEF was, r1, begins, call, r2, b
      <3>3. Calls(Append(r2, b), active', current', revoked)
        BY <1>0, <1>3, <1>4, <3>1, <3>2, Advance
      <3> QED
        BY <3>1, <3>3
    <2>2. CASE ~(active' /\ Room(r2, FALSE))
      <3>1. ring' = r2
        BY <1>1, <2>2
      <3> HIDE DEF r2
      <3> QED
        BY <1>4, <3>1
    <2> QED
      BY <2>1, <2>2
  <1> QED
    BY <1>5, Recorded

\* A block consumed: those behind it move up by one place.
LEMMA TailPlaces ==
  ASSUME NEW r \in Seq(Block), r # <<>>
  PROVE  /\ Tail(r) \in Seq(Block) /\ Head(r) = r[1]
         /\ Len(r) \in Nat /\ DOMAIN r = 1..Len(r) /\ DOMAIN Tail(r) = 1..Len(r) - 1
         /\ \A i \in 1..Len(r) - 1 : Tail(r)[i] = r[i + 1]
         /\ 1 \in DOMAIN r /\ r[1] \in Block
  OBVIOUS

LEMMA FollowsTail ==
  ASSUME NEW r \in Seq(Block), r # <<>>, NEW act, NEW cur, NEW call,
         NEW from \in 1..Len(r), Follows(r, act, cur, from, call)
  PROVE  Follows(Tail(r), act, cur, from - 1, call)
  <1> DEFINE t == Tail(r)
  <1>0. /\ Len(r) \in Nat /\ DOMAIN r = 1..Len(r) /\ DOMAIN t = 1..Len(r) - 1
        /\ \A i \in 1..Len(r) - 1 : t[i] = r[i + 1]
    BY TailPlaces
  <1> HIDE DEF t
  <1>1. ASSUME NEW i \in DOMAIN t, i > from - 1,
               \A j \in from - 1 + 1..i - 1 : t[j].event = "pcm"
        PROVE  t[i].event # "begin" /\ t[i].call = call
    <2>1. PICK k \in DOMAIN r : k = i + 1 /\ k > from /\ t[i] = r[k]
      BY <1>0, <1>1
    <2>2. ASSUME NEW j \in from + 1..k - 1 PROVE r[j].event = "pcm"
      <3>1. j - 1 \in from - 1 + 1..i - 1 /\ j - 1 \in 1..Len(r) - 1 /\ j - 1 + 1 = j
        BY <1>0, <1>1, <2>1, <2>2
      <3> QED
        BY <1>0, <1>1, <3>1
    <2>3. r[k].event # "begin" /\ r[k].call = call
      BY <2>1, <2>2 DEF Follows
    <2> QED
      BY <2>1, <2>3
  <1>2. ASSUME \A i \in DOMAIN t : i > from - 1 => t[i].event = "pcm"
        PROVE  act /\ cur = call
    <2>1. ASSUME NEW j \in DOMAIN r, j > from PROVE r[j].event = "pcm"
      <3>1. j - 1 \in DOMAIN t /\ j - 1 > from - 1 /\ j - 1 + 1 = j
        BY <1>0, <2>1
      <3> QED
        BY <1>0, <1>2, <3>1
    <2> QED
      BY <2>1 DEF Follows
  <1> QED
    BY <1>1, <1>2 DEF Follows, t

\* A call goes on behind its audio.
LEMMA FollowsAudio ==
  ASSUME NEW r \in Seq(Block), r # <<>>, NEW act, NEW cur, NEW call,
         r[1].event = "pcm", Follows(r, act, cur, 0, call)
  PROVE  Follows(Tail(r), act, cur, 0, call)
  <1>0. Len(r) \in Nat /\ DOMAIN r = 1..Len(r) /\ 1 \in DOMAIN r
    BY TailPlaces
  <1>1. Follows(r, act, cur, 1, call)
    <2>1. ASSUME NEW i \in DOMAIN r, i > 1, \A j \in 1 + 1..i - 1 : r[j].event = "pcm"
          PROVE  r[i].event # "begin" /\ r[i].call = call
      <3>1. \A j \in 0 + 1..i - 1 : r[j].event = "pcm"
        BY <1>0, <2>1
      <3> QED
        BY <1>0, <2>1, <3>1 DEF Follows
    <2>2. ASSUME \A i \in DOMAIN r : i > 1 => r[i].event = "pcm"
          PROVE  act /\ cur = call
      <3>1. \A i \in DOMAIN r : i > 0 => r[i].event = "pcm"
        BY <1>0, <2>2
      <3> QED
        BY <3>1 DEF Follows
    <2> QED
      BY <2>1, <2>2 DEF Follows
  <1>2. Follows(Tail(r), act, cur, 1 - 1, call)
    BY <1>0, <1>1, FollowsTail
  <1> QED
    BY <1>2

LEMMA Consumed ==
  ASSUME NEW r \in Seq(Block), r # <<>>, NEW act, NEW cur, NEW rev
  PROVE  /\ Order(r, act, cur, rev) => Order(Tail(r), act, cur, rev)
         /\ \A c : Earlier(c, r, cur) => Earlier(c, Tail(r), cur)
  <1> DEFINE t == Tail(r)
  <1>0. /\ Len(r) \in Nat /\ DOMAIN r = 1..Len(r) /\ DOMAIN t = 1..Len(r) - 1
        /\ \A i \in 1..Len(r) - 1 : t[i] = r[i + 1]
    BY TailPlaces
  <1>1. ASSUME NEW i \in DOMAIN t
        PROVE  t[i] = r[i + 1] /\ i + 1 \in DOMAIN r /\ i + 1 \in 1..Len(r) /\ i + 1 - 1 = i
    BY <1>0, <1>1
  <1>2. ASSUME NEW i \in DOMAIN t, NEW call, Follows(r, act, cur, i + 1, call)
        PROVE  Follows(t, act, cur, i, call)
    BY <1>1, <1>2, FollowsTail
  <1>3. ASSUME Order(r, act, cur, rev) PROVE Order(t, act, cur, rev)
    <2>1. ASSUME NEW i \in DOMAIN t, t[i].event = "begin"
          PROVE  /\ Follows(t, act, cur, i, t[i].call)
                 /\ \A j \in DOMAIN t : j > i /\ t[j].event = "begin" => t[i].call < t[j].call
      <3>1. Follows(t, act, cur, i, t[i].call)
        BY <1>1, <1>2, <1>3, <2>1 DEF Order
      <3>2. ASSUME NEW j \in DOMAIN t, j > i, t[j].event = "begin" PROVE t[i].call < t[j].call
        <4>1. j + 1 > i + 1
          BY <1>0, <3>2
        <4> QED
          BY <1>1, <1>3, <2>1, <3>2, <4>1 DEF Order
      <3> QED
        BY <3>1, <3>2
    <2>2. ASSUME NEW i \in DOMAIN t
          PROVE  /\ t[i].call <= cur
                 /\ t[i].event = "end" => t[i].call \notin rev /\ ~(act /\ cur = t[i].call)
      BY <1>1, <1>3, <2>2 DEF Order
    <2> QED
      BY <1>3, <2>1, <2>2 DEF Order
  <1>4. ASSUME NEW c, Earlier(c, r, cur) PROVE Earlier(c, t, cur)
    BY <1>1, <1>4 DEF Earlier
  <1> QED
    BY <1>3, <1>4 DEF t

-----------------------------------------------------------------------------
\* The worker, while no file is opened, written to, finished or given up.
LEMMA CallStays ==
  ASSUME TypeInv, CallInv, FileInv, wav' \subseteq wav, part' \subseteq part,
         \A n \in wav' : meta'[n] = meta[n],
         UNCHANGED <<ring, active, current, open, writing, heard, revoked>>,
         guarded \subseteq guarded', Finishing' => UNCHANGED <<at, meta>>,
         Finishing => UNCHANGED at, paused' => paused \/ open = None
  PROVE  CallInv' /\ FileInv'
  <1>1. Finishing' => Finishing
    BY DEF Finishing
  <1>2. CallInv'
    BY <1>1 DEF CallInv, Calls, Order, Follows, Earlier, Settled
  <1>3. CallsApart'
    BY DEF FileInv, CallsApart
  <1>4. at' = "rename" => at = "rename" /\ UNCHANGED meta
    BY DEF Finishing
  <1>5. paused' /\ open' # None => Finishing'
    BY DEF FileInv, Finishing
  <1> QED
    BY <1>1, <1>2, <1>3, <1>4, <1>5 DEF FileInv

\* The file is given up, and the block that asked for it is consumed.
LEMMA CallGivesUp ==
  ASSUME TypeInv, RingInv, CallInv, FileInv, open # None, NEW next \in Places,
         Discard(open), Return(next), next = "top" => ring # <<>>,
         UNCHANGED <<active, current, wav, heard, revoked>>, guarded \subseteq guarded'
  PROVE  CallInv' /\ FileInv'
  <1>0. /\ open' = None /\ part' \subseteq part /\ ~Finishing'
        /\ \A n \in wav : meta'[n] = meta[n] /\ n \in Name
        /\ meta \in [Name -> 0..MaxCall]
    BY DEF Discard, Return, Places, Finishing, FileInv, TypeInv, TypeOK
  <1>1. Order(ring', active, current, revoked)
        /\ \A n \in wav : Earlier(meta[n], ring', current)
    BY Consumed DEF CallInv, Calls, Return, RingInv
  <1>2. CallInv'
    BY <1>0, <1>1 DEF CallInv, Calls, Order, Follows, Earlier, Settled
  <1>3. FileInv'
    BY <1>0 DEF FileInv, CallsApart, Finishing
  <1> QED
    BY <1>2, <1>3

LEMMA CallFinishes ==
  ASSUME TypeInv, RingInv, CallInv, FileInv, open # None, ~Finishing,
         NEW discard, NEW next \in Places, Finish(discard, next), next = "top" => ring # <<>>,
         ~discard => writing \in guarded' \/ Settled(writing, active, current, revoked),
         UNCHANGED <<active, current, wav, heard, revoked>>, guarded \subseteq guarded'
  PROVE  CallInv' /\ FileInv'
  <1>1. CASE Discard(open) /\ Return(next)
    BY <1>1, CallGivesUp
  <1>2. CASE /\ ~discard /\ heard[open] # {} /\ at' = "side"
             /\ UNCHANGED <<ring, part, meta, open, writing>>
    <2>1. CallInv'
      BY <1>2 DEF CallInv, Calls, Order, Follows, Earlier, Settled
    <2>2. heard[open] = {writing}
      BY <1>2 DEF FileInv
    <2>3. FileInv'
      BY <1>2, <2>2 DEF FileInv, CallsApart, Finishing
    <2> QED
      BY <2>1, <2>3
  <1> QED
    BY <1>1, <1>2 DEF Finish

LEMMA CallWrites ==
  ASSUME TypeInv, RingInv, KeepInv, CallInv, FileInv, WriteMeta
  PROVE  CallInv' /\ FileInv'
  <1>0. /\ open # None /\ Finishing /\ back \in Places
        /\ UNCHANGED <<active, current, wav, heard, revoked, guarded>>
        /\ back = "top" => ring # <<>>
    BY DEF WriteMeta, KeepInv, RingInv, Finishing, ghosts
  <1>1. CASE Discard(open) /\ Return(back)
    BY <1>0, <1>1, CallGivesUp
  <1>2. CASE /\ at' = "rename" /\ meta' = [meta EXCEPT ![open] = writing]
             /\ UNCHANGED <<ring, part, open, writing, back>>
    <2>1. /\ open \in Name /\ meta \in [Name -> 0..MaxCall] /\ wav \subseteq Name
          /\ open \notin wav
      BY <1>0 DEF TypeInv, TypeOK, FileInv
    <2>2. meta'[open] = writing /\ \A n \in wav : meta'[n] = meta[n]
      BY <1>2, <2>1
    <2>3. CallInv'
      BY <1>0, <1>2, <2>2 DEF CallInv, Calls, Order, Follows, Earlier, Settled
    <2>4. FileInv'
      BY <1>0, <1>2, <2>2 DEF FileInv, CallsApart, Finishing
    <2> QED
      BY <2>3, <2>4
  <1> QED
    BY <1>1, <1>2 DEF WriteMeta

\* The recording that is new is that of a later call than any other's.
LEMMA CallRenames ==
  ASSUME TypeInv, RingInv, KeepInv, CallInv, FileInv, Rename
  PROVE  CallInv' /\ FileInv'
  <1>0. /\ open # None /\ Finishing /\ back \in Places
        /\ UNCHANGED <<active, current, heard, revoked, guarded>>
        /\ back = "top" => ring # <<>>
    BY DEF Rename, KeepInv, RingInv, Finishing, ghosts
  <1>1. CASE Discard(open) /\ Return(back) /\ UNCHANGED wav
    BY <1>0, <1>1, CallGivesUp
  <1>2. CASE /\ part' = part \ {open} /\ wav' = wav \cup {open}
             /\ open' = None /\ Return(back) /\ UNCHANGED meta
    <2>1. /\ meta[open] = writing /\ heard[open] = {writing} /\ writing \in Call
          /\ \A n \in wav : meta[n] < writing /\ meta[n] \in Nat
          /\ writing \in Nat /\ writing # 0
      <3>1. /\ meta[open] = writing /\ heard[open] = {writing} /\ writing \in Call
            /\ \A n \in wav : meta[n] < writing
        BY <1>0 DEF Rename, FileInv, CallInv, Calls, TypeInv
      <3>2. \A n \in wav : meta[n] \in 0..MaxCall
        BY DEF TypeInv, TypeOK
      <3> QED
        BY <3>1, <3>2, CallBound DEF Call
    <2>2. Order(ring', active, current, revoked)
          /\ \A n \in wav' : Earlier(meta[n], ring', current)
      <3>1. \A n \in wav' : Earlier(meta[n], ring, current)
        BY <1>0, <1>2, <2>1 DEF CallInv, Calls
      <3> QED
        BY <1>0, <1>2, <3>1, Consumed DEF CallInv, Calls, Return, RingInv
    <2>3. \A n \in wav' : Settled(meta[n], active, current, revoked)
      BY <1>0, <1>2, <2>1 DEF CallInv, Calls
    <2>4. ~Finishing'
      BY <1>0, <1>2 DEF Return, Places, Finishing
    <2>5. CallInv'
      BY <1>0, <1>2, <2>2, <2>3, <2>4 DEF CallInv, Calls, Order, Follows, Earlier, Settled
    <2>6. CallsApart'
      <3>1. \A n \in wav' : meta'[n] # 0 /\ heard'[n] = {meta'[n]}
        BY <1>0, <1>2, <2>1 DEF FileInv, CallsApart
      <3>2. \A n \in part' : \E c \in Call : heard'[n] \subseteq {c}
        BY <1>0, <1>2 DEF FileInv, CallsApart
      <3>3. \A n, o \in wav' : meta'[n] = meta'[o] => n = o
        BY <1>2, <2>1 DEF FileInv, CallsApart
      <3> QED
        BY <3>1, <3>2, <3>3 DEF CallsApart
    <2> QED
      BY <1>2, <2>4, <2>5, <2>6 DEF FileInv, Finishing
  <1> QED
    BY <1>1, <1>2 DEF Rename

LEMMA CallSpace ==
  ASSUME TypeInv, RingInv, KeepInv, CallInv, FileInv, Space
  PROVE  CallInv' /\ FileInv'
  <1>1. /\ UNCHANGED <<active, current, wav, heard, revoked>> /\ ~Finishing
    BY DEF Space, Finishing
  <1>2. CASE UNCHANGED <<ring, part, meta, open, writing, guarded>> /\ at' = "step"
    <2>1. paused' => paused \/ open = None
      BY <1>2 DEF Space, Finish, Discard
    <2> QED
      BY <1>1, <1>2, <2>1, CallStays DEF Finishing
  <1>3. CASE open # None /\ Finish(FALSE, "step") /\ guarded' = guarded \cup {writing}
    BY <1>1, <1>3, CallFinishes DEF Places
  <1> QED
    BY <1>2, <1>3 DEF Space

\* A block that begins a call finds no file open; one of audio, and one that
\* closes a call, belong to the call of the open file.
LEMMA CallSteps ==
  ASSUME TypeInv, RingInv, KeepInv, CallInv, FileInv, Step
  PROVE  CallInv' /\ FileInv'
  <1> DEFINE b == Head(ring)
  <1>0. /\ UNCHANGED <<active, current, wav, revoked, guarded, paused>> /\ ~Finishing
        /\ ring \in Seq(Block) /\ ring # <<>>
    BY DEF Step, Finishing, ghosts, RingInv
  <1>1. /\ b = ring[1] /\ b \in Block /\ b.call \in Call /\ 1 \in DOMAIN ring
        /\ DOMAIN ring = 1..Len(ring) /\ Len(ring) \in Nat
    <2>1. b = ring[1] /\ b \in Block /\ 1 \in DOMAIN ring
          /\ DOMAIN ring = 1..Len(ring) /\ Len(ring) \in Nat
      BY <1>0, TailPlaces
    <2> QED
      BY <2>1 DEF Block
  <1>2. open # None => b.event # "begin" /\ b.call = writing
    <2>1. \A j \in 0 + 1..1 - 1 : ring[j].event = "pcm"
      OBVIOUS
    <2> QED
      BY <1>1, <2>1 DEF CallInv, Calls, Follows
  <1>3. /\ Order(Tail(ring), active, current, revoked)
        /\ \A c : Earlier(c, ring, current) => Earlier(c, Tail(ring), current)
    BY <1>0, Consumed DEF CallInv, Calls
  <1>4. ASSUME ring' = Tail(ring), at' = "top", UNCHANGED meta,
               open' # None => /\ Follows(Tail(ring), active, current, 0, writing')
                               /\ Earlier(writing', Tail(ring), current)
                               /\ \A n \in wav : meta[n] < writing'
        PROVE  CallInv'
    <2>1. /\ Order(ring', active', current', revoked')
          /\ open' # None => /\ Follows(ring', active', current', 0, writing')
                             /\ Earlier(writing', ring', current')
                             /\ \A n \in wav' : meta'[n] < writing'
          /\ \A n \in wav' : Earlier(meta'[n], ring', current')
      BY <1>0, <1>3, <1>4 DEF CallInv, Calls
    <2>2. ~Finishing' /\ \A n \in wav' : Settled(meta[n], active, current, revoked)
      BY <1>0, <1>4 DEF CallInv, Calls, Finishing
    <2>3. \A n \in wav' : Settled(meta[n], active, current, revoked)'
      BY <1>0, <1>4, <2>2 DEF Settled
    <2> QED
      BY <1>0, <1>4, <2>1, <2>2, <2>3
         DEF CallInv, Calls, Order, Follows, Earlier, Settled, Finishing
  <1>5. CASE open = None /\ Return("top") /\ UNCHANGED <<part, meta, heard, open, writing>>
    <2>1. CallInv'
      BY <1>4, <1>5 DEF Return
    <2>2. FileInv'
      BY <1>0, <1>5 DEF FileInv, CallsApart, Return, Finishing
    <2> QED
      BY <2>1, <2>2
  <1>6. CASE b.event = "begin" /\ ~paused /\ Begin(b.call) /\ Return("top")
    <2>0. open = None /\ UNCHANGED meta /\ ring' = Tail(ring) /\ at' = "top"
      BY <1>2, <1>6 DEF Begin, Return
    <2>1. CASE open' = None /\ part' \subseteq part /\ UNCHANGED heard
      <3>1. CallInv'
        BY <1>4, <2>0, <2>1
      <3>2. FileInv'
        BY <1>0, <2>0, <2>1 DEF FileInv, CallsApart, Finishing
      <3> QED
        BY <3>1, <3>2
    <2>2. ASSUME NEW gone \in SUBSET part, NEW k \in 0..MaxCall, FreeName(k, wav \cup gone),
                 open' = Free(k), writing' = b.call, part' = gone \cup {open'},
                 heard' = [heard EXCEPT ![open'] = {}]
          PROVE  CallInv' /\ FileInv'
      <3>1. open' \in Name /\ open' \notin wav /\ open' # None /\ wav \subseteq Name
            /\ part \subseteq Name /\ heard \in [Name -> SUBSET Call]
        BY <2>2, Names DEF FreeName, TypeInv, TypeOK
      <3>2. /\ Follows(ring, active, current, 1, b.call) /\ Earlier(b.call, Tail(ring), current)
        <4>1. /\ Follows(ring, active, current, 1, b.call) /\ b.call <= current
              /\ \A j \in DOMAIN ring : j > 1 /\ ring[j].event = "begin" => b.call < ring[j].call
          BY <1>1, <1>6 DEF CallInv, Calls, Order
        <4>2. ASSUME NEW i \in DOMAIN Tail(ring), Tail(ring)[i].event = "begin"
              PROVE  b.call < Tail(ring)[i].call
          <5>1. /\ DOMAIN Tail(ring) = 1..Len(ring) - 1
                /\ \A j \in 1..Len(ring) - 1 : Tail(ring)[j] = ring[j + 1]
            BY <1>0, TailPlaces
          <5>2. i + 1 \in DOMAIN ring /\ i + 1 > 1 /\ Tail(ring)[i] = ring[i + 1]
            BY <1>1, <4>2, <5>1
          <5> QED
            BY <4>1, <4>2, <5>2
        <4> QED
          BY <4>1, <4>2 DEF Earlier
      <3>3. Follows(Tail(ring), active, current, 0, b.call)
        <4>1. 1 \in 1..Len(ring) /\ 1 - 1 = 0
          BY <1>1
        <4> QED
          BY <1>0, <3>2, <4>1, FollowsTail
      <3>4. \A n \in wav : meta[n] < b.call
        BY <1>1, <1>6 DEF CallInv, Calls, Earlier
      <3>5. CallInv'
        BY <1>4, <2>0, <2>2, <3>2, <3>3, <3>4
      <3>6. heard'[open'] = {} /\ \A n \in Name : n # open' => heard'[n] = heard[n]
        BY <2>2, <3>1
      <3>7. CallsApart'
        BY <1>0, <1>1, <2>0, <2>2, <3>1, <3>6 DEF FileInv, CallsApart
      <3> QED
        BY <1>0, <1>6, <2>0, <2>2, <3>1, <3>5, <3>6, <3>7 DEF FileInv, Finishing
    <2> QED
      <3>1. PICK gone \in {part, part \ {open}} :
              \/ /\ \E k \in 0..MaxCall : FreeName(k, wav \cup gone) /\ open' = Free(k)
                 /\ writing' = b.call /\ part' = gone \cup {open'}
                 /\ heard' = [heard EXCEPT ![open'] = {}]
              \/ open' = None /\ part' = gone /\ UNCHANGED heard
        BY <1>6 DEF Begin
      <3>2. gone \in SUBSET part
        OBVIOUS
      <3> QED
        BY <2>1, <2>2, <3>1, <3>2
  <1>7. CASE /\ b.event = "pcm" /\ open # None /\ ~paused
             /\ heard' = [heard EXCEPT ![open] = @ \cup {b.call}]
             /\ Return("top") /\ UNCHANGED <<part, meta, open, writing>>
    <2>0. ring' = Tail(ring) /\ at' = "top"
      BY <1>7 DEF Return
    <2>1. Follows(Tail(ring), active, current, 0, writing)
      BY <1>0, <1>1, <1>7, FollowsAudio DEF CallInv, Calls
    <2>2. Earlier(writing, Tail(ring), current) /\ \A n \in wav : meta[n] < writing
      BY <1>3, <1>7 DEF CallInv, Calls
    <2>3. CallInv'
      BY <1>4, <1>7, <2>0, <2>1, <2>2
    <2>4. /\ open \in Name /\ heard \in [Name -> SUBSET Call] /\ wav \subseteq Name
          /\ part \subseteq Name /\ open \notin wav /\ heard[open] \subseteq {writing}
      BY <1>7 DEF TypeInv, TypeOK, FileInv
    <2>5. /\ heard'[open] \subseteq {writing}
          /\ \A n \in Name : n # open => heard'[n] = heard[n]
      BY <1>2, <1>7, <2>4
    <2>6. writing \in Call
      BY <1>7 DEF TypeInv
    <2>7. CallsApart'
      BY <1>0, <1>7, <2>4, <2>5, <2>6 DEF FileInv, CallsApart
    <2> QED
      BY <1>0, <1>7, <2>0, <2>3, <2>4, <2>5, <2>7 DEF FileInv, Finishing
  <1>8. CASE /\ b.event \notin {"begin", "pcm"} /\ open # None
             /\ Finish(b.event = "abort", "top") /\ UNCHANGED heard
    <2>1. b.event # "abort" => b.event = "end"
      BY <1>1, <1>8 DEF Block
    <2>2. b.event # "abort" => Settled(writing, active, current, revoked)
      BY <1>1, <1>2, <1>8, <2>1 DEF CallInv, Calls, Order, Settled
    <2> QED
      BY <1>0, <1>8, <2>2, CallFinishes DEF Places
  <1>9. CASE /\ open # None /\ paused /\ Return("top")
             /\ UNCHANGED <<part, meta, heard, open, writing>>
    BY <1>0, <1>9 DEF FileInv
  <1> QED
    BY <1>5, <1>6, <1>7, <1>8, <1>9 DEF Step

LEMMA CallStart == Init => CallInv /\ FileInv /\ ListInv
  <1> SUFFICES ASSUME Init PROVE CallInv /\ FileInv /\ ListInv
    OBVIOUS
  <1>1. DOMAIN ring = {}
    BY DEF Init
  <1>2. CallInv
    BY <1>1 DEF Init, CallInv, Calls, Order, Finishing
  <1>3. FileInv
    BY DEF Init, FileInv, CallsApart, Finishing
  <1>4. ListInv
    BY DEF Init, ListInv
  <1> QED
    BY <1>2, <1>3, <1>4

LEMMA CallStep ==
  RingInv /\ KeepInv /\ TypeInv /\ TypeInv' /\ CallInv /\ FileInv /\ [Next]_vars
    => CallInv' /\ FileInv'
  <1> SUFFICES ASSUME RingInv, KeepInv, TypeInv, TypeInv', CallInv, FileInv, [Next]_vars
               PROVE  CallInv' /\ FileInv'
    OBVIOUS
  <1>0. ASSUME UNCHANGED <<card, worker, guarded>>
        PROVE  UNCHANGED <<open, writing, wav, meta, guarded, at>> /\ FileInv'
    BY <1>0 DEF card, worker, FileInv, CallsApart, Finishing
  <1>s. ASSUME UNCHANGED <<decoder, card, worker, revoked, guarded>>
        PROVE  CallInv' /\ FileInv'
    <2>1. UNCHANGED <<ring, active, current, open, writing, heard, revoked, at, meta, paused,
                      wav, part, guarded>>
      BY <1>s DEF decoder, card, worker
    <2> QED
      BY <2>1, CallStays
  <1>1. ASSUME NEW split \in BOOLEAN, Audio(split) PROVE CallInv' /\ FileInv'
    <2>1. UNCHANGED <<card, worker, guarded, revoked>>
      BY <1>1 DEF Audio, ghosts
    <2>2. CASE End(FALSE)
      BY <1>0, <2>1, <2>2, CallEnds
    <2>3. CASE Record(split)
      BY <1>0, <2>1, <2>3, CallRecords
    <2> QED
      BY <1>1, <2>2, <2>3 DEF Audio
  <1>2. CASE Hangup
    BY <1>0, <1>2, CallEnds DEF Hangup, ghosts
  <1>3. CASE Encrypted
    BY <1>0, <1>3, CallEnds DEF Encrypted
  <1>4. CASE \E n \in recent : AskDelete(n) \/ Play(n) \/ \E on \in BOOLEAN : AskKeep(n, on)
    BY <1>s, <1>4 DEF AskDelete, Play, AskKeep, ghosts
  <1>5. CASE \E n \in playing : StopPlaying(n)
    BY <1>s, <1>5 DEF StopPlaying, ghosts
  <1>6. CASE Refresh \/ Midnight \/ SetClock
    BY <1>s, <1>6 DEF Refresh, Midnight, SetClock, ghosts
  <1>7. CASE PowerCut
    <2>1. DOMAIN ring' = {} /\ active' = FALSE /\ at' = "top" /\ open' = None
          /\ UNCHANGED <<current, wav, part, meta, heard, revoked, guarded>>
      BY <1>7 DEF PowerCut, card
    <2>2. \A n \in wav : meta[n] <= current /\ Settled(meta[n], FALSE, current, revoked)
      BY DEF CallInv, Calls, Earlier, Settled
    <2>3. CallInv'
      BY <2>1, <2>2 DEF CallInv, Calls, Order, Earlier, Settled, Finishing
    <2>4. FileInv'
      BY <2>1 DEF FileInv, CallsApart, Finishing
    <2> QED
      BY <2>3, <2>4
  <1>8. CASE Worker
    <2>1. CASE TakeDeletion
      BY <2>1, CallStays DEF TakeDeletion, Delete, decoder, Finishing
    <2>2. CASE TakeProtection
      BY <2>2, CallStays DEF TakeProtection, decoder, ghosts, Finishing
    <2>3. CASE Retain
      BY <2>3, CallStays DEF Retain, Delete, decoder, Finishing
    <2>4. CASE UnlinkMeta
      <3>1. \A n \in wav : meta'[n] = meta[n]
        BY <2>4 DEF UnlinkMeta, KeepInv, TypeInv, TypeOK
      <3> QED
        BY <2>4, <3>1, CallStays DEF UnlinkMeta, decoder, ghosts, Finishing
    <2>5. CASE UnlinkKeep
      <3>1. at' \in Places
        BY <2>5 DEF UnlinkKeep, RingInv
      <3> QED
        BY <2>5, <3>1, CallStays DEF UnlinkKeep, decoder, ghosts, Finishing, Places
    <2>6. CASE WriteMeta
      BY <2>6, CallWrites
    <2>7. CASE Rename
      BY <2>7, CallRenames
    <2>8. CASE Space
      BY <2>8, CallSpace
    <2>9. CASE Step
      BY <2>9, CallSteps
    <2>10. CASE Idle
      BY <2>10, CallStays DEF Idle, decoder, card, ghosts, Finishing
    <2> QED
      BY <1>8, <2>1, <2>2, <2>3, <2>4, <2>5, <2>6, <2>7, <2>8, <2>9, <2>10 DEF Worker
  <1>9. CASE UNCHANGED vars
    BY <1>s, <1>9 DEF vars, ghosts
  <1> QED
    BY <1>1, <1>2, <1>3, <1>4, <1>5, <1>6, <1>7, <1>8, <1>9 DEF Next

-----------------------------------------------------------------------------
\* The invariant: what the ring holds, what the user wants kept, whose call
\* each block, file and recording is, and what the list leaves out.
IInv == RingInv /\ KeepInv /\ TypeInv /\ CallInv /\ FileInv /\ ListInv

\* Every step of the recorder, the worker and the interface keeps IInv.
THEOREM Invariant == Spec => []IInv
  <1>1. Init => IInv
    BY RingStart, KeepStart, TypeStart, CallStart DEF IInv
  <1>2. IInv /\ [Next]_vars => IInv'
    <2> SUFFICES ASSUME IInv, [Next]_vars PROVE IInv'
      OBVIOUS
    <2>1. RingInv' /\ KeepInv'
      BY RingStep, KeepStep DEF IInv
    <2>2. TypeInv'
      BY <2>1, TypeStep DEF IInv
    <2>3. CallInv' /\ FileInv' /\ ListInv'
      BY <2>2, CallStep, ListStep DEF IInv
    <2> QED
      BY <2>1, <2>2, <2>3 DEF IInv
  <1> QED
    BY <1>1, <1>2, PTL DEF Spec

\* Every variable keeps its type; above all the ring never holds more blocks
\* than it has slots.
THEOREM TypeCorrect == Spec => []TypeOK
  <1>1. IInv => TypeOK
    BY DEF IInv, TypeInv
  <1> QED
    BY <1>1, Invariant, PTL

\* No call is given up because the next one finds its file open: begin() calls
\* finish() on an open file, but there never is one.
THEOREM NoCallIsGivenUp == Spec => []OpenIsClosed
  <1>1. IInv => OpenIsClosed
    <2> SUFFICES ASSUME IInv, open # None PROVE OpenIsClosed
      BY DEF OpenIsClosed
    <2>1. Follows(ring, active, current, 0, writing) /\ DOMAIN ring = 1..Len(ring)
      BY DEF IInv, CallInv, Calls, RingInv
    <2>2. ASSUME NEW i \in DOMAIN ring, \A j \in 1..i - 1 : ring[j].event = "pcm"
          PROVE  ring[i].event # "begin" /\ ring[i].call = writing
      <3>1. i > 0 /\ 0 + 1 = 1
        BY <2>1
      <3> QED
        BY <2>1, <2>2, <3>1 DEF Follows
    <2>3. ASSUME \A i \in DOMAIN ring : ring[i].event = "pcm"
          PROVE  active /\ current = writing
      BY <2>1, <2>3 DEF Follows
    <2> QED
      BY <2>2, <2>3 DEF OpenIsClosed
  <1> QED
    BY <1>1, Invariant, PTL

\* A recording holds one call's audio and that call's .meta, though finish()
\* writes them one after the other, any write may fail, the power may be cut
\* between any two, and a name may be used again.
THEOREM OneCallInAFile == Spec => []CallsApart
  <1>1. IInv => CallsApart
    BY DEF IInv, FileInv
  <1> QED
    BY <1>1, Invariant, PTL

\* What call_recorder_end(r, true) gave up for its encryption is no recording,
\* unless the space guard had closed its file before.
THEOREM EncryptedIsRemoved == Spec => []RevokedGone
  <1>1. IInv => RevokedGone
    BY DEF IInv, CallInv, Calls, Settled, RevokedGone
  <1> QED
    BY <1>1, Invariant, PTL

\* recent_insert and the re-reading of the card in service_once agree: between
\* two passes, with no re-reading asked for, the list is what the card holds.
THEOREM ListIsTrue == Spec => []ListTrue
  <1>1. IInv => ListTrue
    BY DEF IInv, ListInv, ListTrue
  <1> QED
    BY <1>1, Invariant, PTL

\* However full the ring is, the block that closes the call being recorded
\* finds room: room() sets the last slot aside from every other block.
THEOREM EndAlwaysFits == Spec => []EndFits
  <1>1. IInv => EndFits
    BY CapacityAssumption DEF IInv, RingInv, EndFits, Room
  <1> QED
    BY <1>1, Invariant, PTL

\* No recording is deleted under its player, whoever asks and whatever
\* retention finds: call_store_delete looks at the leases under their lock.
THEOREM PlayerKeepsFile == Spec => []PlayedStays
  <1>1. Init => PlayedStays
    BY DEF Init, PlayedStays
  <1>2. PlayedStays /\ [Next]_vars => PlayedStays'
    <2> SUFFICES ASSUME PlayedStays, [Next]_vars PROVE PlayedStays'
      OBVIOUS
    <2>1. CASE \E n \in recent : Play(n)
      BY <2>1 DEF Play, card, PlayedStays
    <2>2. CASE \E n \in playing : StopPlaying(n)
      BY <2>2 DEF StopPlaying, card, PlayedStays
    <2>3. CASE PowerCut
      BY <2>3 DEF PowerCut, PlayedStays
    <2>4. CASE TakeDeletion
      BY <2>4 DEF TakeDeletion, Delete, PlayedStays
    <2>5. CASE Retain
      BY <2>5 DEF Retain, Delete, others, PlayedStays
    <2>6. CASE Rename
      BY <2>6 DEF Rename, others, PlayedStays
    <2>7. CASE UNCHANGED <<wav, playing>>
      BY <2>7 DEF PlayedStays
    <2>8. CASE TakeProtection \/ UnlinkMeta \/ UnlinkKeep \/ WriteMeta \/ Space \/ Step \/ Idle
      BY <2>8, <2>7 DEF TakeProtection, UnlinkMeta, UnlinkKeep, WriteMeta, Space,
                        Step, Idle, others, card
    <2>9. CASE (\E split \in BOOLEAN : Audio(split)) \/ Hangup \/ Encrypted \/ UNCHANGED vars
      BY <2>9, <2>7 DEF Audio, Hangup, Encrypted, vars, others, card
    <2>10. CASE \E n \in recent : AskDelete(n) \/ \E on \in BOOLEAN : AskKeep(n, on)
      BY <2>10, <2>7 DEF AskDelete, AskKeep, card
    <2>11. CASE Refresh \/ Midnight \/ SetClock
      BY <2>11, <2>7 DEF Refresh, Midnight, SetClock, card
    <2> QED
      BY <2>1, <2>2, <2>3, <2>4, <2>5, <2>6, <2>8, <2>9, <2>10, <2>11 DEF Next, Worker
  <1> QED
    BY <1>1, <1>2, PTL DEF Spec

\* Retention deletes a recording the user asked to keep only while that very
\* request, taken by call_archive_protect, waits in its mailbox, or when the
\* request was served and call_store_protect could not make its marker: a marker
\* that was made holds, whatever fails on the card and wherever the power is cut.
THEOREM KeepIsLostWithoutItsMarker == Spec => KeepRace
  <1> DEFINE A == \A n \in wav \ wav' :
                    at = "retain" /\ n \in kept =>
                      protection = [name |-> n, on |-> TRUE] \/ n \in unmarked
  <1>1. IInv /\ [Next]_vars => [A]_vars
    <2> SUFFICES ASSUME IInv, [Next]_vars,
                        NEW n \in wav \ wav', at = "retain", n \in kept
                 PROVE  protection = [name |-> n, on |-> TRUE] \/ n \in unmarked
      OBVIOUS
    <2>1. Retain
      <3>1. ~UNCHANGED wav
        OBVIOUS
      <3>2. CASE Worker
        BY <3>1, <3>2 DEF Worker, TakeDeletion, TakeProtection, UnlinkMeta,
                          UnlinkKeep, WriteMeta, Rename, Space, Step, Idle, card
      <3>3. CASE ~Worker
        BY <3>1, <3>3 DEF Next, vars, Audio, Hangup, Encrypted, AskDelete, Play, AskKeep,
                          StopPlaying, Refresh, Midnight, SetClock, PowerCut, card
      <3> QED
        BY <3>2, <3>3
    <2>2. n \notin mark
      BY <2>1 DEF Retain, Delete
    <2> QED
      BY <2>2 DEF IInv, KeepInv
  <1> QED
    BY <1>1, Invariant, PTL DEF Spec, KeepRace

-----------------------------------------------------------------------------
(* The archive implements the library.                                     *)

LibraryStep == [Library!LibraryNext]_(Library!libraryVars)
Safe == IInv /\ PlayedStays

\* The calls that wait, when a block comes to the ring and when one goes.
LEMMA WaitingGrows ==
  ASSUME NEW r \in Seq(Block), NEW b \in Block
  PROVE  Waiting(Append(r, b)) = Waiting(r) \cup {c \in {b.call} : b.event = "begin"}
  <1>1. PICK n \in Nat : n = Len(r) + 1
    OBVIOUS
  <1>2. /\ DOMAIN Append(r, b) = DOMAIN r \cup {n} /\ Append(r, b)[n] = b
        /\ \A i \in DOMAIN r : Append(r, b)[i] = r[i]
    BY <1>1
  <1> QED
    BY <1>2 DEF Waiting

LEMMA WaitingShrinks ==
  ASSUME RingInv, CallInv, ring # <<>>
  PROVE  /\ Waiting(Tail(ring)) = Waiting(ring) \ {c \in {Head(ring).call} : Head(ring).event = "begin"}
         /\ Head(ring).event = "begin" =>
              /\ Head(ring).call \in Waiting(ring)
              /\ \A c \in Waiting(ring) : Head(ring).call <= c
  <1>1. /\ ring \in Seq(Block) /\ Head(ring) = ring[1] /\ 1 \in DOMAIN ring
        /\ DOMAIN ring = 1..Len(ring) /\ Len(ring) \in Nat
        /\ DOMAIN Tail(ring) = 1..Len(ring) - 1
        /\ \A i \in 1..Len(ring) - 1 : Tail(ring)[i] = ring[i + 1]
    BY TailPlaces DEF RingInv
  <1>2. ASSUME NEW i \in DOMAIN ring PROVE ring[i].call \in Nat
    <2>1. ring[i] \in Block
      BY <1>1
    <2>2. ring[i].call \in Call
      BY <2>1 DEF Block
    <2> QED
      BY <2>2, CallBound DEF Call
  <1>3. ASSUME NEW i \in DOMAIN ring, i # 1, ring[i].event = "begin", ring[1].event = "begin"
        PROVE  ring[1].call < ring[i].call
    <2>1. i > 1
      BY <1>1, <1>3
    <2> QED
      BY <1>1, <1>3, <2>1 DEF CallInv, Calls, Order
  <1>4. \A i \in DOMAIN Tail(ring) : i + 1 \in DOMAIN ring /\ i + 1 # 1 /\ Tail(ring)[i] = ring[i + 1]
    BY <1>1
  <1>5. ASSUME NEW i \in DOMAIN ring, i # 1, ring[i].event = "begin"
        PROVE  ring[i].call \in Waiting(Tail(ring))
    <2>1. PICK j \in DOMAIN Tail(ring) : Tail(ring)[j] = ring[i]
      <3>1. i - 1 \in 1..Len(ring) - 1 /\ i - 1 + 1 = i
        BY <1>1, <1>5
      <3> QED
        BY <1>1, <3>1
    <2> QED
      BY <1>5, <2>1 DEF Waiting
  <1>6. Waiting(Tail(ring)) \subseteq Waiting(ring)
    BY <1>4 DEF Waiting
  <1>7. Waiting(ring) \ {ring[1].call} \subseteq Waiting(Tail(ring))
    BY <1>5 DEF Waiting
  <1>8. ring[1].event # "begin" => Waiting(ring) \subseteq Waiting(Tail(ring))
    BY <1>5 DEF Waiting
  <1>9. ring[1].event = "begin" =>
          /\ ring[1].call \notin Waiting(Tail(ring))
          /\ ring[1].call \in Waiting(ring)
          /\ \A c \in Waiting(ring) : ring[1].call <= c
    BY <1>1, <1>2, <1>3, <1>4 DEF Waiting
  <1> QED
    BY <1>1, <1>6, <1>7, <1>8, <1>9

\* The open file's call is older than those that wait, and the block at the head
\* of the ring is not the first of another.
LEMMA OpenIsOldest ==
  ASSUME IInv, open # None
  PROVE  /\ writing \in Call /\ \A c \in Waiting(ring) : writing < c
         /\ Pending = Waiting(ring) \cup {writing}
         /\ writing \notin Waiting(ring) /\ \A c \in Pending : writing <= c
         /\ ring # <<>> => Head(ring).event # "begin"
  <1>1. Earlier(writing, ring, current) /\ Follows(ring, active, current, 0, writing)
    BY DEF IInv, CallInv, Calls
  <1>2. writing \in Call
    BY DEF IInv, TypeInv
  <1>3. \A c \in Waiting(ring) : writing < c
    BY <1>1 DEF Earlier, Waiting
  <1>4. ASSUME ring # <<>> PROVE Head(ring).event # "begin"
    <2>1. 1 \in DOMAIN ring /\ Head(ring) = ring[1]
      BY <1>4, TailPlaces DEF IInv, RingInv
    <2>2. \A j \in 0 + 1..1 - 1 : ring[j].event = "pcm"
      OBVIOUS
    <2> QED
      BY <1>1, <2>1, <2>2 DEF Follows
  <1>5. writing \in Nat /\ \A c \in Waiting(ring) : c \in Nat
    <2>1. \A i \in DOMAIN ring : ring[i] \in Block
      BY DEF IInv, RingInv
    <2>2. \A i \in DOMAIN ring : ring[i].call \in Call
      BY <2>1 DEF Block
    <2> QED
      BY <1>2, <2>2, CallBound DEF Waiting, Call
  <1>6. Pending = Waiting(ring) \cup {writing}
    BY DEF Pending
  <1>7. writing \notin Waiting(ring) /\ \A c \in Pending : writing <= c
    BY <1>3, <1>5, <1>6
  <1> QED
    BY <1>2, <1>3, <1>4, <1>6, <1>7

\* Two recordings are of different calls.
LEMMA OneName ==
  ASSUME IInv, NEW n \in wav
  PROVE  \A m \in wav : meta[m] = meta[n] => m = n
  BY DEF IInv, FileInv, CallsApart

\* What is on the card and played is the same to the library.
LEMMA SameRecordings ==
  ASSUME Safe, wav' = wav, playing' = playing, \A n \in wav : meta'[n] = meta[n]
  PROVE  CallsOf(wav)' = CallsOf(wav) /\ CallsOf(playing)' = CallsOf(playing)
  BY DEF Safe, PlayedStays, CallsOf

LEMMA Quiet ==
  ASSUME Safe, wav' = wav, playing' = playing, \A n \in wav : meta'[n] = meta[n],
         current' = current, Pending' = Pending
  PROVE  LibraryStep
  <1>1. UNCHANGED Library!libraryVars
    BY SameRecordings DEF Library!libraryVars
  <1> QED
    BY <1>1 DEF LibraryStep

LEMMA SamePending ==
  ASSUME Waiting(ring)' = Waiting(ring), open' = open, writing' = writing
  PROVE  Pending' = Pending
  BY DEF Pending

\* The decoder.
LEMMA LibraryCloses ==
  ASSUME Safe, NEW discard \in BOOLEAN
  PROVE  Waiting(Closed(discard)) = Waiting(ring)
  <1> DEFINE b == [event |-> IF discard THEN "abort" ELSE "end", call |-> current]
  <1>1. CASE active /\ Room(ring, TRUE)
    <2>1. ring \in Seq(Block) /\ b \in Block /\ b.event # "begin" /\ Closed(discard) = Append(ring, b)
      BY <1>1, BoundsAssumption DEF Safe, IInv, RingInv, Block, Call, Closed
    <2> HIDE DEF b
    <2>2. Waiting(Append(ring, b)) = Waiting(ring) \cup {c \in {b.call} : b.event = "begin"}
      BY <2>1, WaitingGrows
    <2> QED
      BY <2>1, <2>2
  <1>2. CASE ~(active /\ Room(ring, TRUE))
    BY <1>2 DEF Closed
  <1> QED
    BY <1>1, <1>2

LEMMA LibraryEnds ==
  ASSUME Safe, NEW discard \in BOOLEAN, End(discard), UNCHANGED <<card, open, writing, playing>>
  PROVE  LibraryStep
  <1>1. Pending' = Pending
    BY LibraryCloses DEF Pending, End
  <1> QED
    BY <1>1, Quiet DEF End, card

LEMMA LibraryRecords ==
  ASSUME Safe, NEW split \in BOOLEAN, Record(split), UNCHANGED <<card, open, writing, playing>>
  PROVE  LibraryStep
  <1> DEFINE was    == active /\ ~split
             r1     == IF split THEN Closed(FALSE) ELSE ring
             begins == ~was /\ (split \/ ~poisoned) /\ Room(r1, FALSE)
                       /\ current < MaxCall
             call   == IF begins THEN current + 1 ELSE current
             r2     == IF begins THEN Append(r1, [event |-> "begin", call |-> call])
                       ELSE r1
  <1>1. /\ active' = (was \/ begins) /\ current' = call
        /\ ring' = IF active' /\ Room(r2, FALSE)
                   THEN Append(r2, [event |-> "pcm", call |-> call]) ELSE r2
    BY DEF Record
  <1>2. r1 \in Seq(Block) /\ Waiting(r1) = Waiting(ring)
    BY ClosedFits, LibraryCloses DEF Safe, IInv, RingInv
  <1>3. active' => call \in Call
    <2>1. current \in 0..MaxCall /\ (active => current # 0) /\ MaxCall \in Nat
      BY CallBound DEF Safe, IInv, RingInv
    <2>2. CASE begins
      <3>1. call = current + 1 /\ current < MaxCall
        BY <2>2
      <3> HIDE DEF call, begins, was
      <3> QED
        BY <2>1, <3>1 DEF Call
    <2>3. CASE ~begins
      <3>1. call = current /\ (active' => active)
        BY <1>1, <2>3
      <3> HIDE DEF call, begins, was
      <3> QED
        BY <2>1, <3>1 DEF Call
    <2> QED
      BY <2>2, <2>3
  <1>4. /\ r2 \in Seq(Block)
        /\ begins => Waiting(r2) = Waiting(ring) \cup {call}
        /\ ~begins => Waiting(r2) = Waiting(ring)
    <2>1. CASE begins
      <3> DEFINE b == [event |-> "begin", call |-> call]
      <3>1. b \in Block /\ b.event = "begin" /\ b.call = call /\ r2 = Append(r1, b)
        BY <1>1, <1>3, <2>1 DEF Block
      <3> HIDE DEF b, r2, r1, call, begins, was
      <3> QED
        BY <1>2, <2>1, <3>1, WaitingGrows
    <2>2. CASE ~begins
      BY <1>2, <2>2
    <2> QED
      BY <2>1, <2>2
  <1>5. Waiting(ring)' = Waiting(r2)
    <2>1. CASE active' /\ Room(r2, FALSE)
      <3> DEFINE b == [event |-> "pcm", call |-> call]
      <3>1. b \in Block /\ b.event # "begin" /\ ring' = Append(r2, b)
        BY <1>1, <1>3, <2>1 DEF Block
      <3> HIDE DEF b, r2, r1, call, begins, was
      <3> QED
        BY <1>4, <3>1, WaitingGrows DEF Waiting
    <2>2. CASE ~(active' /\ Room(r2, FALSE))
      <3>1. ring' = r2
        BY <1>1, <2>2
      <3> HIDE DEF r2
      <3> QED
        BY <3>1 DEF Waiting
    <2> QED
      BY <2>1, <2>2
  <1>6. begins => current' = current + 1 /\ call = current'
    BY <1>1
  <1>7. ~begins => current' = current
    BY <1>1
  <1> HIDE DEF r2, r1, call, begins, was
  <1>8. CASE begins
    <2>1. Pending' = Pending \cup {current'}
      BY <1>4, <1>5, <1>6, <1>8 DEF Pending
    <2>2. CallsOf(wav)' = CallsOf(wav) /\ CallsOf(playing)' = CallsOf(playing)
      BY SameRecordings DEF card
    <2>3. Library!Begin
      BY <1>6, <1>8, <2>1, <2>2 DEF Library!Begin
    <2> QED
      BY <2>3 DEF LibraryStep, Library!LibraryNext
  <1>9. CASE ~begins
    <2>1. Pending' = Pending
      BY <1>4, <1>5, <1>9, SamePending
    <2> QED
      BY <1>7, <1>9, <2>1, Quiet DEF card
  <1> QED
    BY <1>8, <1>9

\* The worker.  A call whose file is given up, or ends as a recording.
LEMMA GivesUp ==
  ASSUME Safe, open # None, open' = None, Waiting(ring)' = Waiting(ring),
         \A n \in wav : meta'[n] = meta[n], UNCHANGED <<wav, playing, current>>
  PROVE  LibraryStep
  <1>1. /\ Pending = Waiting(ring) \cup {writing}
        /\ writing \notin Waiting(ring) /\ \A c \in Pending : writing <= c
    BY OpenIsOldest DEF Safe
  <1>2. Pending' = Waiting(ring)
    BY DEF Pending
  <1>3. Pending' = Pending \ {writing}
    BY <1>1, <1>2
  <1>4. CallsOf(wav)' = CallsOf(wav) /\ CallsOf(playing)' = CallsOf(playing)
    BY SameRecordings
  <1>5. Library!Drop(writing) /\ writing \in Pending
    BY <1>1, <1>3, <1>4 DEF Library!Drop, Library!Oldest
  <1> QED
    BY <1>5 DEF LibraryStep, Library!LibraryNext

LEMMA Returned ==
  ASSUME IInv, open # None, NEW next, Return(next), next = "top" => ring # <<>>
  PROVE  Waiting(ring)' = Waiting(ring)
  <1>1. CASE next = "top"
    <2>1. Waiting(Tail(ring)) = Waiting(ring)
      BY <1>1, WaitingShrinks, OpenIsOldest DEF IInv
    <2>2. ring' = Tail(ring)
      BY <1>1 DEF Return
    <2> QED
      BY <2>1, <2>2 DEF Waiting
  <1>2. CASE next # "top"
    BY <1>2 DEF Return, Waiting
  <1> QED
    BY <1>1, <1>2

LEMMA LibraryDiscards ==
  ASSUME Safe, open # None, NEW next, Discard(open), Return(next), next = "top" => ring # <<>>,
         UNCHANGED <<wav, playing, current>>
  PROVE  LibraryStep
  <1>1. \A n \in wav : meta'[n] = meta[n]
    <2>1. open \notin wav /\ wav \subseteq Name /\ meta \in [Name -> 0..MaxCall]
      BY DEF Safe, IInv, FileInv, TypeInv, TypeOK
    <2> QED
      BY <2>1 DEF Discard
  <1>2. open' = None /\ Waiting(ring)' = Waiting(ring)
    BY Returned DEF Discard, Safe
  <1> QED
    BY <1>1, <1>2, GivesUp

LEMMA LibraryFinishes ==
  ASSUME Safe, open # None, NEW discard, NEW next, Finish(discard, next),
         next = "top" => ring # <<>>, UNCHANGED <<wav, playing, current>>
  PROVE  LibraryStep
  <1>1. CASE Discard(open) /\ Return(next)
    BY <1>1, LibraryDiscards
  <1>2. CASE UNCHANGED <<ring, part, meta, open, writing>>
    <2>1. Pending' = Pending
      BY <1>2 DEF Pending, Waiting
    <2> QED
      BY <1>2, <2>1, Quiet
  <1> QED
    BY <1>1, <1>2 DEF Finish

LEMMA LibraryWrites ==
  ASSUME Safe, WriteMeta
  PROVE  LibraryStep
  <1>1. open # None /\ (back = "top" => ring # <<>>)
    BY DEF Safe, IInv, KeepInv, RingInv, Finishing, WriteMeta
  <1>2. UNCHANGED <<wav, playing, current>>
    BY DEF WriteMeta, others
  <1>3. CASE Discard(open) /\ Return(back)
    BY <1>1, <1>2, <1>3, LibraryDiscards
  <1>4. CASE meta' = [meta EXCEPT ![open] = writing] /\ UNCHANGED <<ring, part, open, writing, back>>
    <2>1. open \notin wav /\ wav \subseteq Name /\ meta \in [Name -> 0..MaxCall]
      BY <1>1 DEF Safe, IInv, FileInv, TypeInv, TypeOK
    <2>2. \A n \in wav : meta'[n] = meta[n]
      BY <1>4, <2>1
    <2>3. Pending' = Pending
      BY <1>4 DEF Pending, Waiting
    <2> QED
      BY <1>2, <2>2, <2>3, Quiet
  <1> QED
    BY <1>3, <1>4 DEF WriteMeta

\* The rename is the moment at which a call becomes a recording.
LEMMA LibraryRenames ==
  ASSUME Safe, Rename
  PROVE  LibraryStep
  <1>1. open # None /\ (back = "top" => ring # <<>>) /\ meta[open] = writing /\ Return(back)
    BY DEF Safe, IInv, KeepInv, RingInv, FileInv, Finishing, Rename
  <1>2. UNCHANGED <<playing, current>>
    BY DEF Rename, others
  <1>3. CASE Discard(open) /\ UNCHANGED <<wav, recent>>
    BY <1>1, <1>2, <1>3, LibraryDiscards
  <1>4. CASE wav' = wav \cup {open} /\ open' = None /\ UNCHANGED meta
    <2>1. /\ Pending = Waiting(ring) \cup {writing}
          /\ writing \notin Waiting(ring) /\ \A c \in Pending : writing <= c
      BY <1>1, OpenIsOldest DEF Safe
    <2>2. Waiting(ring)' = Waiting(ring)
      BY <1>1, Returned DEF Safe
    <2>3. Pending' = Waiting(ring)
      BY <1>4, <2>2 DEF Pending
    <2>4. Pending' = Pending \ {writing} /\ writing \in Pending
      BY <2>1, <2>3
    <2>5. CallsOf(wav)' = CallsOf(wav) \cup {writing} /\ CallsOf(playing)' = CallsOf(playing)
      BY <1>1, <1>2, <1>4 DEF CallsOf
    <2>6. Library!Save(writing)
      BY <1>2, <2>1, <2>4, <2>5 DEF Library!Save, Library!Oldest
    <2> QED
      BY <2>4, <2>6 DEF LibraryStep, Library!LibraryNext
  <1> QED
    BY <1>3, <1>4 DEF Rename

LEMMA LibrarySpace ==
  ASSUME Safe, Space
  PROVE  LibraryStep
  <1>1. UNCHANGED <<wav, playing, current>>
    BY DEF Space, others
  <1>2. CASE open # None /\ Finish(FALSE, "step")
    BY <1>1, <1>2, LibraryFinishes
  <1>3. CASE UNCHANGED <<ring, part, meta, open, writing>>
    <2>1. Pending' = Pending
      BY <1>3 DEF Pending, Waiting
    <2> QED
      BY <1>1, <1>3, <2>1, Quiet
  <1> QED
    BY <1>2, <1>3 DEF Space

\* A call that waits is lost when its first block is thrown away, or when no
\* file can be made for it.
LEMMA Loses ==
  ASSUME Safe, ring # <<>>, Head(ring).event = "begin", ring' = Tail(ring), open' = None,
         UNCHANGED <<meta, wav, playing, current>>
  PROVE  LibraryStep
  <1> DEFINE c == Head(ring).call
  <1>1. open = None /\ Pending = Waiting(ring)
    BY OpenIsOldest DEF Safe, Pending
  <1>2. /\ Waiting(Tail(ring)) = Waiting(ring) \ {c}
        /\ c \in Waiting(ring) /\ \A d \in Waiting(ring) : c <= d
    BY WaitingShrinks DEF Safe, IInv
  <1>3. Pending' = Waiting(Tail(ring))
    BY DEF Pending, Waiting
  <1>4. CallsOf(wav)' = CallsOf(wav) /\ CallsOf(playing)' = CallsOf(playing)
    BY DEF CallsOf
  <1> HIDE DEF c
  <1>5. Library!Drop(c) /\ c \in Pending
    BY <1>1, <1>2, <1>3, <1>4 DEF Library!Drop, Library!Oldest
  <1> QED
    BY <1>5 DEF LibraryStep, Library!LibraryNext

LEMMA LibrarySteps ==
  ASSUME Safe, Step
  PROVE  LibraryStep
  <1> DEFINE b == Head(ring)
  <1>1. UNCHANGED <<wav, playing, current>> /\ ring # <<>>
    BY DEF Step, others
  <1>2. open # None => b.event # "begin"
    BY <1>1, OpenIsOldest DEF Safe
  <1>3. /\ Waiting(Tail(ring)) = Waiting(ring) \ {c \in {b.call} : b.event = "begin"}
        /\ b.event = "begin" => b.call \in Waiting(ring)
    BY <1>1, WaitingShrinks DEF Safe, IInv
  <1>4. ASSUME b.event # "begin", ring' = Tail(ring), UNCHANGED <<meta, open, writing>>
        PROVE  LibraryStep
    <2>1. Pending' = Pending
      BY <1>3, <1>4 DEF Pending, Waiting
    <2> QED
      BY <1>1, <1>4, <2>1, Quiet
  <1>5. CASE /\ paused \/ (b.event # "begin" /\ open = None)
             /\ Return("top") /\ UNCHANGED <<part, meta, heard, open, writing>>
    <2>1. ring' = Tail(ring)
      BY <1>5 DEF Return
    <2>2. CASE b.event = "begin"
      BY <1>1, <1>2, <1>5, <2>1, <2>2, Loses
    <2>3. CASE b.event # "begin"
      BY <1>4, <1>5, <2>1, <2>3
    <2> QED
      BY <2>2, <2>3
  <1>6. CASE b.event = "begin" /\ Begin(b.call) /\ Return("top")
    <2>1. ring' = Tail(ring) /\ open = None /\ UNCHANGED meta
      BY <1>2, <1>6 DEF Return, Begin
    <2>2. CASE open' = None
      BY <1>1, <1>6, <2>1, <2>2, Loses
    <2>3. CASE open' # None
      <3>1. writing' = b.call
        BY <1>6, <2>3 DEF Begin
      <3>2. Pending = Waiting(ring)
        BY <2>1 DEF Pending
      <3>3. Pending' = Waiting(Tail(ring)) \cup {b.call}
        BY <2>1, <2>3, <3>1 DEF Pending, Waiting
      <3>4. Pending' = Pending
        BY <1>3, <1>6, <3>2, <3>3
      <3> QED
        BY <1>1, <2>1, <3>4, Quiet
    <2> QED
      BY <2>2, <2>3
  <1>7. CASE b.event = "pcm" /\ Return("top") /\ UNCHANGED <<part, meta, open, writing>>
    BY <1>4, <1>7 DEF Return
  <1>8. CASE open # None /\ Finish(b.event = "abort", "top")
    BY <1>1, <1>8, LibraryFinishes
  <1> QED
    BY <1>5, <1>6, <1>7, <1>8 DEF Step

\* A recording is deleted whole and not while it is played.
LEMMA LibraryDeletes ==
  ASSUME Safe, NEW n, NEW next, Delete(n, next), UNCHANGED <<ring, open, writing, meta, playing, current>>
  PROVE  LibraryStep
  <1>1. Pending' = Pending
    BY DEF Pending, Waiting
  <1>2. CASE n \in wav \ playing /\ wav' = wav \ {n}
    <2>1. /\ \A m \in wav : meta[m] = meta[n] => m = n
          /\ playing \subseteq wav
      BY <1>2, OneName DEF Safe, PlayedStays
    <2>2. /\ CallsOf(wav)' = CallsOf(wav) \ {meta[n]} /\ CallsOf(playing)' = CallsOf(playing)
          /\ meta[n] \in CallsOf(wav) \ CallsOf(playing)
      BY <1>2, <2>1 DEF CallsOf
    <2>3. Library!Remove(meta[n])
      BY <1>1, <2>2 DEF Library!Remove
    <2> QED
      BY <2>2, <2>3 DEF LibraryStep, Library!LibraryNext
  <1>3. CASE UNCHANGED wav
    BY <1>1, <1>3, Quiet
  <1> QED
    BY <1>2, <1>3 DEF Delete

\* The interface.
LEMMA LibraryPlays ==
  ASSUME Safe, NEW n, Play(n) \/ (n \in playing /\ StopPlaying(n))
  PROVE  LibraryStep
  <1>1. Pending' = Pending /\ UNCHANGED <<current, wav, meta>>
    BY DEF Play, StopPlaying, decoder, worker, card, Pending, Waiting
  <1>2. CallsOf(wav)' = CallsOf(wav)
    BY <1>1 DEF CallsOf
  <1>3. CASE Play(n)
    <2>1. /\ meta[n] \in CallsOf(wav)
          /\ CallsOf(playing)' = CallsOf(playing) \cup {meta[n]}
      BY <1>1, <1>3 DEF Play, CallsOf
    <2> QED
      BY <1>1, <1>2, <2>1 DEF LibraryStep, Library!LibraryNext, Library!Play
  <1>4. CASE n \in playing /\ StopPlaying(n)
    <2>1. \A m \in playing : meta[m] = meta[n] => m = n
      BY <1>4, OneName DEF Safe, PlayedStays
    <2>2. /\ meta[n] \in CallsOf(playing)
          /\ CallsOf(playing)' = CallsOf(playing) \ {meta[n]}
      BY <1>1, <1>4, <2>1 DEF StopPlaying, CallsOf
    <2> QED
      BY <1>1, <1>2, <2>2 DEF LibraryStep, Library!LibraryNext, Library!StopPlaying
  <1> QED
    BY <1>3, <1>4

LEMMA LibraryCuts ==
  ASSUME PowerCut
  PROVE  LibraryStep
  <1>1. Pending' = {} /\ CallsOf(playing)' = {} /\ CallsOf(wav)' = CallsOf(wav) /\ UNCHANGED current
    BY DEF PowerCut, Pending, Waiting, CallsOf, card
  <1> QED
    BY <1>1 DEF LibraryStep, Library!LibraryNext, Library!PowerCut

LEMMA LibraryHolds == Safe /\ [Next]_vars => LibraryStep
  <1> SUFFICES ASSUME Safe, [Next]_vars PROVE LibraryStep
    OBVIOUS
  <1>1. ASSUME NEW split \in BOOLEAN, Audio(split) PROVE LibraryStep
    <2>1. UNCHANGED <<card, open, writing, playing>> /\ (End(FALSE) \/ Record(split))
      BY <1>1 DEF Audio, worker, others
    <2> QED
      BY <2>1, LibraryEnds, LibraryRecords
  <1>2. CASE Hangup \/ Encrypted
    <2>1. UNCHANGED <<card, open, writing, playing>> /\ (End(FALSE) \/ End(TRUE))
      BY <1>2 DEF Hangup, Encrypted, worker, others
    <2> QED
      BY <2>1, LibraryEnds
  <1>3. CASE UNCHANGED <<decoder, card, worker, playing>>
    <2>1. Pending' = Pending
      BY <1>3 DEF decoder, worker, Pending, Waiting
    <2> QED
      BY <1>3, <2>1, Quiet DEF decoder, card
  <1>4. CASE \E n \in recent : AskDelete(n) \/ \E on \in BOOLEAN : AskKeep(n, on)
    BY <1>3, <1>4 DEF AskDelete, AskKeep
  <1>5. CASE Refresh \/ Midnight \/ SetClock \/ UNCHANGED vars
    BY <1>3, <1>5 DEF Refresh, Midnight, SetClock, vars, others
  <1>6. CASE (\E n \in recent : Play(n)) \/ (\E n \in playing : StopPlaying(n))
    BY <1>6, LibraryPlays
  <1>7. CASE TakeDeletion
    <2>1. UNCHANGED <<ring, open, writing, meta, playing, current>>
      BY <1>7 DEF TakeDeletion, decoder
    <2>2. CASE Delete(deletion, "protect")
      BY <2>1, <2>2, LibraryDeletes
    <2>3. CASE UNCHANGED wav
      <3>1. Pending' = Pending
        BY <2>1 DEF Pending, Waiting
      <3> QED
        BY <2>1, <2>3, <3>1, Quiet
    <2> QED
      BY <1>7, <2>2, <2>3 DEF TakeDeletion
  <1>8. CASE Retain
    <2>1. UNCHANGED <<ring, open, writing, meta, playing, current>>
      BY <1>8 DEF Retain, decoder, others
    <2>2. ASSUME NEW n \in left, Delete(n, "retain") PROVE LibraryStep
      BY <2>1, <2>2, LibraryDeletes
    <2>3. CASE UNCHANGED wav
      <3>1. Pending' = Pending
        BY <2>1 DEF Pending, Waiting
      <3> QED
        BY <2>1, <2>3, <3>1, Quiet
    <2> QED
      BY <1>8, <2>2, <2>3 DEF Retain
  <1>9. CASE UnlinkMeta
    <2>1. victim \notin wav /\ wav \subseteq Name /\ meta \in [Name -> 0..MaxCall]
      BY <1>9 DEF Safe, IInv, KeepInv, TypeInv, TypeOK, UnlinkMeta
    <2>2. \A n \in wav : meta'[n] = meta[n]
      BY <1>9, <2>1 DEF UnlinkMeta
    <2>3. Pending' = Pending /\ UNCHANGED <<wav, playing, current>>
      BY <1>9 DEF UnlinkMeta, decoder, others, Pending, Waiting
    <2> QED
      BY <2>2, <2>3, Quiet
  <1>10. CASE TakeProtection \/ UnlinkKeep \/ Idle
    <2>1. Pending' = Pending /\ UNCHANGED <<wav, meta, playing, current>>
      BY <1>10 DEF TakeProtection, UnlinkKeep, Idle, decoder, card, others, Pending, Waiting
    <2> QED
      BY <2>1, Quiet
  <1>11. CASE WriteMeta \/ Rename \/ Space \/ Step
    BY <1>11, LibraryWrites, LibraryRenames, LibrarySpace, LibrarySteps
  <1>12. CASE PowerCut
    BY <1>12, LibraryCuts
  <1> QED
    BY <1>1, <1>2, <1>4, <1>5, <1>6, <1>7, <1>8, <1>9, <1>10, <1>11, <1>12 DEF Next, Worker

\* The ring, the worker's steps on the card and the mailboxes implement the
\* library of CallLibrary: every call that call_recorder begins is saved once
\* or lost for good, in the order of the calls, call_store_delete removes it
\* whole and not under its player, and a power cut loses only what was not yet
\* renamed.
THEOREM ArchiveImplementsLibrary == Spec => ImplementsLibrary
  <1>1. Init => Library!LibraryInit
    BY DEF Init, Library!LibraryInit, Pending, Waiting, CallsOf
  <1>2. Safe /\ [Next]_vars => LibraryStep
    BY LibraryHolds
  <1> QED
    BY <1>1, <1>2, Invariant, PlayerKeepsFile, PTL
       DEF Safe, LibraryStep, Spec, ImplementsLibrary, Library!LibrarySpec

\* A call that has begun and is neither waiting nor a recording.
Gone(c) == c <= current /\ c \notin Pending \cup CallsOf(wav)

\* Such a call is gone for good: no step of the worker, no retry after a failure
\* and no power cut brings it back (call_recorder's name is looked for on the
\* card, and a part file is never renamed after a restart).
THEOREM GoneIsGone == Spec => [][\A c \in Call : Gone(c) => Gone(c)']_vars
  <1> DEFINE A == \A c \in Call : Gone(c) => Gone(c)'
  <1>1. ASSUME Safe, LibraryStep PROVE A
    <2> SUFFICES ASSUME NEW c \in Call, Gone(c) PROVE Gone(c)'
      OBVIOUS
    <2>1. c \in Nat /\ current \in Nat
      BY <1>1, CallBound DEF Call, Safe, IInv, RingInv
    <2> QED
      BY <1>1, <2>1 DEF Gone, LibraryStep, Library!LibraryNext, Library!libraryVars, Library!Begin,
                        Library!Save, Library!Drop, Library!Remove, Library!Play,
                        Library!StopPlaying, Library!PowerCut
  <1>2. Safe /\ [Next]_vars => [A]_vars
    BY <1>1, LibraryHolds
  <1> QED
    BY <1>2, Invariant, PlayerKeepsFile, PTL DEF Spec, Safe
=============================================================================
