---------------------------- MODULE DownlinkPool ----------------------------
(***************************************************************************)
(* The slots of the intercom's downlink video                              *)
(* (doorbell_downlink_img_manager.c): buffers for one H.264 access unit    *)
(* each, on a stack of free ones and in a FIFO of filled ones.  Every      *)
(* operation runs under the mutex of the pool, so each is one step.        *)
(***************************************************************************)
EXTENDS Naturals, Sequences, FiniteSets, SequencesExt

CONSTANTS
    Slots,    \* DL_SLOT_COUNT slots
    NoSlot    \* a NULL frame pointer

ASSUME PoolAssumption == IsFiniteSet(Slots) /\ NoSlot \notin Slots

VARIABLES
    up,       \* s_mgr.inited
    free,     \* free_idx[0 .. free_top - 1], the top at the end
    ready,    \* the ready FIFO, the oldest first
    unit      \* what each slot holds

poolVars == <<up, free, ready, unit>>

\* An access unit: an IDR picture or one that needs the picture before it.
\* "after" tells what became of the access unit before this one in the
\* stream: it was "stored", its loss was "told" to the decoder while no IDR
\* was waiting ahead, or it was lost "untold".
Kinds == {"idr", "p"}
Losses == {"stored", "told", "untold"}
Unit == [kind : Kinds, after : Losses]

\* What is left in a slot that is free is of no interest.
Blank == [kind |-> "p", after |-> "untold"]

Size == Cardinality(Slots)

PoolTypeOK ==
    /\ up \in BOOLEAN
    /\ free \in Seq(Slots) /\ Len(free) <= Size
    /\ ready \in Seq(Slots) /\ Len(ready) <= Size
    /\ unit \in [Slots -> Unit]

PoolInit ==
    /\ up = FALSE /\ free = <<>> /\ ready = <<>>
    /\ unit = [s \in Slots |-> Blank]

\* doorbell_downlink_img_manager_init, where every buffer is allocated.
PoolOpen ==
    /\ up' = TRUE
    /\ free' = SetToSeq(Slots) /\ ready' = <<>>
    /\ unit' = [s \in Slots |-> Blank]

\* doorbell_downlink_img_manager_deinit, or an allocation that fails.
PoolClose ==
    /\ up' = FALSE /\ free' = <<>> /\ ready' = <<>>
    /\ unit' = [s \in Slots |-> Blank]

\* doorbell_downlink_free_request: slot s is the top of the free stack.
CanTake == up /\ free # <<>>
TakeFree == free' = Front(free) /\ UNCHANGED <<up, ready, unit>>

\* doorbell_downlink_ready_push of slot s that was filled with u.
PushReady(s, u) ==
    /\ unit' = [unit EXCEPT ![s] = u]
    /\ ready' = IF up /\ Len(ready) < Size THEN Append(ready, s) ELSE ready
    /\ UNCHANGED <<up, free>>

\* doorbell_downlink_ready_pop, when its semaphore was posted.
PopReady == /\ up /\ ready # <<>>
            /\ ready' = Tail(ready)
            /\ UNCHANGED <<up, free, unit>>

\* doorbell_downlink_free_push of slot s; as a mutant, without effect.
GiveBackNothing(s) == UNCHANGED poolVars
GiveBack(s) ==
    /\ free' = IF up /\ Len(free) < Size THEN Append(free, s) ELSE free
    /\ unit' = [unit EXCEPT ![s] = Blank]
    /\ UNCHANGED <<up, ready>>

=============================================================================
