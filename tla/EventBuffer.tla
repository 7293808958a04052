---------------------------- MODULE EventBuffer ----------------------------
(***************************************************************************)
(* The fixed-size circular buffer of timed events that every client, every *)
(* observer and the game server own (struct event_buffer), and what the    *)
(* functions of time_api.c do to one.  The operators here are pure: a      *)
(* specification keeps buffers in its own variables and applies them.      *)
(*                                                                         *)
(* An event is a record with at least the fields exec_time (the game time  *)
(* at which it becomes due) and arg (the heap string that the event owns,  *)
(* or Null); the other fields stand for the callback and its data.         *)
(***************************************************************************)
EXTENDS Integers

CONSTANTS
    MAX_EVENTS,   \* number of slots of a buffer (10 in game_structs.h)
    Null          \* the NULL pointer

ASSUME MaxEventsAssumption == MAX_EVENTS \in Nat \ {0}

Slots == 0 .. MAX_EVENTS - 1

\* Mutant: the index is not wrapped.
NextSlotUnwrapped(i) == i + 1

\* (i + 1) % MAX_EVENTS and (i - 1 + MAX_EVENTS) % MAX_EVENTS
NextSlot(i) == (i + 1) % MAX_EVENTS
PrevSlot(i) == (i - 1 + MAX_EVENTS) % MAX_EVENTS

Buffers(Event) ==
    [events : [Slots -> Event], count : 0 .. MAX_EVENTS, head : Slots, tail : Slots]

\* A buffer as memset() leaves it; zero is the all-zero event.
EmptyBuffer(zero) ==
    [events |-> [s \in Slots |-> zero], count |-> 0, head |-> 0, tail |-> 0]

m_is_event_buffer_full(b) == b.count = MAX_EVENTS

\* The slots that hold an event still to be executed: count of them, from the head on.
Arc(head, count) ==
    {s \in Slots : IF head <= s THEN s - head < count ELSE s + MAX_EVENTS - head < count}

Pending(b) == Arc(b.head, b.count)

\* head, tail and count describe the same pending events.
ArcEnd(head, count) == (head + count) % MAX_EVENTS

TailMatches(b) == b.tail = ArcEnd(b.head, b.count)

\* The slot of the i-th pending event, i counted from 1.
SlotAt(b, i) == ArcEnd(b.head, i - 1)

\* The event ev, due at time t.
At(ev, t) == [ev EXCEPT !.exec_time = t]

\* Mutant: the new event waits for the one scheduled before it, then for its delay.
ScheduleAfterLast(b, now, delay, ev) ==
    IF b.count >= MAX_EVENTS
    THEN b
    ELSE LET base == IF b.count > 0 THEN b.events[PrevSlot(b.tail)].exec_time ELSE now
         IN  [events |-> [b.events EXCEPT ![b.tail] = At(ev, base + delay)],
              count  |-> b.count + 1,
              head   |-> b.head,
              tail   |-> NextSlot(b.tail)]

(***************************************************************************)
(* time_api_schedule_client_event: a full buffer refuses the event.        *)
(* Otherwise it is written at the tail; when other events are pending its  *)
(* time is computed from whatever time the free tail slot still holds.     *)
(***************************************************************************)
Schedule(b, now, delay, ev) ==
    IF b.count >= MAX_EVENTS
    THEN b
    ELSE LET base == IF b.count > 0 THEN b.events[b.tail].exec_time ELSE now
         IN  [events |-> [b.events EXCEPT ![b.tail] = At(ev, base + delay)],
              count  |-> b.count + 1,
              head   |-> b.head,
              tail   |-> NextSlot(b.tail)]

\* Mutant: the event is written and the head moved, but the event is not counted.
ScheduleFrontUncounted(b, now, delay, ev) ==
    IF m_is_event_buffer_full(b)
    THEN b
    ELSE [b EXCEPT !.events[PrevSlot(b.head)] = At(ev, now + delay),
                   !.head = PrevSlot(b.head)]

\* Mutant: the event is written over the head, which is not moved.
ScheduleFrontInPlace(b, now, delay, ev) ==
    IF m_is_event_buffer_full(b)
    THEN b
    ELSE [b EXCEPT !.events[b.head] = At(ev, now + delay),
                   !.tail = NextSlot(b.tail),
                   !.count = b.count + 1]

(***************************************************************************)
(* time_api_schedule_client_event_front: a full buffer refuses the event,  *)
(* otherwise it becomes the next one to be executed.                       *)
(***************************************************************************)
ScheduleFront(b, now, delay, ev) ==
    IF m_is_event_buffer_full(b)
    THEN b
    ELSE [events |-> [b.events EXCEPT ![PrevSlot(b.head)] = At(ev, now + delay)],
          count  |-> b.count + 1,
          head   |-> PrevSlot(b.head),
          tail   |-> b.tail]

(***************************************************************************)
(* time_api_process_client_events looks at the head only.  It is split at  *)
(* the callback, which may itself schedule events in the same buffer:      *)
(* Pop is what happens before it; ArgToFree and ReleaseArg what happens    *)
(* after it, slot being the one that was popped, popped the buffer handed  *)
(* to the callback and b the buffer the callback left behind.              *)
(***************************************************************************)
\* Mutant: the last event of the buffer is never looked at.
HeadIsDueButLast(b, now) == b.count > 1 /\ b.events[b.head].exec_time <= now

HeadIsDue(b, now) == b.count > 0 /\ b.events[b.head].exec_time <= now

Pop(b) ==
    [events |-> b.events, count |-> b.count - 1, head |-> NextSlot(b.head), tail |-> b.tail]

\* Mutant: the slot's argument is freed whatever the callback did to the head.
ArgToFreeAlways(popped, b, slot) == {b.events[slot].arg} \ {Null}

ArgToFree(popped, b, slot) ==
    IF popped.head = b.head THEN {b.events[slot].arg} \ {Null} ELSE {}

\* Mutant: the argument is freed but the slot keeps the pointer.
ReleaseArgDangling(popped, b, slot) == b

ReleaseArg(popped, b, slot) ==
    IF popped.head = b.head
    THEN [b EXCEPT !.events[slot].arg = Null]
    ELSE b

=============================================================================
