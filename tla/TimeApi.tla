------------------------------ MODULE TimeApi ------------------------------
(***************************************************************************)
(* The time API driving the event buffer of one client: the game clock,    *)
(* the scheduling of commands, their execution one at a time when they are *)
(* due, and the ownership of the argument strings that events carry.       *)
(*                                                                         *)
(* Callbacks are reduced to what they do to the buffer: every command of   *)
(* game.c leaves it alone except m_command_incantation, which, when the    *)
(* incantation may start, puts m_command_real_incantation at its front.    *)
(* now is time_api.current_time_units.                                     *)
(***************************************************************************)
EXTENDS EventBuffer, Sequences

CONSTANTS
    Args,             \* the strings that strdup() can return (bound on the heap)
    Delays,           \* the delays of the configured commands
    IncantationTime,  \* m_incantation_time
    MaxTime           \* bound on the clock

\* With a single slot the head would not move when an event is put in front.
ASSUME TimeApiAssumption ==
    /\ MAX_EVENTS > 1
    /\ Null \notin Args
    /\ Delays \subseteq Nat
    /\ IncantationTime \in Nat
    /\ MaxTime \in Nat

VARIABLES
    now,    \* the current game time
    buf,    \* the event buffer
    live    \* the argument strings that are allocated

vars == <<now, buf, live>>

Callbacks == {"none", "command", "incantation", "real_incantation"}

(***************************************************************************)
(* promised is a history field: the time at which the caller of the API    *)
(* was told that the event triggers, "number of time units from now".      *)
(***************************************************************************)
Events == [exec_time : Nat, callback : Callbacks, arg : Args \cup {Null}, promised : Nat]

ZeroEvent == [exec_time |-> 0, callback |-> "none", arg |-> Null, promised |-> 0]

Event(cb, a, p) == [exec_time |-> 0, callback |-> cb, arg |-> a, promised |-> p]

Init ==
    /\ now = 0
    /\ buf = EmptyBuffer(ZeroEvent)
    /\ live = {}

----------------------------------------------------------------------------
(* Actions *)

\* time_api_update: the wall clock is read again; any number of units may have passed.
time_api_update ==
    /\ now' \in now .. MaxTime
    /\ UNCHANGED <<buf, live>>

(***************************************************************************)
(* game_execute_command: the optional argument is duplicated and handed to *)
(* the buffer.  The result of the call is ignored: when the buffer is full *)
(* the command is lost and its argument stays allocated.                   *)
(***************************************************************************)
time_api_schedule_client_event(cb, delay, a) ==
    /\ now + delay <= MaxTime
    /\ a \in (Args \ live) \cup {Null}
    /\ buf' = Schedule(buf, now, delay, Event(cb, a, now + delay))
    /\ live' = live \cup ({a} \ {Null})
    /\ UNCHANGED now

\* What the callback of an event may leave in the buffer, and what it allocates.
CallbackResults(ev, popped) ==
    {[buffer |-> popped, allocated |-> {}]}
    \cup
    {[buffer    |-> ScheduleFront(popped, now, IncantationTime,
                        Event("real_incantation", a, now + IncantationTime)),
      allocated |-> {a}] :
        a \in {x \in Args \ live : ev.callback = "incantation"
                                   /\ now + IncantationTime <= MaxTime}}

\* time_api_process_client_events, callback included, when the head is due.
time_api_process_client_events ==
    /\ HeadIsDue(buf, now)
    /\ \E r \in CallbackResults(buf.events[buf.head], Pop(buf)) :
          /\ buf' = ReleaseArg(Pop(buf), r.buffer, buf.head)
          /\ live' = (live \cup r.allocated) \ ArgToFree(Pop(buf), r.buffer, buf.head)
    /\ UNCHANGED now

(***************************************************************************)
(* The end of game_player_die: the argument of every slot is freed, the    *)
(* pending ones and the others, and the client with its buffer.  A client  *)
(* that connects later gets a zeroed buffer.                               *)
(***************************************************************************)
ArgsHeld == {buf.events[s].arg : s \in Slots} \ {Null}

game_player_die ==
    /\ buf' = EmptyBuffer(ZeroEvent)
    /\ live' = live \ ArgsHeld
    /\ UNCHANGED now

ScheduleSome ==
    \E cb \in {"command", "incantation"}, delay \in Delays, a \in Args \cup {Null} :
        time_api_schedule_client_event(cb, delay, a)

Next ==
    \/ time_api_update
    \/ ScheduleSome
    \/ time_api_process_client_events
    \/ game_player_die

Spec == Init /\ [][Next]_vars

(***************************************************************************)
(* The main loop calls time_api_update and game_play for ever, so time     *)
(* passes and a due head is executed.  Nothing else is guaranteed.         *)
(***************************************************************************)
TimePasses == time_api_update /\ now' > now

Fairness == WF_vars(TimePasses) /\ WF_vars(time_api_process_client_events)

FairSpec == Spec /\ Fairness

----------------------------------------------------------------------------
(* Properties *)

\* Every variable has its type.
TypeOK ==
    /\ now \in Nat
    /\ buf \in Buffers(Events)
    /\ live \subseteq Args

\* A slot that is free holds a time of the past.
FreeSlotsArePast ==
    \A s \in Slots \ Pending(buf) : buf.events[s].exec_time <= now

(***************************************************************************)
(* head, tail and count of the ring agree, also after an event was put     *)
(* back in front of the one being executed, and the slots outside the      *)
(* pending ones, from which the next event's time is computed, hold no     *)
(* time of the future.                                                     *)
(***************************************************************************)
RingInv == TailMatches(buf) /\ FreeSlotsArePast

(***************************************************************************)
(* An event never waits longer than the caller of the API was told,        *)
(* although its time is computed from a slot that is not in use.           *)
(***************************************************************************)
NeverLate ==
    \A s \in Pending(buf) : buf.events[s].exec_time <= buf.events[s].promised

(***************************************************************************)
(* Each argument string has one owner: whatever non-NULL pointer any slot  *)
(* holds, pending or not, is allocated and is held by no other slot, so    *)
(* that game_player_die, which frees them all, frees each exactly once.    *)
(***************************************************************************)
ArgOwnership ==
    \A s \in Slots : buf.events[s].arg # Null =>
        /\ buf.events[s].arg \in live
        /\ \A t \in Slots \ {s} : buf.events[t].arg # buf.events[s].arg

(***************************************************************************)
(* m_command_real_incantation converts its argument with atoi: when it is  *)
(* pending, its string is there, and it is the next event to be executed.  *)
(***************************************************************************)
RealIncantationReady ==
    \A s \in Pending(buf) : buf.events[s].callback = "real_incantation" =>
        buf.events[s].arg \in live /\ s = buf.head

\* What the runs check and the proofs show to be inductive.
IndInv ==
    TypeOK /\ RingInv /\ NeverLate /\ ArgOwnership /\ RealIncantationReady

(***************************************************************************)
(* The buffer is a bounded double-ended queue: pending events leave in the *)
(* order in which they were accepted, and only a started incantation goes  *)
(* ahead of the others.                                                    *)
(***************************************************************************)
Item(ev) == [callback |-> ev.callback, arg |-> ev.arg]

Items == [callback : Callbacks \ {"none"}, arg : Args \cup {Null}]

PendingItems(b) == [i \in 1 .. b.count |-> Item(b.events[SlotAt(b, i)])]

Deque == INSTANCE CommandDeque WITH pending <- PendingItems(buf), Capacity <- MAX_EVENTS

RefinesDeque == Deque!Spec

(***************************************************************************)
(* Every accepted command that carries an argument is executed eventually, *)
(* or its client dies.                                                     *)
(***************************************************************************)
IsPending(a) == \E s \in Pending(buf) : buf.events[s].arg = a

EventuallyExecuted == \A a \in Args : IsPending(a) ~> ~IsPending(a)

(***************************************************************************)
(* time_api.c:106 says of time_api_schedule_client_event that "The event's *)
(* exec_time is set to current game time + delay."                         *)
(***************************************************************************)
DelayFromNow ==
    \A s \in Pending(buf) : buf.events[s].exec_time = buf.events[s].promised

=============================================================================
