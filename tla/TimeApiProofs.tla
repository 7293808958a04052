--------------------------- MODULE TimeApiProofs ---------------------------
(***************************************************************************)
(* What the operators of EventBuffer do to the ring, for every size of it, *)
(* and the invariants of TimeApi, for every buffer size, every set of      *)
(* argument strings, every set of delays and every bound on the clock.     *)
(***************************************************************************)
EXTENDS TimeApi, SequenceTheorems, TLAPS

----------------------------------------------------------------------------
(* The ring *)

\* A slot index plus at most one lap wraps around by one subtraction.
LEMMA Wrap ==
  \A h \in Slots, c \in 0 .. MAX_EVENTS :
    ArcEnd(h, c) = IF h + c < MAX_EVENTS THEN h + c ELSE h + c - MAX_EVENTS
BY MaxEventsAssumption DEF Slots, ArcEnd

\* NextSlot and PrevSlot step around the ring of slots and undo each other.
LEMMA Steps ==
  \A i \in Slots :
    /\ NextSlot(i) = IF i + 1 = MAX_EVENTS THEN 0 ELSE i + 1
    /\ PrevSlot(i) = IF i = 0 THEN MAX_EVENTS - 1 ELSE i - 1
    /\ NextSlot(i) \in Slots
    /\ PrevSlot(i) \in Slots
    /\ PrevSlot(NextSlot(i)) = i
<1>1. \A a \in 0 .. MAX_EVENTS - 1 : a % MAX_EVENTS = a
  BY MaxEventsAssumption
<1>2. \A a \in MAX_EVENTS .. 2 * MAX_EVENTS - 1 : a % MAX_EVENTS = a - MAX_EVENTS
  BY MaxEventsAssumption
<1>3. \A i \in Slots :
        /\ NextSlot(i) = IF i + 1 = MAX_EVENTS THEN 0 ELSE i + 1
        /\ PrevSlot(i) = IF i = 0 THEN MAX_EVENTS - 1 ELSE i - 1
  BY <1>1, <1>2, MaxEventsAssumption DEF Slots, NextSlot, PrevSlot
<1> QED
  BY <1>3, MaxEventsAssumption DEF Slots

\* An arc grows at its end by the slot that follows it.
LEMMA ArcAppend ==
  ASSUME NEW h \in Slots, NEW n \in 0 .. MAX_EVENTS, n < MAX_EVENTS
  PROVE  /\ ArcEnd(h, n) \in Slots
         /\ ArcEnd(h, n) \notin Arc(h, n)
         /\ Arc(h, n + 1) = Arc(h, n) \cup {ArcEnd(h, n)}
         /\ ArcEnd(h, n + 1) = NextSlot(ArcEnd(h, n))
<1> DEFINE t == ArcEnd(h, n)
<1>1. t = IF h + n < MAX_EVENTS THEN h + n ELSE h + n - MAX_EVENTS
  BY Wrap
<1>2. ArcEnd(h, n + 1) = IF h + (n + 1) < MAX_EVENTS THEN h + (n + 1)
                                                     ELSE h + (n + 1) - MAX_EVENTS
  BY Wrap, MaxEventsAssumption
<1> HIDE DEF t
<1>3. t \in Slots
  BY <1>1, MaxEventsAssumption DEF Slots
<1>4. t \notin Arc(h, n) /\ Arc(h, n + 1) = Arc(h, n) \cup {t}
  BY <1>1, MaxEventsAssumption DEF Slots, Arc
<1>5. NextSlot(t) = IF t + 1 = MAX_EVENTS THEN 0 ELSE t + 1
  BY <1>3, Steps
<1>6. ArcEnd(h, n + 1) = NextSlot(t)
  BY <1>1, <1>2, <1>5, MaxEventsAssumption DEF Slots
<1> QED
  BY <1>3, <1>4, <1>6 DEF t

\* An arc grows at its start by the slot before it.
LEMMA ArcPrepend ==
  ASSUME NEW h \in Slots, NEW n \in 0 .. MAX_EVENTS, n < MAX_EVENTS
  PROVE  /\ PrevSlot(h) \in Slots
         /\ PrevSlot(h) \notin Arc(h, n)
         /\ Arc(PrevSlot(h), n + 1) = Arc(h, n) \cup {PrevSlot(h)}
         /\ ArcEnd(PrevSlot(h), n + 1) = ArcEnd(h, n)
<1> DEFINE p == PrevSlot(h)
<1>1. p \in Slots /\ p = IF h = 0 THEN MAX_EVENTS - 1 ELSE h - 1
  BY Steps
<1> HIDE DEF p
<1>2. p \notin Arc(h, n) /\ Arc(p, n + 1) = Arc(h, n) \cup {p}
  BY <1>1, MaxEventsAssumption DEF Slots, Arc
<1>3. ArcEnd(h, n) = IF h + n < MAX_EVENTS THEN h + n ELSE h + n - MAX_EVENTS
  BY Wrap
<1>4. n + 1 \in 0 .. MAX_EVENTS
  BY MaxEventsAssumption
<1>5. ArcEnd(p, n + 1) = IF p + (n + 1) < MAX_EVENTS THEN p + (n + 1)
                                                     ELSE p + (n + 1) - MAX_EVENTS
  BY <1>1, <1>4, Wrap
<1>6. ArcEnd(p, n + 1) = ArcEnd(h, n)
  BY <1>1, <1>3, <1>5, MaxEventsAssumption DEF Slots
<1> QED
  BY <1>1, <1>2, <1>6 DEF p

\* An arc shrinks at its start by its first slot.
LEMMA ArcTail ==
  ASSUME NEW h \in Slots, NEW n \in 0 .. MAX_EVENTS, n > 0
  PROVE  /\ h \in Arc(h, n)
         /\ Arc(NextSlot(h), n - 1) = Arc(h, n) \ {h}
         /\ ArcEnd(NextSlot(h), n - 1) = ArcEnd(h, n)
<1> DEFINE m == n - 1
<1> DEFINE k == NextSlot(h)
<1>1. /\ m \in 0 .. MAX_EVENTS /\ m < MAX_EVENTS /\ n = m + 1
      /\ k \in Slots /\ PrevSlot(k) = h
  BY Steps, MaxEventsAssumption
<1> HIDE DEF m, k
<1>2. /\ h \notin Arc(k, m)
      /\ Arc(h, n) = Arc(k, m) \cup {h}
      /\ ArcEnd(h, n) = ArcEnd(k, m)
  BY <1>1, ArcPrepend
<1> QED
  BY <1>2 DEF m, k

\* A zeroed buffer is a well-formed empty ring.
LEMMA EmptyBufferLemma ==
  ASSUME NEW E, NEW zero \in E
  PROVE  /\ EmptyBuffer(zero) \in Buffers(E)
         /\ TailMatches(EmptyBuffer(zero))
         /\ Pending(EmptyBuffer(zero)) = {}
         /\ \A s \in Slots : EmptyBuffer(zero).events[s] = zero
<1>1. Arc(0, 0) = {} /\ ArcEnd(0, 0) = 0 /\ 0 \in Slots
  BY MaxEventsAssumption, Wrap DEF Slots, Arc
<1> QED
  BY <1>1, MaxEventsAssumption DEF EmptyBuffer, Buffers, TailMatches, Pending

\* Scheduling adds exactly the tail slot, which was free, to the pending ones.
LEMMA ScheduleLemma ==
  ASSUME NEW E, NEW b \in Buffers(E), TailMatches(b), b.count < MAX_EVENTS,
         NEW t, NEW delay, NEW ev,
         NEW e \in E,
         e = At(ev, (IF b.count > 0 THEN b.events[b.tail].exec_time ELSE t) + delay)
  PROVE  LET c == Schedule(b, t, delay, ev)
         IN  /\ c \in Buffers(E)
             /\ c.events = [b.events EXCEPT ![b.tail] = e]
             /\ c.head = b.head
             /\ c.count = b.count + 1
             /\ TailMatches(c)
             /\ b.tail \in Slots \ Pending(b)
             /\ Pending(c) = Pending(b) \cup {b.tail}
<1> DEFINE c == Schedule(b, t, delay, ev)
<1>0. /\ b.head \in Slots /\ b.tail \in Slots /\ b.count \in 0 .. MAX_EVENTS
      /\ b.events \in [Slots -> E]
  BY DEF Buffers
<1>1. c = [events |-> [b.events EXCEPT ![b.tail] = e], count |-> b.count + 1,
           head |-> b.head, tail |-> NextSlot(b.tail)]
  BY <1>0, MaxEventsAssumption DEF Schedule
<1> HIDE DEF c
<1>2. /\ b.tail \in Slots \ Arc(b.head, b.count)
      /\ Arc(b.head, b.count + 1) = Arc(b.head, b.count) \cup {b.tail}
      /\ ArcEnd(b.head, b.count + 1) = NextSlot(b.tail)
      /\ NextSlot(b.tail) \in Slots
  <2>1. b.tail = ArcEnd(b.head, b.count) /\ b.count \in 0 .. MAX_EVENTS - 1
    BY <1>0, MaxEventsAssumption DEF TailMatches
  <2>2. NextSlot(b.tail) \in Slots
    BY <1>0, Steps
  <2> QED
    BY <1>0, <2>1, <2>2, ArcAppend
<1>3. c \in Buffers(E)
  BY <1>0, <1>1, <1>2, MaxEventsAssumption DEF Buffers
<1> QED
  BY <1>1, <1>2, <1>3 DEF c, TailMatches, Pending

\* Scheduling in front adds exactly the slot before the head, which was free.
LEMMA ScheduleFrontLemma ==
  ASSUME NEW E, NEW b \in Buffers(E), TailMatches(b), b.count < MAX_EVENTS,
         NEW t, NEW delay, NEW ev,
         NEW e \in E, e = At(ev, t + delay)
  PROVE  LET c == ScheduleFront(b, t, delay, ev)
         IN  /\ c \in Buffers(E)
             /\ c.events = [b.events EXCEPT ![PrevSlot(b.head)] = e]
             /\ c.head = PrevSlot(b.head)
             /\ c.count = b.count + 1
             /\ TailMatches(c)
             /\ PrevSlot(b.head) \in Slots \ Pending(b)
             /\ Pending(c) = Pending(b) \cup {PrevSlot(b.head)}
<1> DEFINE c == ScheduleFront(b, t, delay, ev)
<1>0. /\ b.head \in Slots /\ b.tail \in Slots /\ b.count \in 0 .. MAX_EVENTS
      /\ b.events \in [Slots -> E]
  BY DEF Buffers
<1>1. c = [events |-> [b.events EXCEPT ![PrevSlot(b.head)] = e], count |-> b.count + 1,
           head |-> PrevSlot(b.head), tail |-> b.tail]
  BY <1>0, MaxEventsAssumption DEF ScheduleFront, m_is_event_buffer_full
<1> HIDE DEF c
<1>2. /\ PrevSlot(b.head) \in Slots \ Arc(b.head, b.count)
      /\ Arc(PrevSlot(b.head), b.count + 1) = Arc(b.head, b.count) \cup {PrevSlot(b.head)}
      /\ ArcEnd(PrevSlot(b.head), b.count + 1) = b.tail
  BY <1>0, ArcPrepend DEF TailMatches
<1>3. c \in Buffers(E)
  BY <1>0, <1>1, <1>2, MaxEventsAssumption DEF Buffers
<1> QED
  BY <1>1, <1>2, <1>3 DEF c, TailMatches, Pending

\* Popping removes exactly the head from the pending slots.
LEMMA PopLemma ==
  ASSUME NEW E, NEW b \in Buffers(E), TailMatches(b), b.count > 0
  PROVE  LET c == Pop(b)
         IN  /\ c \in Buffers(E)
             /\ c.events = b.events
             /\ c.head = NextSlot(b.head)
             /\ c.count = b.count - 1
             /\ c.count < MAX_EVENTS
             /\ TailMatches(c)
             /\ b.head \in Pending(b)
             /\ Pending(c) = Pending(b) \ {b.head}
             /\ PrevSlot(c.head) = b.head
<1> DEFINE c == Pop(b)
<1>0. /\ b.head \in Slots /\ b.tail \in Slots /\ b.count \in 0 .. MAX_EVENTS
      /\ b.events \in [Slots -> E]
  BY DEF Buffers
<1>1. c = [events |-> b.events, count |-> b.count - 1, head |-> NextSlot(b.head),
           tail |-> b.tail]
  BY <1>0 DEF Pop
<1> HIDE DEF c
<1>2. /\ b.head \in Arc(b.head, b.count)
      /\ Arc(NextSlot(b.head), b.count - 1) = Arc(b.head, b.count) \ {b.head}
      /\ ArcEnd(NextSlot(b.head), b.count - 1) = b.tail
      /\ NextSlot(b.head) \in Slots
      /\ PrevSlot(NextSlot(b.head)) = b.head
  BY <1>0, ArcTail, Steps DEF TailMatches
<1>3. c \in Buffers(E) /\ c.count < MAX_EVENTS
  BY <1>0, <1>1, <1>2, MaxEventsAssumption DEF Buffers
<1> QED
  BY <1>1, <1>2, <1>3 DEF c, TailMatches, Pending

----------------------------------------------------------------------------
(* The time API *)

\* A buffer that satisfies the conjuncts of IndInv, with the clock at t and heap l.
Good(b, t, l) ==
    /\ t \in Nat
    /\ b \in Buffers(Events)
    /\ l \subseteq Args
    /\ TailMatches(b)
    /\ \A s \in Slots \ Pending(b) : b.events[s].exec_time <= t
    /\ \A s \in Pending(b) : b.events[s].exec_time <= b.events[s].promised
    /\ \A s \in Slots : b.events[s].arg # Null =>
          /\ b.events[s].arg \in l
          /\ \A u \in Slots \ {s} : b.events[u].arg # b.events[s].arg
    /\ \A s \in Pending(b) : b.events[s].callback = "real_incantation" =>
          b.events[s].arg \in l /\ s = b.head

LEMMA GoodIsIndInv == IndInv <=> Good(buf, now, live)
BY DEF IndInv, TypeOK, RingInv, FreeSlotsArePast, NeverLate, ArgOwnership,
       RealIncantationReady, Good

\* The initial buffer, and the one a new client gets, is good.
LEMMA EmptyIsGood ==
  ASSUME NEW t \in Nat, NEW l \in SUBSET Args
  PROVE  Good(EmptyBuffer(ZeroEvent), t, l)
<1>1. ZeroEvent \in Events /\ ZeroEvent.exec_time = 0 /\ ZeroEvent.arg = Null
  BY DEF ZeroEvent, Events, Callbacks
<1>2. /\ EmptyBuffer(ZeroEvent) \in Buffers(Events)
      /\ TailMatches(EmptyBuffer(ZeroEvent))
      /\ Pending(EmptyBuffer(ZeroEvent)) = {}
      /\ \A s \in Slots : EmptyBuffer(ZeroEvent).events[s] = ZeroEvent
  BY <1>1, EmptyBufferLemma
<1> HIDE DEF ZeroEvent
<1> QED
  BY <1>1, <1>2 DEF Good

\* Time may pass.
LEMMA UpdateGood ==
  ASSUME NEW b, NEW t, NEW u \in Nat, NEW l, Good(b, t, l), t <= u
  PROVE  Good(b, u, l)
<1>1. \A s \in Slots : b.events[s].exec_time \in Nat
  BY DEF Good, Buffers, Events
<1> QED
  BY <1>1 DEF Good

\* A command that is accepted is due no later than promised, and owns its argument.
LEMMA ScheduleGood ==
  ASSUME NEW b, NEW t, NEW l, Good(b, t, l), b.count < MAX_EVENTS,
         NEW delay \in Nat, NEW cb \in {"command", "incantation"},
         NEW a \in (Args \ l) \cup {Null}
  PROVE  Good(Schedule(b, t, delay, Event(cb, a, t + delay)), t, l \cup ({a} \ {Null}))
<1> DEFINE ev == Event(cb, a, t + delay)
<1> DEFINE base == IF b.count > 0 THEN b.events[b.tail].exec_time ELSE t
<1> DEFINE e == [exec_time |-> base + delay, callback |-> cb, arg |-> a, promised |-> t + delay]
<1> DEFINE c == Schedule(b, t, delay, ev)
<1> DEFINE m == l \cup ({a} \ {Null})
<1>0. /\ t \in Nat /\ b \in Buffers(Events) /\ TailMatches(b)
      /\ b.head \in Slots /\ b.tail \in Slots /\ b.count \in 0 .. MAX_EVENTS
      /\ b.events \in [Slots -> Events]
  BY DEF Good, Buffers
<1>1. b.tail \in Slots \ Pending(b)
  BY <1>0, ArcAppend DEF TailMatches, Pending
<1>2. base \in Nat /\ base <= t
  BY <1>0, <1>1 DEF Good, Events
<1>3. e \in Events
  BY <1>0, <1>2 DEF Events, Callbacks
<1>4. e = At(ev, base + delay)
  BY DEF At, Event
<1> HIDE DEF e, ev
<1>5. /\ c \in Buffers(Events)
      /\ c.events = [b.events EXCEPT ![b.tail] = e]
      /\ c.head = b.head
      /\ TailMatches(c)
      /\ Pending(c) = Pending(b) \cup {b.tail}
  BY <1>0, <1>3, <1>4, ScheduleLemma
<1> HIDE DEF base, c
<1>6. \A s \in Slots : c.events[s] = IF s = b.tail THEN e ELSE b.events[s]
  BY <1>0, <1>5
<1>7. /\ e.exec_time <= e.promised /\ e.arg = a /\ e.callback \in {"command", "incantation"}
  BY <1>0, <1>2 DEF e
<1>8. \A s \in Slots \ Pending(c) : c.events[s].exec_time <= t
  BY <1>5, <1>6 DEF Good
<1>9. \A s \in Pending(c) : c.events[s].exec_time <= c.events[s].promised
  BY <1>5, <1>6, <1>7 DEF Good, Pending, Arc
<1>10. \A s \in Slots : c.events[s].arg # Null =>
          /\ c.events[s].arg \in m
          /\ \A u \in Slots \ {s} : c.events[u].arg # c.events[s].arg
  BY <1>6, <1>7 DEF Good
<1>11. \A s \in Pending(c) : c.events[s].callback = "real_incantation" =>
          c.events[s].arg \in m /\ s = c.head
  BY <1>5, <1>6, <1>7 DEF Good, Pending, Arc
<1>12. m \subseteq Args
  BY DEF Good
<1> QED
  BY <1>0, <1>5, <1>8, <1>9, <1>10, <1>11, <1>12 DEF Good, c, ev

\* The head is executed and its callback leaves the buffer alone.
LEMMA PopGood ==
  ASSUME NEW b, NEW t, NEW l, Good(b, t, l), HeadIsDue(b, t)
  PROVE  Good(ReleaseArg(Pop(b), Pop(b), b.head), t,
              l \ ArgToFree(Pop(b), Pop(b), b.head))
<1> DEFINE p == Pop(b)
<1> DEFINE c == ReleaseArg(p, p, b.head)
<1> DEFINE m == l \ ArgToFree(p, p, b.head)
<1>0. /\ t \in Nat /\ b \in Buffers(Events) /\ TailMatches(b)
      /\ b.head \in Slots /\ b.tail \in Slots /\ b.count \in 0 .. MAX_EVENTS
      /\ b.events \in [Slots -> Events] /\ b.count > 0
      /\ b.events[b.head].exec_time <= t
  BY DEF Good, Buffers, HeadIsDue
<1>1. /\ p \in Buffers(Events)
      /\ p.events = b.events
      /\ TailMatches(p)
      /\ b.head \in Pending(b)
      /\ Pending(p) = Pending(b) \ {b.head}
  BY <1>0, PopLemma
<1> HIDE DEF p
<1>2. /\ c = [p EXCEPT !.events[b.head].arg = Null]
      /\ m = l \ ({b.events[b.head].arg} \ {Null})
  BY <1>1 DEF ReleaseArg, ArgToFree
<1> HIDE DEF c, m
<1>3. /\ c \in Buffers(Events) /\ c.head = p.head /\ c.count = p.count /\ c.tail = p.tail
      /\ \A s \in Slots : /\ c.events[s].arg = IF s = b.head THEN Null ELSE b.events[s].arg
                          /\ c.events[s].exec_time = b.events[s].exec_time
                          /\ c.events[s].callback = b.events[s].callback
                          /\ c.events[s].promised = b.events[s].promised
  BY <1>0, <1>1, <1>2, SMTT(30) DEF Buffers, Events
<1>4. TailMatches(c) /\ Pending(c) = Pending(b) \ {b.head} /\ Pending(b) \subseteq Slots
  BY <1>1, <1>3 DEF TailMatches, Pending, Arc
<1>5. \A s \in Slots \ Pending(c) : c.events[s].exec_time <= t
  BY <1>0, <1>3, <1>4 DEF Good
<1>6. \A s \in Pending(c) : c.events[s].exec_time <= c.events[s].promised
  BY <1>3, <1>4 DEF Good
<1>7. \A s \in Slots : c.events[s].arg # Null =>
          /\ c.events[s].arg \in m
          /\ \A u \in Slots \ {s} : c.events[u].arg # c.events[s].arg
  BY <1>0, <1>2, <1>3 DEF Good
<1>8. \A s \in Pending(c) : c.events[s].callback # "real_incantation"
  BY <1>3, <1>4 DEF Good
<1>9. m \subseteq Args
  BY <1>2 DEF Good
<1> QED
  BY <1>0, <1>3, <1>4, <1>5, <1>6, <1>7, <1>8, <1>9 DEF Good, c, m, p

(***************************************************************************)
(* The head is an incantation and it starts: the second half takes the     *)
(* slot of the first, and because the head moved its argument is kept.     *)
(***************************************************************************)
LEMMA ContinueGood ==
  ASSUME NEW b, NEW t, NEW l, Good(b, t, l), HeadIsDue(b, t),
         b.events[b.head].callback = "incantation",
         NEW a \in Args \ l
  PROVE  LET ev == Event("real_incantation", a, t + IncantationTime)
             f  == ScheduleFront(Pop(b), t, IncantationTime, ev)
         IN  Good(ReleaseArg(Pop(b), f, b.head), t,
                  (l \cup {a}) \ ArgToFree(Pop(b), f, b.head))
<1> DEFINE p == Pop(b)
<1> DEFINE ev == Event("real_incantation", a, t + IncantationTime)
<1> DEFINE f == ScheduleFront(p, t, IncantationTime, ev)
<1> DEFINE e == [exec_time |-> t + IncantationTime, callback |-> "real_incantation",
                 arg |-> a, promised |-> t + IncantationTime]
<1>0. /\ t \in Nat /\ b \in Buffers(Events) /\ TailMatches(b)
      /\ b.head \in Slots /\ b.tail \in Slots /\ b.count \in 0 .. MAX_EVENTS
      /\ b.events \in [Slots -> Events] /\ b.count > 0
  BY DEF Good, Buffers, HeadIsDue
<1>1. /\ p \in Buffers(Events)
      /\ p.events = b.events
      /\ p.head = NextSlot(b.head)
      /\ p.count < MAX_EVENTS
      /\ TailMatches(p)
      /\ b.head \in Pending(b)
      /\ Pending(p) = Pending(b) \ {b.head}
      /\ PrevSlot(p.head) = b.head
  BY <1>0, PopLemma
<1>2. e \in Events
  BY <1>0, TimeApiAssumption DEF Events, Callbacks
<1>3. e = At(ev, t + IncantationTime)
  BY DEF At, Event
<1> HIDE DEF p, e, ev
<1>4. /\ f \in Buffers(Events)
      /\ f.events = [b.events EXCEPT ![b.head] = e]
      /\ f.head = b.head
      /\ TailMatches(f)
      /\ Pending(f) = (Pending(b) \ {b.head}) \cup {b.head}
  BY <1>1, <1>2, <1>3, ScheduleFrontLemma
<1>5. Pending(f) = Pending(b)
  BY <1>1, <1>4
<1> HIDE DEF f
<1>6. p.head # f.head
  <2>1. \A i \in Slots : (IF i + 1 = MAX_EVENTS THEN 0 ELSE i + 1) # i
    BY TimeApiAssumption, MaxEventsAssumption DEF Slots
  <2>2. NextSlot(b.head) # b.head
    BY <1>0, <2>1, Steps
  <2> QED
    BY <1>1, <1>4, <2>2
<1>7. ReleaseArg(p, f, b.head) = f /\ ArgToFree(p, f, b.head) = {}
  BY <1>6 DEF ReleaseArg, ArgToFree
<1>8. /\ \A s \in Slots : f.events[s] = IF s = b.head THEN e ELSE b.events[s]
      /\ Pending(b) \subseteq Slots
  BY <1>0, <1>4 DEF Pending, Arc
<1>9. e.exec_time <= e.promised /\ e.arg = a
  BY <1>0, TimeApiAssumption DEF e
<1>10. \A s \in Slots \ Pending(f) : f.events[s].exec_time <= t
  BY <1>1, <1>5, <1>8 DEF Good
<1>11. \A s \in Pending(f) : f.events[s].exec_time <= f.events[s].promised
  BY <1>5, <1>8, <1>9 DEF Good
<1>12. \A s \in Slots : f.events[s].arg # Null =>
          /\ f.events[s].arg \in l \cup {a}
          /\ \A u \in Slots \ {s} : f.events[u].arg # f.events[s].arg
  BY <1>8, <1>9 DEF Good
<1>13. \A s \in Pending(f) : f.events[s].callback = "real_incantation" =>
          f.events[s].arg \in l \cup {a} /\ s = f.head
  BY <1>4, <1>5, <1>8, <1>9 DEF Good
<1>14. l \cup {a} \subseteq Args
  BY DEF Good
<1>15. Good(f, t, l \cup {a})
  BY <1>0, <1>4, <1>10, <1>11, <1>12, <1>13, <1>14 DEF Good
<1> QED
  BY <1>7, <1>15 DEF f, p, ev

LEMMA InitIndInv == Init => IndInv
BY EmptyIsGood, GoodIsIndInv DEF Init

\* Every action preserves the invariant.
LEMMA NextIndInv == IndInv /\ [Next]_vars => IndInv'
<1> SUFFICES ASSUME Good(buf, now, live), [Next]_vars
             PROVE  Good(buf', now', live')
  <2>1. IndInv' <=> Good(buf', now', live')
    BY DEF IndInv, TypeOK, RingInv, FreeSlotsArePast, NeverLate, ArgOwnership,
           RealIncantationReady, Good, Slots, Pending, Arc, TailMatches, ArcEnd, Buffers,
           Events, Callbacks
  <2> QED
    BY <2>1, GoodIsIndInv
<1>0. now \in Nat /\ live \subseteq Args /\ buf.count \in 0 .. MAX_EVENTS
  BY DEF Good, Buffers
<1>1. CASE time_api_update
  <2>1. now' \in Nat /\ now <= now' /\ buf' = buf /\ live' = live
    BY <1>0, <1>1, TimeApiAssumption DEF time_api_update
  <2> QED
    BY <2>1, UpdateGood
<1>2. CASE ScheduleSome
  <2>1. PICK cb \in {"command", "incantation"}, delay \in Delays, a \in Args \cup {Null} :
           time_api_schedule_client_event(cb, delay, a)
    BY <1>2 DEF ScheduleSome
  <2>2. delay \in Nat /\ a \in (Args \ live) \cup {Null} /\ now' = now
        /\ buf' = Schedule(buf, now, delay, Event(cb, a, now + delay))
        /\ live' = live \cup ({a} \ {Null})
    BY <2>1, TimeApiAssumption DEF time_api_schedule_client_event
  <2>3. CASE buf.count < MAX_EVENTS
    BY <2>2, <2>3, ScheduleGood
  <2>4. CASE ~(buf.count < MAX_EVENTS)
    <3>1. buf' = buf
      BY <1>0, <2>2, <2>4, MaxEventsAssumption DEF Schedule
    <3>2. live \subseteq live' /\ live' \subseteq Args
      BY <1>0, <2>2
    <3> QED
      BY <2>2, <3>1, <3>2 DEF Good
  <2> QED
    BY <2>3, <2>4
<1>3. CASE time_api_process_client_events
  <2>1. PICK r \in CallbackResults(buf.events[buf.head], Pop(buf)) :
          /\ buf' = ReleaseArg(Pop(buf), r.buffer, buf.head)
          /\ live' = (live \cup r.allocated) \ ArgToFree(Pop(buf), r.buffer, buf.head)
    BY <1>3 DEF time_api_process_client_events
  <2>2. HeadIsDue(buf, now) /\ now' = now
    BY <1>3 DEF time_api_process_client_events
  <2>3. CASE r = [buffer |-> Pop(buf), allocated |-> {}]
    <3>1. /\ buf' = ReleaseArg(Pop(buf), Pop(buf), buf.head)
          /\ live' = live \ ArgToFree(Pop(buf), Pop(buf), buf.head)
      BY <2>1, <2>3
    <3> QED
      BY <2>2, <3>1, PopGood
  <2>4. ASSUME NEW a \in Args \ live, buf.events[buf.head].callback = "incantation",
               r = [buffer    |-> ScheduleFront(Pop(buf), now, IncantationTime,
                                     Event("real_incantation", a, now + IncantationTime)),
                    allocated |-> {a}]
        PROVE  Good(buf', now', live')
    BY <2>1, <2>2, <2>4, ContinueGood
  <2> QED
    BY <2>1, <2>3, <2>4 DEF CallbackResults
<1>4. CASE game_player_die
  BY <1>0, <1>4, EmptyIsGood DEF game_player_die
<1>5. CASE UNCHANGED vars
  BY <1>5 DEF vars
<1> QED
  BY <1>1, <1>2, <1>3, <1>4, <1>5 DEF Next

(***************************************************************************)
(* The buffer, its clock and its heap keep their types, whatever sequence  *)
(* of updates, commands, executions and deaths the main loop goes through. *)
(***************************************************************************)
THEOREM TypeCorrect == Spec => []TypeOK
<1>1. IndInv => TypeOK
  BY DEF IndInv
<1> QED
  BY <1>1, InitIndInv, NextIndInv, PTL DEF Spec

(***************************************************************************)
(* The ring of time_api.c stays consistent for every MAX_EVENTS > 1.       *)
(***************************************************************************)
THEOREM RingCorrect == Spec => []RingInv
<1>1. IndInv => RingInv
  BY DEF IndInv
<1> QED
  BY <1>1, InitIndInv, NextIndInv, PTL DEF Spec

(***************************************************************************)
(* time_api_schedule_client_event never makes an event wait longer than    *)
(* the delay its caller asked for, counted from the call.                  *)
(***************************************************************************)
THEOREM NeverLateCorrect == Spec => []NeverLate
<1>1. IndInv => NeverLate
  BY DEF IndInv
<1> QED
  BY <1>1, InitIndInv, NextIndInv, PTL DEF Spec

(***************************************************************************)
(* No argument string is freed twice or used after it was freed, by        *)
(* time_api_process_client_events or by game_player_die.                   *)
(***************************************************************************)
THEOREM ArgOwnershipCorrect == Spec => []ArgOwnership
<1>1. IndInv => ArgOwnership
  BY DEF IndInv
<1> QED
  BY <1>1, InitIndInv, NextIndInv, PTL DEF Spec

(***************************************************************************)
(* m_command_real_incantation is always the next event and its argument is *)
(* still allocated when it runs.                                           *)
(***************************************************************************)
THEOREM RealIncantationCorrect == Spec => []RealIncantationReady
<1>1. IndInv => RealIncantationReady
  BY DEF IndInv
<1> QED
  BY <1>1, InitIndInv, NextIndInv, PTL DEF Spec

----------------------------------------------------------------------------
(* The refinement of the bounded deque. *)

\* The i-th pending slot, seen from the next one on, and that it is pending.
LEMMA SlotFacts ==
  ASSUME NEW h \in Slots, NEW n \in 0 .. MAX_EVENTS
  PROVE  /\ \A i \in 1 .. n : ArcEnd(h, i - 1) \in Arc(h, n)
         /\ n > 0 => \A i \in 1 .. n - 1 : ArcEnd(NextSlot(h), i - 1) = ArcEnd(h, (i + 1) - 1)
         /\ ArcEnd(h, 0) = h
         /\ \A i \in 2 .. n : ArcEnd(h, i - 1) # h
<1>1. \A k \in 0 .. MAX_EVENTS :
        ArcEnd(h, k) = IF h + k < MAX_EVENTS THEN h + k ELSE h + k - MAX_EVENTS
  BY Wrap
<1>2. ASSUME NEW i \in 1 .. n
      PROVE  ArcEnd(h, i - 1) \in Arc(h, n)
  <2> DEFINE k == i - 1
  <2>1. k \in 0 .. MAX_EVENTS /\ k < n
    BY MaxEventsAssumption
  <2> HIDE DEF k
  <2>2. ArcEnd(h, k) \in Arc(h, n)
    BY <1>1, <2>1, MaxEventsAssumption DEF Arc, Slots
  <2> QED
    BY <2>2 DEF k
<1>3. ASSUME n > 0, NEW i \in 1 .. n - 1
      PROVE  ArcEnd(NextSlot(h), i - 1) = ArcEnd(h, (i + 1) - 1)
  <2> DEFINE j == (i + 1) - 1
  <2>1. j \in 0 .. MAX_EVENTS /\ j > 0 /\ j - 1 = i - 1
    BY MaxEventsAssumption
  <2>2. ArcEnd(NextSlot(h), j - 1) = ArcEnd(h, j)
    BY <2>1, ArcTail
  <2> QED
    BY <2>1, <2>2
<1>4. ArcEnd(h, 0) = h
  BY <1>1, MaxEventsAssumption DEF Slots
<1>5. ASSUME NEW i \in 2 .. n
      PROVE  ArcEnd(h, i - 1) # h
  <2> DEFINE k == i - 1
  <2>1. k \in 0 .. MAX_EVENTS /\ k < MAX_EVENTS /\ k > 0
    BY MaxEventsAssumption
  <2> HIDE DEF k
  <2>2. ArcEnd(h, k) # h
    BY <1>1, <2>1, MaxEventsAssumption DEF Slots
  <2> QED
    BY <2>2 DEF k
<1> QED
  BY <1>2, <1>3, <1>4, <1>5

AllItems == [callback : Callbacks, arg : Args \cup {Null}]

LEMMA PendingItemsIsSeq ==
  ASSUME NEW b \in Buffers(Events)
  PROVE  /\ PendingItems(b) \in Seq(AllItems)
         /\ Len(PendingItems(b)) = b.count
         /\ \A i \in 1 .. b.count : PendingItems(b)[i] = Item(b.events[SlotAt(b, i)])
<1>1. b.head \in Slots /\ b.count \in Nat /\ b.count \in 0 .. MAX_EVENTS
      /\ b.events \in [Slots -> Events]
  BY MaxEventsAssumption DEF Buffers
<1>2. \A i \in 1 .. b.count : SlotAt(b, i) \in Slots
  BY <1>1, SlotFacts DEF SlotAt, Arc
<1>3. \A e \in Events : Item(e) \in AllItems
  BY DEF Events, Item, AllItems
<1>4. \A i \in 1 .. b.count : Item(b.events[SlotAt(b, i)]) \in AllItems
  BY <1>1, <1>2, <1>3
<1>5. PendingItems(b) \in Seq(AllItems)
  BY <1>1, <1>4, IsASeq DEF PendingItems
<1> QED
  BY <1>1, <1>5, LenProperties DEF PendingItems

\* An accepted command goes to the end of the queue.
LEMMA ScheduleAppends ==
  ASSUME NEW b \in Buffers(Events), NEW c \in Buffers(Events), NEW e \in Events,
         TailMatches(b), b.count < MAX_EVENTS,
         c.events = [b.events EXCEPT ![b.tail] = e], c.head = b.head, c.count = b.count + 1,
         b.tail \in Slots \ Pending(b)
  PROVE  PendingItems(c) = Append(PendingItems(b), Item(e))
<1>1. b.head \in Slots /\ b.count \in Nat /\ b.count \in 0 .. MAX_EVENTS
      /\ b.events \in [Slots -> Events]
  BY MaxEventsAssumption DEF Buffers
<1>2. Item(e) \in AllItems
  BY DEF Events, Item, AllItems
<1>3. ASSUME NEW i \in 1 .. b.count
      PROVE  PendingItems(c)[i] = PendingItems(b)[i]
  <2>1. SlotAt(b, i) \in Pending(b) /\ SlotAt(c, i) = SlotAt(b, i)
    BY <1>1, SlotFacts DEF SlotAt, Pending
  <2>2. SlotAt(b, i) \in Slots /\ SlotAt(b, i) # b.tail
    BY <2>1 DEF Pending, Arc
  <2>3. c.events[SlotAt(b, i)] = b.events[SlotAt(b, i)]
    BY <1>1, <2>2
  <2>4. i \in 1 .. c.count
    BY <1>1
  <2>5. PendingItems(c)[i] = Item(c.events[SlotAt(c, i)])
    BY <2>4, PendingItemsIsSeq
  <2>6. PendingItems(b)[i] = Item(b.events[SlotAt(b, i)])
    BY PendingItemsIsSeq
  <2> QED
    BY <2>1, <2>3, <2>5, <2>6
<1>4. PendingItems(c)[b.count + 1] = Item(e)
  <2>1. SlotAt(c, b.count + 1) = b.tail
    <3>1. (b.count + 1) - 1 = b.count
      BY <1>1
    <3> QED
      BY <3>1 DEF SlotAt, TailMatches
  <2>2. c.events[b.tail] = e
    BY <1>1
  <2>3. b.count + 1 \in 1 .. c.count
    BY <1>1
  <2>4. PendingItems(c)[b.count + 1] = Item(c.events[SlotAt(c, b.count + 1)])
    BY <2>3, PendingItemsIsSeq
  <2> QED
    BY <2>1, <2>2, <2>4
<1>5. /\ PendingItems(b) \in Seq(AllItems) /\ PendingItems(c) \in Seq(AllItems)
      /\ Len(PendingItems(b)) = b.count /\ Len(PendingItems(c)) = b.count + 1
  BY PendingItemsIsSeq
<1> DEFINE s == PendingItems(b)
<1> DEFINE u == Append(s, Item(e))
<1>6. /\ u \in Seq(AllItems) /\ Len(u) = b.count + 1
      /\ \A i \in 1 .. b.count : u[i] = s[i]
      /\ u[b.count + 1] = Item(e)
  BY <1>2, <1>5, AppendProperties
<1> HIDE DEF u
<1>7. \A i \in 1 .. b.count + 1 : PendingItems(c)[i] = u[i]
  <2> SUFFICES ASSUME NEW i \in 1 .. b.count + 1 PROVE PendingItems(c)[i] = u[i]
    OBVIOUS
  <2>1. CASE i = b.count + 1
    BY <1>4, <1>6, <2>1
  <2>2. CASE i \in 1 .. b.count
    BY <1>3, <1>6, <2>2
  <2> QED
    BY <1>1, <2>1, <2>2
<1>8. PendingItems(c) = u
  BY <1>5, <1>6, <1>7, SeqEqual
<1> QED
  BY <1>8 DEF u

(***************************************************************************)
(* Executing the head takes the first item; slots other than the head keep *)
(* what matters of their event.                                            *)
(***************************************************************************)
LEMMA PopTakesFirst ==
  ASSUME NEW b \in Buffers(Events), NEW c \in Buffers(Events), b.count > 0,
         c.head = NextSlot(b.head), c.count = b.count - 1,
         \A s \in Slots \ {b.head} : Item(c.events[s]) = Item(b.events[s])
  PROVE  PendingItems(c) = Tail(PendingItems(b))
<1>1. b.head \in Slots /\ b.count \in Nat /\ b.count \in 0 .. MAX_EVENTS
  BY MaxEventsAssumption DEF Buffers
<1>2. /\ PendingItems(b) \in Seq(AllItems) /\ PendingItems(c) \in Seq(AllItems)
      /\ Len(PendingItems(b)) = b.count /\ Len(PendingItems(c)) = b.count - 1
  BY PendingItemsIsSeq
<1>3. PendingItems(b) # <<>>
  BY <1>1, <1>2, EmptySeq, LenProperties
<1> DEFINE u == Tail(PendingItems(b))
<1>4. /\ u \in Seq(AllItems) /\ Len(u) = b.count - 1
      /\ \A i \in 1 .. b.count - 1 : u[i] = PendingItems(b)[i + 1]
  BY <1>2, <1>3, HeadTailProperties
<1> HIDE DEF u
<1>5. ASSUME NEW i \in 1 .. b.count - 1
      PROVE  PendingItems(c)[i] = PendingItems(b)[i + 1]
  <2>1. SlotAt(c, i) = SlotAt(b, i + 1)
    BY <1>1, SlotFacts DEF SlotAt
  <2>2. i + 1 \in 2 .. b.count /\ i + 1 \in 1 .. b.count /\ i \in 1 .. c.count
    BY <1>1
  <2>3. SlotAt(b, i + 1) \in Slots \ {b.head}
    BY <1>1, <2>2, SlotFacts DEF SlotAt, Arc
  <2> QED
    BY <2>1, <2>2, <2>3, PendingItemsIsSeq
<1>6. PendingItems(c) = u
  BY <1>2, <1>4, <1>5, SeqEqual
<1> QED
  BY <1>6 DEF u

\* A started incantation leaves its second half in front of the rest of the queue.
LEMMA ContinuePrepends ==
  ASSUME NEW b \in Buffers(Events), NEW c \in Buffers(Events), NEW e \in Events, b.count > 0,
         c.events = [b.events EXCEPT ![b.head] = e], c.head = b.head, c.count = b.count
  PROVE  PendingItems(c) = <<Item(e)>> \o Tail(PendingItems(b))
<1>1. b.head \in Slots /\ b.count \in Nat /\ b.count \in 0 .. MAX_EVENTS
      /\ b.events \in [Slots -> Events]
  BY MaxEventsAssumption DEF Buffers
<1>2. Item(e) \in AllItems
  BY DEF Events, Item, AllItems
<1>3. /\ PendingItems(b) \in Seq(AllItems) /\ PendingItems(c) \in Seq(AllItems)
      /\ Len(PendingItems(b)) = b.count /\ Len(PendingItems(c)) = b.count
  BY PendingItemsIsSeq
<1>4. PendingItems(b) # <<>>
  BY <1>1, <1>3, EmptySeq, LenProperties
<1> DEFINE v == Tail(PendingItems(b))
<1>5. /\ v \in Seq(AllItems) /\ Len(v) = b.count - 1
      /\ \A i \in 1 .. b.count - 1 : v[i] = PendingItems(b)[i + 1]
  BY <1>3, <1>4, HeadTailProperties
<1> HIDE DEF v
<1> DEFINE w == <<Item(e)>>
<1>6. w \in Seq(AllItems) /\ Len(w) = 1 /\ w[1] = Item(e)
  BY <1>2
<1> HIDE DEF w
<1> DEFINE u == w \o v
<1>7. /\ u \in Seq(AllItems) /\ Len(u) = b.count
      /\ \A i \in 1 .. b.count : u[i] = IF i <= 1 THEN w[i] ELSE v[i - 1]
  <2>1. Len(w) + Len(v) = b.count
    BY <1>1, <1>5, <1>6
  <2>2. /\ u \in Seq(AllItems) /\ Len(u) = Len(w) + Len(v)
        /\ \A i \in 1 .. Len(w) + Len(v) :
              u[i] = IF i <= Len(w) THEN w[i] ELSE v[i - Len(w)]
    <3>1. w \in Seq(AllItems) /\ v \in Seq(AllItems)
      BY <1>5, <1>6
    <3> QED
      BY ONLY <3>1, ConcatProperties
  <2> QED
    BY <1>6, <2>1, <2>2
<1> HIDE DEF u
<1>8. PendingItems(c)[1] = u[1]
  <2>1. 1 \in 1 .. b.count /\ 1 \in 1 .. c.count /\ 1 - 1 = 0
    BY <1>1
  <2>2. SlotAt(c, 1) = b.head
    BY <1>1, <2>1, SlotFacts DEF SlotAt
  <2>3. c.events[b.head] = e
    BY <1>1
  <2>4. PendingItems(c)[1] = Item(c.events[SlotAt(c, 1)])
    BY <2>1, PendingItemsIsSeq
  <2> QED
    BY <1>6, <1>7, <2>1, <2>2, <2>3, <2>4
<1>9. ASSUME NEW i \in 2 .. b.count
      PROVE  PendingItems(c)[i] = u[i]
  <2>1. i \in 1 .. b.count /\ i \in 1 .. c.count
    BY <1>1
  <2>2. SlotAt(b, i) \in Slots \ {b.head} /\ SlotAt(c, i) = SlotAt(b, i)
    BY <1>1, <2>1, SlotFacts DEF SlotAt, Arc
  <2>3. c.events[SlotAt(b, i)] = b.events[SlotAt(b, i)]
    BY <1>1, <2>2
  <2>4. PendingItems(c)[i] = Item(c.events[SlotAt(c, i)])
    BY <2>1, PendingItemsIsSeq
  <2>5. PendingItems(b)[i] = Item(b.events[SlotAt(b, i)])
    BY <2>1, PendingItemsIsSeq
  <2>6. PendingItems(c)[i] = PendingItems(b)[i]
    BY <2>2, <2>3, <2>4, <2>5
  <2>7. i - 1 \in 1 .. b.count - 1 /\ (i - 1) + 1 = i /\ ~(i <= 1)
    BY <1>1
  <2>8. u[i] = v[i - 1] /\ v[i - 1] = PendingItems(b)[i]
    BY <1>5, <1>7, <2>1, <2>7
  <2> QED
    BY <2>6, <2>8
<1>10. \A i \in 1 .. b.count : PendingItems(c)[i] = u[i]
  <2>1. \A i \in 1 .. b.count : i = 1 \/ i \in 2 .. b.count
    BY <1>1
  <2> QED
    BY <1>8, <1>9, <2>1
<1>11. PendingItems(c) = u
  BY <1>3, <1>7, <1>10, SeqEqual
<1> QED
  BY <1>11 DEF u, v, w

\* A buffer that holds nothing is the empty queue.
LEMMA EmptyIsEmptyQueue == PendingItems(EmptyBuffer(ZeroEvent)) = <<>>
<1>1. EmptyBuffer(ZeroEvent).count = 0
  BY DEF EmptyBuffer
<1> QED
  BY <1>1 DEF PendingItems

(***************************************************************************)
(* Every step of the buffer is a step of the bounded deque, or leaves the  *)
(* queue as it is.                                                         *)
(***************************************************************************)
LEMMA StepRefines ==
  ASSUME IndInv, [Next]_vars
  PROVE  [Deque!Next]_(PendingItems(buf))
<1> DEFINE q == PendingItems(buf)
<1>0. /\ Good(buf, now, live) /\ now \in Nat /\ buf \in Buffers(Events) /\ TailMatches(buf)
      /\ buf.head \in Slots /\ buf.tail \in Slots /\ buf.count \in 0 .. MAX_EVENTS
      /\ buf.events \in [Slots -> Events]
  BY GoodIsIndInv DEF Good, Buffers
<1>1. /\ q \in Seq(AllItems) /\ Len(q) = buf.count
      /\ buf.count > 0 => q # <<>>
  BY <1>0, PendingItemsIsSeq, EmptySeq, LenProperties
<1>2. CASE time_api_update
  BY <1>2 DEF time_api_update
<1>3. CASE ScheduleSome
  <2>1. PICK cb \in {"command", "incantation"}, delay \in Delays, a \in Args \cup {Null} :
           time_api_schedule_client_event(cb, delay, a)
    BY <1>3 DEF ScheduleSome
  <2> DEFINE ev == Event(cb, a, now + delay)
  <2> DEFINE base == IF buf.count > 0 THEN buf.events[buf.tail].exec_time ELSE now
  <2> DEFINE e == [exec_time |-> base + delay, callback |-> cb, arg |-> a,
                   promised |-> now + delay]
  <2>2. delay \in Nat /\ buf' = Schedule(buf, now, delay, ev)
    BY <2>1, TimeApiAssumption DEF time_api_schedule_client_event
  <2>3. CASE buf.count < MAX_EVENTS
    <3>1. base \in Nat
      BY <1>0 DEF Events
    <3>2. e \in Events
      BY <1>0, <2>2, <3>1 DEF Events, Callbacks
    <3>3. e = At(ev, base + delay)
      BY DEF At, Event
    <3>4. Item(e) \in Items
      BY DEF Item, Items, Callbacks
    <3> HIDE DEF e, ev
    <3>5. /\ buf' \in Buffers(Events)
          /\ buf'.events = [buf.events EXCEPT ![buf.tail] = e]
          /\ buf'.head = buf.head
          /\ buf'.count = buf.count + 1
          /\ buf.tail \in Slots \ Pending(buf)
      BY <1>0, <2>2, <2>3, <3>2, <3>3, ScheduleLemma
    <3>6. PendingItems(buf') = Append(q, Item(e))
      BY <1>0, <2>3, <3>2, <3>5, ScheduleAppends
    <3>7. Deque!Submit(Item(e))
      BY <1>1, <2>3, <3>6 DEF Deque!Submit
    <3> QED
      BY <3>4, <3>7 DEF Deque!Next
  <2>4. CASE ~(buf.count < MAX_EVENTS)
    <3>1. buf' = buf
      BY <1>0, <2>2, <2>4, MaxEventsAssumption DEF Schedule
    <3> QED
      BY <3>1
  <2> QED
    BY <2>3, <2>4
<1>4. CASE time_api_process_client_events
  <2> DEFINE p == Pop(buf)
  <2>1. PICK r \in CallbackResults(buf.events[buf.head], p) :
          buf' = ReleaseArg(p, r.buffer, buf.head)
    BY <1>4 DEF time_api_process_client_events
  <2>2. buf.count > 0
    BY <1>4 DEF time_api_process_client_events, HeadIsDue
  <2>3. /\ p \in Buffers(Events)
        /\ p.events = buf.events
        /\ p.head = NextSlot(buf.head)
        /\ p.count = buf.count - 1
        /\ p.count < MAX_EVENTS
        /\ TailMatches(p)
        /\ PrevSlot(p.head) = buf.head
    BY <1>0, <2>2, PopLemma
  <2>4. CASE r = [buffer |-> p, allocated |-> {}]
    <3> HIDE DEF p
    <3>1. buf' = [p EXCEPT !.events[buf.head].arg = Null]
      BY <2>1, <2>4 DEF ReleaseArg
    <3>2. /\ buf' \in Buffers(Events) /\ buf'.head = p.head /\ buf'.count = p.count
          /\ \A s \in Slots \ {buf.head} : buf'.events[s] = buf.events[s]
      BY <1>0, <2>3, <3>1 DEF Buffers, Events
    <3>3. PendingItems(buf') = Tail(q)
      BY <1>0, <2>2, <2>3, <3>2, PopTakesFirst
    <3>4. Deque!Run
      BY <1>1, <2>2, <3>3 DEF Deque!Run
    <3> QED
      BY <3>4 DEF Deque!Next
  <2>5. ASSUME NEW a \in Args \ live,
               r = [buffer    |-> ScheduleFront(p, now, IncantationTime,
                                     Event("real_incantation", a, now + IncantationTime)),
                    allocated |-> {a}]
        PROVE  Deque!Next
    <3> DEFINE ev == Event("real_incantation", a, now + IncantationTime)
    <3> DEFINE f == ScheduleFront(p, now, IncantationTime, ev)
    <3> DEFINE e == [exec_time |-> now + IncantationTime, callback |-> "real_incantation",
                     arg |-> a, promised |-> now + IncantationTime]
    <3>1. e \in Events /\ Item(e) \in Items
      BY <1>0, TimeApiAssumption DEF Events, Callbacks, Item, Items
    <3>2. e = At(ev, now + IncantationTime)
      BY DEF At, Event
    <3>3. buf' = ReleaseArg(p, f, buf.head)
      BY <2>1, <2>5
    <3> HIDE DEF e, ev, p
    <3>4. /\ f \in Buffers(Events)
          /\ f.events = [buf.events EXCEPT ![buf.head] = e]
          /\ f.head = buf.head
          /\ f.count = p.count + 1
      BY <2>3, <3>1, <3>2, ScheduleFrontLemma
    <3>5. f.count = buf.count
      BY <1>0, <2>3, <3>4
    <3>6. p.head # f.head
      <4>1. \A i \in Slots : (IF i + 1 = MAX_EVENTS THEN 0 ELSE i + 1) # i
        BY TimeApiAssumption, MaxEventsAssumption DEF Slots
      <4>2. NextSlot(buf.head) # buf.head
        BY <1>0, <4>1, Steps
      <4> QED
        BY <2>3, <3>4, <4>2
    <3> HIDE DEF f
    <3>7. buf' = f
      BY <3>3, <3>6 DEF ReleaseArg
    <3>8. PendingItems(buf') = <<Item(e)>> \o Tail(q)
      BY <1>0, <2>2, <3>1, <3>4, <3>5, <3>7, ContinuePrepends
    <3>9. Deque!RunAndContinue(Item(e))
      BY <1>1, <2>2, <3>8 DEF Deque!RunAndContinue
    <3> QED
      BY <3>1, <3>9 DEF Deque!Next
  <2> QED
    BY <2>1, <2>4, <2>5 DEF CallbackResults
<1>5. CASE game_player_die
  <2>1. PendingItems(buf') = <<>>
    BY <1>5, EmptyIsEmptyQueue DEF game_player_die
  <2> QED
    BY <2>1 DEF Deque!Next, Deque!Drop
<1>6. CASE UNCHANGED vars
  BY <1>6 DEF vars
<1> QED
  BY <1>2, <1>3, <1>4, <1>5, <1>6 DEF Next

(***************************************************************************)
(* The ring of time_api.c implements the bounded deque: commands run in    *)
(* the order of their acceptance, none is lost or duplicated once it was   *)
(* accepted, and only a started incantation goes ahead.                    *)
(***************************************************************************)
THEOREM DequeRefinement == Spec => RefinesDeque
<1>1. Init => Deque!Init
  BY EmptyIsEmptyQueue DEF Init, Deque!Init
<1>2. IndInv /\ [Next]_vars => [Deque!Next]_(PendingItems(buf))
  BY StepRefines
<1> QED
  BY <1>1, <1>2, InitIndInv, NextIndInv, PTL DEF Spec, RefinesDeque, Deque!Spec

=============================================================================
