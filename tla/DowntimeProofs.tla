---------------------------- MODULE DowntimeProofs ----------------------------
(* Proofs about Downtime, for any downtimes, any number of restarts and any    *)
(* times.                                                                      *)
EXTENDS Downtime, TLAPS, FiniteSetTheorems

\* The events of a listed downtime come when their time has come: what expires
\* is past its window, and what ends is in effect, and its time is over (or the
\* clock stops).  Events of what is gone may be left.
EventsInTime ==
    \A e \in queue :
        /\ e.id < next_downtime_id
        /\ e.id \in Live /\ e.kind = "expire" => downtime[e.id].end_time <= e.at
        /\ e.id \in Live /\ e.kind = "end" =>
               /\ downtime[e.id].is_in_effect
               /\ EndTime(downtime[e.id]) <= e.at \/ e.at = MaxTime

IInv == TypeOK /\ DepthAgrees /\ EventsStand /\ PendingCovers /\ EventsInTime

-----------------------------------------------------------------------------
\* What a recursion over triggered downtimes visits.

\* It is among those it may visit.
LEMMA VisitedAreAmong ==
    ASSUME NEW D, NEW among PROVE TriggeredFrom(D, among) \subseteq among
BY DEF TriggeredFrom

\* It visits what it begins with.
LEMMA BegunAreVisited ==
    ASSUME NEW D, NEW among PROVE D \cap among \subseteq TriggeredFrom(D, among)
BY DEF TriggeredFrom

\* It visits what those it visits trigger.
LEMMA TriggeredAreVisited ==
    ASSUME NEW D, NEW among, NEW e \in among,
           downtime[e].triggered_by \in TriggeredFrom(D, among)
    PROVE  e \in TriggeredFrom(D, among)
BY DEF TriggeredFrom

\* What nothing triggered it only visits at the beginning.
LEMMA UntriggeredAreBegun ==
    ASSUME NEW D, NEW among, among \subseteq Ids, NEW d \in TriggeredFrom(D, among),
           downtime[d].triggered_by = NoTrigger
    PROVE  d \in D
<1>1. SUFFICES ASSUME d \notin D PROVE FALSE
  OBVIOUS
<1>2. DEFINE S == among \ {d}
<1>3. D \cap among \subseteq S
  BY <1>1
<1>4. \A e \in among : downtime[e].triggered_by \in S => e \in S
  BY DEF NoTrigger, Ids
<1>5. d \in S
  BY <1>3, <1>4 DEF TriggeredFrom
<1> QED
  BY <1>5

-----------------------------------------------------------------------------
\* Entries, events and numbers.

\* A listed downtime is not taken for one that is gone.
LEMMA ListedIsNotGone == ASSUME NEW r \in Downtimes PROVE r # Gone
<1>1. "fixed" \in DOMAIN r
  BY DEF Downtimes
<1>2. "fixed" \notin DOMAIN Gone
  BY DEF Gone
<1> QED
  BY <1>1, <1>2

\* What the list holds by TypeOK.
LEMMA Entries ==
    ASSUME TypeOK, NEW d \in Live
    PROVE  /\ downtime[d] \in Downtimes /\ d \in Ids /\ d < next_downtime_id
           /\ downtime[d].triggered_by < d
BY DEF TypeOK, Live

\* An event is scheduled within the times of the clock, and not in the past.
LEMMA EventFacts ==
    ASSUME now \in Times, NEW kind \in {"start", "end", "expire"}, NEW d \in Ids, NEW at \in Int
    PROVE  /\ Event(kind, d, at) \in Events
           /\ Event(kind, d, at).kind = kind /\ Event(kind, d, at).id = d
           /\ at <= MaxTime => at <= Event(kind, d, at).at
           /\ at <= Event(kind, d, at).at \/ Event(kind, d, at).at = MaxTime
BY DowntimeConstants DEF Event, Events, Times

\* Some of the ids are finitely many.
LEMMA SomeIds ==
    ASSUME NEW S, S \subseteq Ids
    PROVE  IsFiniteSet(S) /\ Cardinality(S) \in Nat
<1>1. IsFiniteSet(Ids)
  BY DowntimeConstants, FS_Interval DEF Ids
<1> QED
  BY <1>1, FS_Subset, FS_CardinalityType

\* The size of a set of ids that others are taken from.
LEMMA Taken ==
    ASSUME NEW S, S \subseteq Ids, NEW T, T \subseteq S
    PROVE  Cardinality(S \ T) = Cardinality(S) - Cardinality(T) /\ Cardinality(T) <= Cardinality(S)
<1>1. IsFiniteSet(S) /\ IsFiniteSet(T) /\ IsFiniteSet(S \ T)
  BY SomeIds
<1>2. Cardinality(S \ T) = Cardinality(S) - Cardinality(S \cap T)
  BY <1>1, FS_Difference
<1>3. S \cap T = T
  OBVIOUS
<1>4. Cardinality(T) <= Cardinality(S)
  BY <1>1, FS_Subset
<1> QED
  BY <1>2, <1>3, <1>4

\* The size of a set of ids that others are added to.
LEMMA Joined ==
    ASSUME NEW S, S \subseteq Ids, NEW T, T \subseteq Ids, S \cap T = {}
    PROVE  Cardinality(S \cup T) = Cardinality(S) + Cardinality(T)
<1>1. IsFiniteSet(S) /\ IsFiniteSet(T)
  BY SomeIds
<1>2. Cardinality(S \cup T) = Cardinality(S) + Cardinality(T) - Cardinality(S \cap T)
  BY <1>1, FS_Union
<1>3. Cardinality(S \cap T) = 0
  BY FS_EmptySet
<1>4. Cardinality(S) \in Nat /\ Cardinality(T) \in Nat
  BY SomeIds
<1> QED
  BY <1>2, <1>3, <1>4

-----------------------------------------------------------------------------
\* Starting downtimes.

\* Two entries that are for the same downtime, and differ at most in what a
\* start event changes.
Alike(r, q) ==
    /\ r.object = q.object /\ r.fixed = q.fixed /\ r.end_time = q.end_time
    /\ r.duration = q.duration /\ r.triggered_by = q.triggered_by
    /\ r.incremented_pending_downtime = q.incremented_pending_downtime

\* The entry of what starts.
LEMMA StartedEntry ==
    ASSUME now \in Times, NEW r \in Downtimes, NEW S, NEW d \in S
    PROVE  /\ Started(d, S, r) \in Downtimes /\ Alike(Started(d, S, r), r)
           /\ Started(d, S, r).is_in_effect /\ Started(d, S, r).stop_event = "end"
           /\ Started(d, S, r).start_event = r.start_event
BY DEF Started, Downtimes, Alike

\* When a downtime is over is a number.
LEMMA EndTimes == ASSUME NEW r \in Downtimes PROVE EndTime(r) \in Int
BY DEF Downtimes, EndTime, Times, Unset

\* What a step that starts those of S may do to an entry before it does: change
\* the time of the start of what is going to start, and forget its start event.
EntryPrepared(r, d, S) ==
    /\ r \in Downtimes /\ Alike(r, downtime[d])
    /\ r.is_in_effect = downtime[d].is_in_effect
    /\ r.stop_event = downtime[d].stop_event
    /\ r.start_event => downtime[d].start_event
    /\ downtime[d].start_event => r.start_event \/ d \in S \cup InEffect
    /\ d \notin S => EndTime(r) = EndTime(downtime[d])

\* What it may do to the list, when it takes the events of run from the queue.
Prepares(before, run, S) ==
    /\ \A d \in Ids \ Live : before[d] = Gone
    /\ \A d \in Live : EntryPrepared(before[d], d, S)
    /\ \A e \in run : e.kind = "start" /\ (e.id \in Live => ~before[e.id].start_event)

\* Which downtimes are listed and in effect afterwards.
LEMMA StartingChanges ==
    ASSUME IInv, NEW D, NEW before, NEW run, NEW S, S = TriggeredFrom(D, Startable),
           Prepares(before, run, S), handle_scheduled_downtime_start(D, before, run)
    PROVE  /\ S \subseteq Startable /\ Live' = Live /\ InEffect' = InEffect \cup S
           /\ \A d \in Live : /\ downtime'[d] \in Downtimes /\ Alike(downtime'[d], downtime[d])
                              /\ downtime'[d].start_event = before[d].start_event
                              /\ d \in S => downtime'[d].stop_event = "end"
                              /\ d \notin S => downtime'[d] = before[d]
           /\ \A d \in Ids \ Live : downtime'[d] = Gone
           /\ downtime' = [d \in Ids |-> Started(d, S, before[d])]
<1>1. downtime' = [d \in Ids |-> Started(d, S, before[d])]
  BY DEF handle_scheduled_downtime_start
<1>2. S \subseteq Startable /\ Startable \subseteq Live /\ Live \subseteq Ids
  BY VisitedAreAmong DEF Startable, Live
<1>3. now \in Times
  BY DEF IInv, TypeOK
<1>4. \A d \in Ids \ Live : downtime'[d] = Gone
  BY <1>1, <1>2 DEF Started, Prepares, EntryPrepared
<1>5. \A d \in Live \ S : downtime'[d] = before[d]
  BY <1>1, <1>2 DEF Started
<1>6. \A d \in S : /\ downtime'[d] \in Downtimes /\ Alike(downtime'[d], before[d])
                   /\ downtime'[d].is_in_effect /\ downtime'[d].stop_event = "end"
                   /\ downtime'[d].start_event = before[d].start_event
  <2>1. TAKE d \in S
  <2>2. before[d] \in Downtimes /\ d \in Ids
    BY <1>2 DEF Prepares, EntryPrepared
  <2>3. downtime'[d] = Started(d, S, before[d])
    BY <1>1, <2>2
  <2> QED
    BY <2>2, <2>3, <1>3, StartedEntry
<1>7. \A d \in Live : downtime'[d] \in Downtimes /\ Alike(downtime'[d], downtime[d])
  BY <1>2, <1>5, <1>6 DEF Prepares, EntryPrepared, Alike
<1>8. Live' = Live
  BY <1>4, <1>7, <1>2, ListedIsNotGone DEF Live
<1>9. InEffect' = InEffect \cup S
  BY <1>2, <1>5, <1>6, <1>8 DEF InEffect, Prepares, EntryPrepared
<1> QED
  BY <1>1, <1>2, <1>4, <1>5, <1>6, <1>7, <1>8, <1>9

\* A step that starts downtimes keeps the invariant.
LEMMA StartingKeeps ==
    ASSUME IInv, NEW D, NEW before, NEW run, NEW S, S = TriggeredFrom(D, Startable),
           Prepares(before, run, S), handle_scheduled_downtime_start(D, before, run),
           problem' \subseteq Objects
    PROVE  IInv'
<1>1. /\ S \subseteq Startable /\ Live' = Live /\ InEffect' = InEffect \cup S
      /\ \A d \in Live : /\ downtime'[d] \in Downtimes /\ Alike(downtime'[d], downtime[d])
                         /\ downtime'[d].start_event = before[d].start_event
                         /\ d \in S => downtime'[d].stop_event = "end"
                         /\ d \notin S => downtime'[d] = before[d]
      /\ \A d \in Ids \ Live : downtime'[d] = Gone
      /\ downtime' = [d \in Ids |-> Started(d, S, before[d])]
  BY StartingChanges
<1> DEFINE ends == {Event("end", d, EndTime(downtime'[d])) : d \in S}
<1>2. queue' = (queue \ run) \cup ends
  BY <1>1 DEF handle_scheduled_downtime_start
<1>3. /\ next_downtime_id' = next_downtime_id /\ pending_flex_downtime' = pending_flex_downtime
      /\ now' = now /\ restarts' = restarts
      /\ scheduled_downtime_depth' =
            [o \in Objects |-> scheduled_downtime_depth[o] + Cardinality(For(o, S))]
  BY <1>1 DEF handle_scheduled_downtime_start
<1>4. /\ now \in Times /\ queue \subseteq Events /\ Live \subseteq Ids /\ InEffect \subseteq Live
      /\ Startable \subseteq Live /\ Startable \cap InEffect = {}
  BY DEF IInv, TypeOK, Live, InEffect, Startable
<1>5. \A e \in ends : /\ e \in Events /\ e.kind = "end" /\ e.id \in S
                      /\ EndTime(downtime'[e.id]) <= e.at \/ e.at = MaxTime
  <2>1. TAKE e \in ends
  <2>2. PICK d \in S : e = Event("end", d, EndTime(downtime'[d]))
    BY <2>1
  <2>3. d \in Ids /\ EndTime(downtime'[d]) \in Int
    BY <1>1, <1>4, EndTimes
  <2> QED
    BY <2>2, <2>3, <1>4, EventFacts
<1>6. \A d \in S : \E e \in ends : e.kind = "end" /\ e.id = d
  <2>1. TAKE d \in S
  <2>2. Event("end", d, EndTime(downtime'[d])) \in ends
    OBVIOUS
  <2>3. d \in Ids /\ EndTime(downtime'[d]) \in Int
    BY <1>1, <1>4, EndTimes
  <2> QED
    BY <2>2, <2>3, <1>4, EventFacts
<1> HIDE DEF ends
<1>7. TypeOK'
  <2>1. downtime' \in [Ids -> Downtimes \cup {Gone}]
    BY <1>1
  <2>2. \A d \in Live' : d < next_downtime_id' /\ downtime'[d].triggered_by < d
    BY <1>1, <1>3, Entries DEF Alike, IInv
  <2>3. scheduled_downtime_depth' \in [Objects -> Nat]
    <3>1. \A o \in Objects : Cardinality(For(o, S)) \in Nat
      BY <1>1, <1>4, SomeIds DEF For
    <3>2. scheduled_downtime_depth \in [Objects -> Nat]
      BY DEF IInv, TypeOK
    <3> QED
      BY <1>3, <3>1, <3>2
  <2>4. queue' \subseteq Events
    BY <1>2, <1>4, <1>5
  <2> QED
    BY <1>3, <2>1, <2>2, <2>3, <2>4 DEF TypeOK, IInv
<1>8. DepthAgrees'
  <2>1. SUFFICES ASSUME NEW o \in Objects
                 PROVE  scheduled_downtime_depth'[o] = Cardinality(For(o, InEffect)')
    BY DEF DepthAgrees
  <2>2. For(o, InEffect)' = For(o, InEffect) \cup For(o, S)
    BY <1>1, <1>4 DEF For, Alike
  <2>3. /\ For(o, InEffect) \subseteq Ids /\ For(o, S) \subseteq Ids
        /\ For(o, InEffect) \cap For(o, S) = {}
    BY <1>1, <1>4 DEF For
  <2>4. scheduled_downtime_depth[o] = Cardinality(For(o, InEffect))
    BY DEF IInv, DepthAgrees
  <2> QED
    BY <1>3, <2>2, <2>3, <2>4, Joined
<1>9. EventsStand'
  <2>1. SUFFICES ASSUME NEW d \in Live
                 PROVE  /\ downtime'[d].start_event => \E e \in queue' : e.kind = "start" /\ e.id = d
                        /\ downtime'[d].stop_event = "expire" =>
                               \E e \in queue' : e.kind = "expire" /\ e.id = d
                        /\ downtime'[d].stop_event = "end" =>
                               \E e \in queue' : e.kind = "end" /\ e.id = d
                        /\ downtime'[d].is_in_effect <=> downtime'[d].stop_event = "end"
    BY <1>1 DEF EventsStand
  <2>2. /\ downtime[d].start_event => \E e \in queue : e.kind = "start" /\ e.id = d
        /\ downtime[d].stop_event = "expire" => \E e \in queue : e.kind = "expire" /\ e.id = d
        /\ downtime[d].stop_event = "end" => \E e \in queue : e.kind = "end" /\ e.id = d
        /\ downtime[d].is_in_effect <=> downtime[d].stop_event = "end"
    BY DEF IInv, EventsStand
  <2>3. downtime'[d].start_event => \E e \in queue' : e.kind = "start" /\ e.id = d
    BY <1>1, <1>2, <2>2 DEF Prepares, EntryPrepared
  <2>4. d \in S => downtime'[d].is_in_effect
    BY <1>1, <1>4 DEF InEffect
  <2>5. CASE d \in S
    BY <1>1, <1>2, <1>6, <2>3, <2>4, <2>5
  <2>6. CASE d \notin S
    <3>1. /\ downtime'[d].is_in_effect = downtime[d].is_in_effect
          /\ downtime'[d].stop_event = downtime[d].stop_event
      BY <1>1, <2>6 DEF Prepares, EntryPrepared
    <3>2. \A e \in queue : e.kind # "start" => e \in queue'
      BY <1>2 DEF Prepares, EntryPrepared
    <3> QED
      BY <2>2, <2>3, <3>1, <3>2
  <2> QED
    BY <2>5, <2>6
<1>10. PendingCovers'
  <2>1. SUFFICES /\ \A o \in Objects : pending_flex_downtime'[o] >= Cardinality(For(o, Counted(Live))')
                 /\ \A d \in Startable' : downtime'[d].fixed \/ downtime'[d].start_event
                                         \/ downtime'[d].incremented_pending_downtime
    BY DEF PendingCovers
  <2>2. \A o : For(o, Counted(Live))' = For(o, Counted(Live))
    BY <1>1, <1>4 DEF For, Counted, Alike
  <2>3. Startable' = Startable \ S
    BY <1>1, <1>4 DEF Startable
  <2>4. ASSUME NEW d \in Startable'
        PROVE  downtime'[d].fixed \/ downtime'[d].start_event
               \/ downtime'[d].incremented_pending_downtime
    <3>1. downtime[d].fixed \/ downtime[d].start_event \/ downtime[d].incremented_pending_downtime
      BY <2>3, <2>4 DEF IInv, PendingCovers
    <3> QED
      BY <3>1, <2>3, <2>4, <1>1, <1>4 DEF Prepares, EntryPrepared, Alike
  <2> QED
    BY <1>3, <2>2, <2>4 DEF IInv, PendingCovers
<1>11. EventsInTime'
  <2>1. SUFFICES ASSUME NEW e \in queue'
                 PROVE  /\ e.id < next_downtime_id
                        /\ e.id \in Live /\ e.kind = "expire" => downtime'[e.id].end_time <= e.at
                        /\ e.id \in Live /\ e.kind = "end" =>
                               /\ downtime'[e.id].is_in_effect
                               /\ EndTime(downtime'[e.id]) <= e.at \/ e.at = MaxTime
    BY <1>1, <1>3 DEF EventsInTime, EndTime
  <2>2. CASE e \in ends
    BY <1>1, <1>4, <1>5, <2>2, Entries DEF InEffect, IInv
  <2>3. CASE e \in queue
    <3>1. /\ e.id < next_downtime_id
          /\ e.id \in Live /\ e.kind = "expire" => downtime[e.id].end_time <= e.at
          /\ e.id \in Live /\ e.kind = "end" =>
                 /\ downtime[e.id].is_in_effect
                 /\ EndTime(downtime[e.id]) <= e.at \/ e.at = MaxTime
      BY <2>3 DEF IInv, EventsInTime
    <3>2. e.id \in Live /\ e.kind = "end" => e.id \notin S
      BY <3>1, <1>1, <1>4 DEF InEffect
    <3>3. ASSUME e.id \in Live, e.kind = "expire" PROVE downtime'[e.id].end_time <= e.at
      BY <3>1, <3>3, <1>1 DEF Alike
    <3>4. ASSUME e.id \in Live, e.kind = "end"
          PROVE  /\ downtime'[e.id].is_in_effect
                 /\ EndTime(downtime'[e.id]) <= e.at \/ e.at = MaxTime
      <4>1. e.id \notin S /\ downtime'[e.id] = before[e.id]
        BY <3>2, <3>4, <1>1
      <4>2. /\ before[e.id].is_in_effect = downtime[e.id].is_in_effect
            /\ EndTime(before[e.id]) = EndTime(downtime[e.id])
        BY <4>1, <3>4 DEF Prepares, EntryPrepared
      <4> QED
        BY <3>1, <3>4, <4>1, <4>2
    <3> QED
      BY <3>1, <3>3, <3>4
  <2> QED
    BY <1>2, <2>2, <2>3
<1> QED
  BY <1>7, <1>8, <1>9, <1>10, <1>11 DEF IInv

\* The start event of a listed downtime does.
LEMMA StartEventKeeps ==
    ASSUME IInv, NEW e \in queue, e.kind = "start", e.id \in Live,
           handle_scheduled_downtime_start({e.id}, StartEventTaken(e.id), {e}),
           UNCHANGED problem
    PROVE  IInv' /\ Prepares(StartEventTaken(e.id), {e}, TriggeredFrom({e.id}, Startable))
<1> DEFINE before == StartEventTaken(e.id)
           S == TriggeredFrom({e.id}, Startable)
<1>1. e.id \in Ids /\ downtime \in [Ids -> Downtimes \cup {Gone}]
  BY DEF IInv, TypeOK, Live
<1>2. /\ before[e.id] = [downtime[e.id] EXCEPT !.start_event = FALSE]
      /\ \A d \in Ids \ {e.id} : before[d] = downtime[d]
  BY <1>1 DEF StartEventTaken
<1>3. downtime[e.id] \in Downtimes
  BY Entries DEF IInv
<1>4. /\ before[e.id] \in Downtimes /\ Alike(before[e.id], downtime[e.id])
      /\ before[e.id].is_in_effect = downtime[e.id].is_in_effect
      /\ before[e.id].stop_event = downtime[e.id].stop_event
      /\ ~before[e.id].start_event
      /\ EndTime(before[e.id]) = EndTime(downtime[e.id])
  BY <1>2, <1>3 DEF Downtimes, Alike, EndTime
<1>5. e.id \in S \cup InEffect
  BY BegunAreVisited DEF Startable
<1>6. \A d \in Live : downtime[d] \in Downtimes /\ d \in Ids
  BY Entries DEF IInv
<1>7. \A d \in Ids \ Live : downtime[d] = Gone
  BY DEF Live
<1>8. Prepares(before, {e}, S)
  <2>1. \A d \in Ids \ Live : before[d] = Gone
    BY <1>2, <1>7
  <2>2. \A x \in {e} : x.kind = "start" /\ (x.id \in Live => ~before[x.id].start_event)
    BY <1>4
  <2>3. \A d \in Live : EntryPrepared(before[d], d, S)
    <3>1. TAKE d \in Live
    <3>2. CASE d = e.id
      BY <3>2, <1>4, <1>5 DEF EntryPrepared
    <3>3. CASE d # e.id
      BY <3>3, <1>2, <1>6 DEF Alike, EntryPrepared
    <3> QED
      BY <3>2, <3>3
  <2> HIDE DEF before, S
  <2> QED
    BY <2>1, <2>2, <2>3 DEF Prepares
<1>9. problem' \subseteq Objects
  BY DEF IInv, TypeOK
<1> QED
  BY <1>8, <1>9, StartingKeeps

\* What a result that changes the state of an object may do to the list.
LEMMA StateChangePrepares ==
    ASSUME IInv, NEW C, C \subseteq Startable, NEW first \in SUBSET C, NEW before,
           \A d \in Ids : before[d] = IF d \in first
                                     THEN [downtime[d] EXCEPT !.flex_downtime_start = now]
                                     ELSE downtime[d]
    PROVE  Prepares(before, {}, TriggeredFrom(first, Startable))
<1>1. Startable \subseteq Live /\ Live \subseteq Ids /\ now \in Times
  BY DEF Startable, Live, IInv, TypeOK
<1>2. first \subseteq TriggeredFrom(first, Startable)
  BY BegunAreVisited
<1>3. \A d \in Ids \ Live : before[d] = Gone
  BY <1>1 DEF Live
<1>4. \A d \in Live : downtime[d] \in Downtimes
  BY Entries DEF IInv
<1>5. \A d \in Live : EntryPrepared(before[d], d, TriggeredFrom(first, Startable))
  <2>1. TAKE d \in Live
  <2>2. CASE d \in first
    <3>1. before[d] = [downtime[d] EXCEPT !.flex_downtime_start = now]
      BY <2>2, <1>1
    <3> QED
      BY <3>1, <2>2, <1>1, <1>2, <1>4 DEF Downtimes, Alike, EntryPrepared
  <2>3. CASE d \notin first
    BY <2>3, <1>1, <1>4 DEF Alike, EntryPrepared
  <2> QED
    BY <2>2, <2>3
<1> QED
  BY <1>3, <1>5 DEF Prepares

\* Such a result keeps the invariant.
LEMMA StateChangeKeeps ==
    ASSUME IInv, NEW o \in Objects, NEW bad \in BOOLEAN, StateChange(o, bad)
    PROVE  /\ IInv'
           /\ \E first, before : /\ Prepares(before, {}, TriggeredFrom(first, Startable))
                                /\ handle_scheduled_downtime_start(first, before, {})
<1> DEFINE looked == bad /\ (o \in Services => pending_flex_downtime[o] > 0)
           C == IF looked THEN PendingFlex(o) ELSE {}
<1>1. problem' \subseteq Objects
  BY DEF StateChange, IInv, TypeOK
<1>2. PICK first \in SUBSET C :
          handle_scheduled_downtime_start(first,
              [d \in Ids |-> IF d \in first THEN [downtime[d] EXCEPT !.flex_downtime_start = now]
                             ELSE downtime[d]], {})
  BY Zenon DEF StateChange
<1>3. C \subseteq Startable
  BY DEF PendingFlex, For
<1> HIDE DEF C
<1> QED
  BY <1>1, <1>2, <1>3, StateChangePrepares, StartingKeeps

-----------------------------------------------------------------------------
\* Downtimes that are deleted.

\* The depth stays as it is when nothing of S is in effect.
LEMMA DepthStays ==
    ASSUME IInv, NEW S, S \cap InEffect = {}
    PROVE  scheduled_downtime_depth = [o \in Objects |-> DepthWithout(o, S)]
<1>1. scheduled_downtime_depth \in [Objects -> Nat]
  BY DEF IInv, TypeOK
<1>2. \A o : For(o, S \cap InEffect) = {}
  BY DEF For
<1>3. \A o \in Objects : DepthWithout(o, S) = scheduled_downtime_depth[o]
  BY <1>1, <1>2, FS_EmptySet DEF DepthWithout, Lowered
<1> QED
  BY <1>1, <1>3

\* A step that deletes downtimes, and takes no event from what stays but what was
\* to expire what is in effect.
Deletes(S) ==
    /\ S \subseteq Live /\ downtime' = Deleted(S) /\ queue' \subseteq queue
    /\ \A e \in queue : \/ e \in queue' \/ e.id \in S \/ e.id \notin Live
                        \/ (e.id \in InEffect /\ e.kind = "expire")
    /\ scheduled_downtime_depth' = [o \in Objects |-> DepthWithout(o, S)]
    /\ pending_flex_downtime' \in [Objects -> Nat]
    /\ \A o \in Objects : pending_flex_downtime'[o]
                             >= pending_flex_downtime[o] - Cardinality(For(o, Counted(S)))
    /\ next_downtime_id' = next_downtime_id /\ problem' = problem
    /\ now' = now /\ restarts' = restarts

\* Such a step keeps the invariant.
LEMMA DeletingKeeps ==
    ASSUME IInv, NEW S, Deletes(S)
    PROVE  IInv' /\ Live' = Live \ S /\ InEffect' = InEffect \ S
<1>0. /\ S \subseteq Live /\ downtime' = Deleted(S) /\ queue' \subseteq queue
      /\ \A e \in queue : \/ e \in queue' \/ e.id \in S \/ e.id \notin Live
                          \/ (e.id \in InEffect /\ e.kind = "expire")
      /\ scheduled_downtime_depth' = [o \in Objects |-> DepthWithout(o, S)]
      /\ pending_flex_downtime' \in [Objects -> Nat]
      /\ \A o \in Objects : pending_flex_downtime'[o]
                               >= pending_flex_downtime[o] - Cardinality(For(o, Counted(S)))
      /\ next_downtime_id' = next_downtime_id /\ problem' = problem
      /\ now' = now /\ restarts' = restarts
  BY DEF Deletes
<1>1. /\ Live \subseteq Ids /\ downtime \in [Ids -> Downtimes \cup {Gone}]
      /\ InEffect \subseteq Live /\ Startable \subseteq Live
  BY DEF IInv, TypeOK, Live, InEffect, Startable
<1>2. downtime' = [d \in Ids |-> IF d \in S THEN Gone ELSE downtime[d]]
  BY <1>0 DEF Deleted
<1>3. Live' = Live \ S
  BY <1>0, <1>1, <1>2 DEF Live
<1>4. \A d \in Live \ S : downtime'[d] = downtime[d]
  BY <1>0, <1>1, <1>2
<1>5. InEffect' = InEffect \ S
  BY <1>3, <1>4 DEF InEffect
<1>6. scheduled_downtime_depth \in [Objects -> Nat]
  BY DEF IInv, TypeOK
<1>7. ASSUME NEW o \in Objects
      PROVE  scheduled_downtime_depth'[o] = Cardinality(For(o, InEffect)')
  <2>1. For(o, InEffect)' = For(o, InEffect) \ For(o, S \cap InEffect)
    BY <1>1, <1>4, <1>5 DEF For
  <2>2. For(o, S \cap InEffect) \subseteq For(o, InEffect) /\ For(o, InEffect) \subseteq Ids
    BY <1>1 DEF For
  <2>3. scheduled_downtime_depth[o] = Cardinality(For(o, InEffect))
    BY DEF IInv, DepthAgrees
  <2>4. /\ Cardinality(For(o, InEffect)') = Cardinality(For(o, InEffect)) - Cardinality(For(o, S \cap InEffect))
        /\ Cardinality(For(o, S \cap InEffect)) <= Cardinality(For(o, InEffect))
    BY <2>1, <2>2, Taken
  <2>5. Cardinality(For(o, InEffect)) \in Nat /\ Cardinality(For(o, S \cap InEffect)) \in Nat
    BY <2>2, SomeIds
  <2>6. scheduled_downtime_depth'[o] = DepthWithout(o, S)
    BY <1>0
  <2> QED
    BY <2>3, <2>4, <2>5, <2>6 DEF DepthWithout, Lowered
<1>8. TypeOK'
  <2>1. downtime' \in [Ids -> Downtimes \cup {Gone}]
    BY <1>1, <1>2
  <2>2. \A d \in Live' : d < next_downtime_id' /\ downtime'[d].triggered_by < d
    BY <1>0, <1>3, <1>4, Entries DEF IInv
  <2>3. scheduled_downtime_depth' \in [Objects -> Nat]
    <3>1. \A o \in Objects : For(o, InEffect)' \subseteq Ids
      BY <1>1, <1>5 DEF For
    <3>2. \A o \in Objects : scheduled_downtime_depth'[o] \in Nat
      BY <3>1, <1>7, SomeIds
    <3>3. scheduled_downtime_depth' = [o \in Objects |-> scheduled_downtime_depth'[o]]
      BY <1>0
    <3> QED
      BY <3>2, <3>3
  <2> QED
    BY <1>0, <2>1, <2>2, <2>3 DEF IInv, TypeOK
<1>9. DepthAgrees'
  BY <1>7 DEF DepthAgrees
<1>10. EventsStand'
  <2>1. SUFFICES ASSUME NEW d \in Live \ S
                 PROVE  /\ downtime[d].start_event => \E e \in queue' : e.kind = "start" /\ e.id = d
                        /\ downtime[d].stop_event = "expire" =>
                               \E e \in queue' : e.kind = "expire" /\ e.id = d
                        /\ downtime[d].stop_event = "end" =>
                               \E e \in queue' : e.kind = "end" /\ e.id = d
                        /\ downtime[d].is_in_effect <=> downtime[d].stop_event = "end"
    BY <1>3, <1>4 DEF EventsStand
  <2>2. /\ downtime[d].start_event => \E e \in queue : e.kind = "start" /\ e.id = d
        /\ downtime[d].stop_event = "expire" => \E e \in queue : e.kind = "expire" /\ e.id = d
        /\ downtime[d].stop_event = "end" => \E e \in queue : e.kind = "end" /\ e.id = d
        /\ downtime[d].is_in_effect <=> downtime[d].stop_event = "end"
    BY DEF IInv, EventsStand
  <2>3. downtime[d].is_in_effect <=> d \in InEffect
    BY DEF InEffect
  <2>4. \A e \in queue : e.id = d => e \in queue' \/ (e.kind = "expire" /\ d \in InEffect)
    BY <1>0
  <2> QED
    BY <2>2, <2>3, <2>4
<1>11. PendingCovers'
  <2>1. ASSUME NEW o \in Objects
        PROVE  pending_flex_downtime'[o] >= Cardinality(For(o, Counted(Live))')
    <3>1. For(o, Counted(Live))' = For(o, Counted(Live)) \ For(o, Counted(S))
      BY <1>1, <1>3, <1>4 DEF For, Counted
    <3>2. For(o, Counted(S)) \subseteq For(o, Counted(Live)) /\ For(o, Counted(Live)) \subseteq Ids
      BY <1>0, <1>1 DEF For, Counted
    <3>3. Cardinality(For(o, Counted(Live))') =
              Cardinality(For(o, Counted(Live))) - Cardinality(For(o, Counted(S)))
      BY <3>1, <3>2, Taken
    <3>4. Cardinality(For(o, Counted(Live))) \in Nat /\ Cardinality(For(o, Counted(S))) \in Nat
      BY <3>2, SomeIds
    <3>5. pending_flex_downtime[o] >= Cardinality(For(o, Counted(Live)))
      BY DEF IInv, PendingCovers
    <3>6. pending_flex_downtime[o] \in Nat /\ pending_flex_downtime'[o] \in Nat
      BY <1>0 DEF IInv, TypeOK
    <3>7. pending_flex_downtime'[o] >= pending_flex_downtime[o] - Cardinality(For(o, Counted(S)))
      BY <1>0
    <3> QED
      BY <3>3, <3>4, <3>5, <3>6, <3>7
  <2>2. Startable' = Startable \ S
    BY <1>3, <1>5 DEF Startable
  <2>3. \A d \in Startable' : downtime'[d].fixed \/ downtime'[d].start_event
                              \/ downtime'[d].incremented_pending_downtime
    BY <2>2, <1>1, <1>4 DEF IInv, PendingCovers
  <2> QED
    BY <2>1, <2>3 DEF PendingCovers
<1>12. EventsInTime'
  BY <1>0, <1>3, <1>4 DEF IInv, EventsInTime, EndTime
<1> QED
  BY <1>3, <1>5, <1>8, <1>9, <1>10, <1>11, <1>12 DEF IInv

\* The number of pending downtimes that are deleted.
LEMMA PendingDeleted ==
    ASSUME IInv, NEW S, S \subseteq Live, NEW o \in Objects
    PROVE  /\ Cardinality(For(o, Counted(S))) \in Nat /\ pending_flex_downtime[o] \in Nat
           /\ Cardinality(For(o, Counted(S))) <= pending_flex_downtime[o]
<1>1. For(o, Counted(S)) \subseteq For(o, Counted(Live)) /\ For(o, Counted(Live)) \subseteq Ids
  BY DEF For, Counted, Live
<1>2. Cardinality(For(o, Counted(S))) \in Nat /\ Cardinality(For(o, Counted(Live))) \in Nat
  BY <1>1, SomeIds
<1>3. Cardinality(For(o, Counted(S))) <= Cardinality(For(o, Counted(Live)))
  BY <1>1, Taken
<1>4. pending_flex_downtime[o] >= Cardinality(For(o, Counted(Live)))
  BY DEF IInv, PendingCovers
<1>5. pending_flex_downtime[o] \in Nat
  BY DEF IInv, TypeOK
<1> QED
  BY <1>2, <1>3, <1>4, <1>5

\* The end event of a listed downtime keeps the invariant.
LEMMA EndKeeps ==
    ASSUME IInv, NEW e \in queue, e.id \in Live, handle_scheduled_downtime_end(e.id, {e})
    PROVE  /\ IInv' /\ Live' = Live \ EndedWith({e.id}) /\ InEffect' = InEffect \ EndedWith({e.id})
           /\ EndedWith({e.id}) \subseteq Live /\ downtime' = Deleted(EndedWith({e.id}))
<1> DEFINE S == EndedWith({e.id})
<1>1. S \subseteq Live /\ e.id \in S
  BY VisitedAreAmong, BegunAreVisited DEF EndedWith
<1>2. /\ downtime' = Deleted(S) /\ queue' = queue \ {e}
      /\ scheduled_downtime_depth' = [o \in Objects |-> DepthWithout(o, S)]
      /\ pending_flex_downtime' =
             [o \in Objects |-> Lowered(pending_flex_downtime[o], Cardinality(For(o, Counted(S))))]
      /\ UNCHANGED <<next_downtime_id, problem, now, restarts>>
  BY DEF handle_scheduled_downtime_end
<1> HIDE DEF S
<1>3. \A o \in Objects : /\ Cardinality(For(o, Counted(S))) \in Nat
                        /\ pending_flex_downtime[o] \in Nat
  BY <1>1, PendingDeleted
<1>4. \A o \in Objects :
          /\ Lowered(pending_flex_downtime[o], Cardinality(For(o, Counted(S)))) \in Nat
          /\ Lowered(pending_flex_downtime[o], Cardinality(For(o, Counted(S))))
                >= pending_flex_downtime[o] - Cardinality(For(o, Counted(S)))
  BY <1>3 DEF Lowered
<1>5. pending_flex_downtime' \in [Objects -> Nat]
  BY <1>2, <1>4
<1>6. \A o \in Objects : pending_flex_downtime'[o]
                            >= pending_flex_downtime[o] - Cardinality(For(o, Counted(S)))
  BY <1>2, <1>4
<1>7. queue' \subseteq queue /\ \A f \in queue \ queue' : f.id \in S
  BY <1>1, <1>2
<1>8. /\ downtime' = Deleted(S)
      /\ scheduled_downtime_depth' = [o \in Objects |-> DepthWithout(o, S)]
      /\ UNCHANGED <<next_downtime_id, problem, now, restarts>>
  BY <1>2
<1>9. IInv' /\ Live' = Live \ S /\ InEffect' = InEffect \ S
  <2>1. Deletes(S)
    BY <1>1, <1>5, <1>6, <1>7, <1>8 DEF Deletes
  <2> QED
    BY <2>1, DeletingKeeps
<1> QED
  BY <1>1, <1>8, <1>9 DEF S

\* Cancelling downtimes does.
LEMMA CancelKeeps ==
    ASSUME IInv, NEW D, unschedule_downtime(D)
    PROVE  /\ IInv' /\ Live' = Live \ EndedWith(D) /\ InEffect' = InEffect \ EndedWith(D)
           /\ EndedWith(D) \subseteq Live /\ downtime' = Deleted(EndedWith(D))
<1> DEFINE S == EndedWith(D)
<1>1. S \subseteq Live
  BY VisitedAreAmong DEF EndedWith
<1>2. /\ downtime' = Deleted(S) /\ queue' = queue \ PointedTo(S)
      /\ scheduled_downtime_depth' = [o \in Objects |-> DepthWithout(o, S)]
      /\ pending_flex_downtime' =
             [o \in Objects |-> pending_flex_downtime[o] - Cardinality(For(o, Counted(S)))]
      /\ UNCHANGED <<next_downtime_id, problem, now, restarts>>
  BY DEF unschedule_downtime
<1> HIDE DEF S
<1>3. \A o \in Objects : /\ Cardinality(For(o, Counted(S))) \in Nat
                        /\ pending_flex_downtime[o] \in Nat
                        /\ Cardinality(For(o, Counted(S))) <= pending_flex_downtime[o]
  BY <1>1, PendingDeleted
<1>4. \A o \in Objects : pending_flex_downtime[o] - Cardinality(For(o, Counted(S))) \in Nat
  BY <1>3
<1>5. pending_flex_downtime' \in [Objects -> Nat]
  BY <1>2, <1>4
<1>6. \A o \in Objects : pending_flex_downtime'[o]
                            >= pending_flex_downtime[o] - Cardinality(For(o, Counted(S)))
  BY <1>2, <1>4
<1>7. queue' \subseteq queue /\ \A f \in queue \ queue' : f.id \in S
  BY <1>2 DEF PointedTo
<1>8. /\ downtime' = Deleted(S)
      /\ scheduled_downtime_depth' = [o \in Objects |-> DepthWithout(o, S)]
      /\ UNCHANGED <<next_downtime_id, problem, now, restarts>>
  BY <1>2
<1>9. IInv' /\ Live' = Live \ S /\ InEffect' = InEffect \ S
  <2>1. Deletes(S)
    BY <1>1, <1>5, <1>6, <1>7, <1>8 DEF Deletes
  <2> QED
    BY <2>1, DeletingKeeps
<1> QED
  BY <1>1, <1>8, <1>9 DEF S

\* An expire event does: what still waits for it is past its window.
LEMMA ExpireKeeps ==
    ASSUME IInv, NEW e \in queue, e.kind = "expire", e.at <= now, check_for_expired_downtime({e})
    PROVE  IInv' /\ Live' = Live \ Expired /\ InEffect' = InEffect
<1>1. Expired \subseteq Live /\ Expired \cap InEffect = {}
  BY DEF Expired, Startable
<1>2. /\ downtime' = Deleted(Expired) /\ queue' = queue \ {e}
      /\ UNCHANGED <<next_downtime_id, counters, problem, now, restarts>>
  BY DEF check_for_expired_downtime
<1>3. scheduled_downtime_depth' = [o \in Objects |-> DepthWithout(o, Expired)]
  BY <1>1, <1>2, DepthStays DEF counters
<1>4. /\ pending_flex_downtime' \in [Objects -> Nat]
      /\ \A o \in Objects : pending_flex_downtime'[o]
                               >= pending_flex_downtime[o] - Cardinality(For(o, Counted(Expired)))
  <2>1. pending_flex_downtime' = pending_flex_downtime /\ pending_flex_downtime \in [Objects -> Nat]
    BY <1>2 DEF counters, IInv, TypeOK
  <2>2. \A o \in Objects : Cardinality(For(o, Counted(Expired))) \in Nat
    BY <1>1, PendingDeleted
  <2> QED
    BY <2>1, <2>2
<1>5. e.id \in Expired \/ e.id \notin Live \/ e.id \in InEffect
  <2>1. ASSUME e.id \in Live PROVE downtime[e.id].end_time <= now
    <3>1. downtime[e.id].end_time <= e.at
      BY <2>1 DEF IInv, EventsInTime
    <3>2. downtime[e.id].end_time \in Int /\ e.at \in Int /\ now \in Int
      BY <2>1, Entries DEF IInv, TypeOK, Downtimes, Events, Times
    <3> QED
      BY <3>1, <3>2
  <2> QED
    BY <2>1 DEF Expired, Startable
<1> HIDE DEF Expired
<1>6. queue' \subseteq queue /\ \A f \in queue \ queue' : f = e
  BY <1>2
<1>7. IInv' /\ Live' = Live \ Expired /\ InEffect' = InEffect \ Expired
  <2>1. /\ next_downtime_id' = next_downtime_id /\ problem' = problem
        /\ now' = now /\ restarts' = restarts /\ downtime' = Deleted(Expired)
    BY <1>2
  <2>2. \A f \in queue : \/ f \in queue' \/ f.id \in Expired \/ f.id \notin Live
                         \/ (f.id \in InEffect /\ f.kind = "expire")
    BY <1>5, <1>6
  <2>3. Deletes(Expired)
    BY Zenon, <1>1, <1>3, <1>4, <1>6, <2>1, <2>2 DEF Deletes
  <2> QED
    BY <2>3, DeletingKeeps
<1> QED
  BY <1>1, <1>7

\* An event of what is gone changes nothing but the queue.
LEMMA StaleEventKeeps ==
    ASSUME IInv, NEW e \in queue, e.id \notin Live, queue' = queue \ {e},
           UNCHANGED <<downtime, next_downtime_id, counters, problem, now, restarts>>
    PROVE  IInv'
<1>1. downtime' = Deleted({})
  BY DEF Deleted, IInv, TypeOK
<1>2. scheduled_downtime_depth' = [o \in Objects |-> DepthWithout(o, {})]
  BY DepthStays DEF counters
<1>3. /\ pending_flex_downtime' \in [Objects -> Nat]
      /\ \A o \in Objects : pending_flex_downtime'[o]
                               >= pending_flex_downtime[o] - Cardinality(For(o, Counted({})))
  <2>1. pending_flex_downtime' = pending_flex_downtime /\ pending_flex_downtime \in [Objects -> Nat]
    BY DEF counters, IInv, TypeOK
  <2>2. \A o \in Objects : Cardinality(For(o, Counted({}))) \in Nat
    BY PendingDeleted
  <2> QED
    BY <2>1, <2>2
<1>4. /\ queue' \subseteq queue /\ \A f \in queue : f \in queue' \/ f.id \notin Live
      /\ next_downtime_id' = next_downtime_id /\ problem' = problem
      /\ now' = now /\ restarts' = restarts
  OBVIOUS
<1> DEFINE S == {}
<1>5. /\ S \subseteq Live /\ downtime' = Deleted(S)
      /\ scheduled_downtime_depth' = [o \in Objects |-> DepthWithout(o, S)]
      /\ \A o \in Objects : pending_flex_downtime'[o]
                               >= pending_flex_downtime[o] - Cardinality(For(o, Counted(S)))
  BY <1>1, <1>2, <1>3
<1> HIDE DEF S
<1>6. Deletes(S)
  <2>1. S \subseteq Live
    BY <1>5
  <2>2. downtime' = Deleted(S)
    BY <1>5
  <2>3. queue' \subseteq queue
    BY <1>4
  <2>4. \A x \in queue : \/ x \in queue' \/ x.id \in S \/ x.id \notin Live
                        \/ (x.id \in InEffect /\ x.kind = "expire")
    BY <1>4
  <2>5. scheduled_downtime_depth' = [o \in Objects |-> DepthWithout(o, S)]
    BY <1>5
  <2>6. pending_flex_downtime' \in [Objects -> Nat]
    BY <1>3
  <2>7. \A o \in Objects : pending_flex_downtime'[o]
                             >= pending_flex_downtime[o] - Cardinality(For(o, Counted(S)))
    BY <1>5
  <2>8. next_downtime_id' = next_downtime_id /\ problem' = problem /\ now' = now /\ restarts' = restarts
    BY <1>4
  <2> QED
    BY <2>1, <2>2, <2>3, <2>4, <2>5, <2>6, <2>7, <2>8 DEF Deletes
<1> QED
  BY <1>6, DeletingKeeps

\* So does the clock.
LEMMA TickKeeps == ASSUME IInv, Tick PROVE IInv'
<1>1. now' \in Times /\ UNCHANGED <<downtime, next_downtime_id, counters, problem, queue, restarts>>
  BY DowntimeConstants DEF IInv, TypeOK, Tick, Times
<1>2. Live' = Live /\ InEffect' = InEffect /\ Startable' = Startable
  BY <1>1 DEF Live, InEffect, Startable
<1>3. TypeOK'
  BY <1>1, <1>2 DEF IInv, TypeOK, counters
<1>4. DepthAgrees'
  BY <1>1, <1>2 DEF IInv, DepthAgrees, For, counters
<1>5. EventsStand' /\ EventsInTime'
  BY <1>1, <1>2 DEF IInv, EventsStand, EventsInTime
<1>6. PendingCovers'
  BY <1>1, <1>2 DEF IInv, PendingCovers, For, Counted, counters
<1> QED
  BY <1>3, <1>4, <1>5, <1>6 DEF IInv

-----------------------------------------------------------------------------
\* Scheduling and restarting.

\* The entry that is registered.
LEMMA RegisteredEntry ==
    ASSUME now \in Times, NEW r \in Downtimes, NEW was \in BOOLEAN, NEW triggering \in BOOLEAN,
           NEW q, q = Registered(r, was, triggering)
    PROVE  /\ q \in Downtimes /\ q.object = r.object /\ q.triggered_by = r.triggered_by
           /\ ~q.is_in_effect /\ q.stop_event # "end"
           /\ q.fixed \/ q.start_event \/ q.incremented_pending_downtime
<1>1. StartsByEvent(r, was, triggering) \in BOOLEAN
  BY DEF StartsByEvent, Downtimes
<1>2. was => StartsByEvent(r, was, triggering)
  BY DEF StartsByEvent
<1> QED
  BY <1>1, <1>2 DEF Registered, Downtimes

\* The events that are scheduled for it.
LEMMA RegistrationFacts ==
    ASSUME now \in Times, NEW d \in Ids, NEW r \in Downtimes
    PROVE  /\ \A e \in RegistrationEvents(d, r) :
                  /\ e \in Events /\ e.id = d /\ e.kind # "end"
                  /\ e.kind = "expire" => r.end_time <= e.at
           /\ r.start_event => \E e \in RegistrationEvents(d, r) : e.kind = "start" /\ e.id = d
           /\ r.stop_event = "expire" =>
                  \E e \in RegistrationEvents(d, r) : e.kind = "expire" /\ e.id = d
<1> DEFINE at == IF r.fixed THEN r.start_time ELSE r.flex_downtime_start
           start == Event("start", d, at)
           expire == Event("expire", d, r.end_time + 1)
<1>1. at \in Int /\ r.end_time \in Int /\ r.end_time + 1 \in Int /\ r.end_time <= MaxTime
  BY DowntimeConstants DEF Downtimes, Times, Unset
<1>2. RegistrationEvents(d, r) =
          {e \in {start, expire} : \/ e.kind = "start" /\ r.start_event
                                   \/ e.kind = "expire" /\ r.stop_event = "expire"}
  BY DEF RegistrationEvents
<1> HIDE DEF at
<1>3. start \in Events /\ start.kind = "start" /\ start.id = d
  BY <1>1, EventFacts
<1>4. /\ expire \in Events /\ expire.kind = "expire" /\ expire.id = d
      /\ r.end_time + 1 <= expire.at \/ expire.at = MaxTime
  BY <1>1, EventFacts
<1>5. expire.at \in Int
  BY <1>4 DEF Events, Times
<1>6. r.end_time <= expire.at
  BY <1>1, <1>4, <1>5
<1> HIDE DEF start, expire
<1> QED
  BY <1>2, <1>3, <1>4, <1>6

\* Scheduling a downtime keeps the invariant.
LEMMA ScheduleKeeps ==
    ASSUME IInv, NEW o \in Objects, NEW request \in Requests, NEW trigger \in Ids \cup {NoTrigger},
           schedule_downtime(o, request, trigger)
    PROVE  /\ IInv' /\ next_downtime_id \in Ids \ Live /\ InEffect' = InEffect
           /\ Live' = Live \cup {next_downtime_id}
           /\ \A d \in Ids \ {next_downtime_id} : downtime'[d] = downtime[d]
           /\ downtime'[next_downtime_id].object = o
           /\ downtime'[next_downtime_id].triggered_by = trigger
<1> DEFINE d == next_downtime_id
           q == [object |-> o, fixed |-> request.fixed, start_time |-> request.start_time,
                 end_time |-> request.end_time, duration |-> request.duration,
                 triggered_by |-> trigger, flex_downtime_start |-> Unset, is_in_effect |-> FALSE,
                 incremented_pending_downtime |-> FALSE, start_event |-> FALSE,
                 stop_event |-> "none"]
           no == FALSE
           triggering == trigger \in InEffect
           r == Registered(q, no, triggering)
<1>1. /\ d \in Ids /\ trigger \in Live \cup {NoTrigger}
      /\ downtime' = [downtime EXCEPT ![d] = r] /\ next_downtime_id' = d + 1
      /\ queue' = queue \cup RegistrationEvents(d, r)
      /\ pending_flex_downtime' =
             [pending_flex_downtime EXCEPT ![o] = IF r.incremented_pending_downtime THEN @ + 1 ELSE @]
      /\ UNCHANGED <<scheduled_downtime_depth, problem, now, restarts>>
  BY DEF schedule_downtime
<1>2. /\ now \in Times /\ queue \subseteq Events /\ Live \subseteq Ids /\ InEffect \subseteq Live
      /\ Startable = Live \ InEffect /\ downtime \in [Ids -> Downtimes \cup {Gone}]
      /\ \A x \in Live : downtime[x] \in Downtimes
  BY Entries DEF IInv, TypeOK, Live, InEffect, Startable
<1>3. d \notin Live /\ d \in Nat /\ \A x \in Live : x < d
  BY <1>1, Entries, DowntimeConstants DEF IInv, Ids
<1>4. q \in Downtimes
  <2>1. request.fixed \in BOOLEAN /\ request.start_time \in Times /\ request.end_time \in Times
        /\ request.duration \in Nat \ {0}
    BY DowntimeConstants
  <2> QED
    BY <2>1 DEF Downtimes
<1>5. q.object = o /\ q.triggered_by = trigger /\ no \in BOOLEAN /\ triggering \in BOOLEAN
  OBVIOUS
<1> HIDE DEF q, no, triggering
<1>6. /\ r \in Downtimes /\ r.object = o /\ r.triggered_by = trigger
      /\ ~r.is_in_effect /\ r.stop_event # "end"
      /\ r.fixed \/ r.start_event \/ r.incremented_pending_downtime
  BY <1>2, <1>4, <1>5, RegisteredEntry
<1>7. /\ \A e \in RegistrationEvents(d, r) :
             /\ e \in Events /\ e.id = d /\ e.kind # "end"
             /\ e.kind = "expire" => r.end_time <= e.at
      /\ r.start_event => \E e \in RegistrationEvents(d, r) : e.kind = "start" /\ e.id = d
      /\ r.stop_event = "expire" =>
             \E e \in RegistrationEvents(d, r) : e.kind = "expire" /\ e.id = d
  BY <1>1, <1>2, <1>6, RegistrationFacts
<1> HIDE DEF r
<1>8. /\ downtime'[d] = r /\ \A x \in Ids \ {d} : downtime'[x] = downtime[x]
      /\ downtime' \in [Ids -> Downtimes \cup {Gone}]
  BY <1>1, <1>2, <1>6
<1>9. r # Gone
  BY <1>6, ListedIsNotGone
<1>10. Live' = Live \cup {d}
  BY <1>1, <1>8, <1>9 DEF Live
<1>11. InEffect' = InEffect
  BY <1>2, <1>3, <1>6, <1>8, <1>10 DEF InEffect
<1>12. Startable' = Startable \cup {d}
  BY <1>2, <1>3, <1>10, <1>11 DEF Startable
<1>13. /\ pending_flex_downtime \in [Objects -> Nat] /\ pending_flex_downtime' \in [Objects -> Nat]
       /\ \A p \in Objects \ {o} : pending_flex_downtime'[p] = pending_flex_downtime[p]
       /\ pending_flex_downtime'[o] = IF r.incremented_pending_downtime
                                      THEN pending_flex_downtime[o] + 1 ELSE pending_flex_downtime[o]
  BY <1>1 DEF IInv, TypeOK
<1> HIDE DEF d
<1>14. TypeOK'
  <2>1. \A x \in Live' : x < next_downtime_id' /\ downtime'[x].triggered_by < x
    <3>1. TAKE x \in Live'
    <3>2. CASE x = d
      BY <3>2, <1>1, <1>3, <1>6, <1>8, DowntimeConstants DEF NoTrigger, Ids
    <3>3. CASE x \in Live
      <4>1. x < d /\ downtime[x].triggered_by < x /\ x \in Ids
        BY <3>3, <1>3, Entries DEF IInv
      <4> QED
        BY <4>1, <3>3, <1>1, <1>3, <1>8 DEF Ids
    <3> QED
      BY <3>2, <3>3, <1>10
  <2>2. next_downtime_id' \in 1..MaxDowntimes + 1
    BY <1>1, DowntimeConstants DEF Ids
  <2>3. queue' \subseteq Events
    BY <1>1, <1>2, <1>7
  <2>4. /\ scheduled_downtime_depth' \in [Objects -> Nat] /\ problem' \subseteq Objects
        /\ now' \in Times /\ restarts' \in 0..MaxRestarts
    BY <1>1 DEF IInv, TypeOK
  <2> QED
    BY <1>8, <1>13, <2>1, <2>2, <2>3, <2>4 DEF TypeOK
<1>15. DepthAgrees'
  <2>1. \A p \in Objects : For(p, InEffect)' = For(p, InEffect)
    BY <1>2, <1>3, <1>8, <1>11 DEF For
  <2> QED
    BY <1>1, <2>1 DEF IInv, DepthAgrees
<1>16. EventsStand'
  <2>1. SUFFICES ASSUME NEW x \in Live'
                 PROVE  /\ downtime'[x].start_event => \E e \in queue' : e.kind = "start" /\ e.id = x
                        /\ downtime'[x].stop_event = "expire" =>
                               \E e \in queue' : e.kind = "expire" /\ e.id = x
                        /\ downtime'[x].stop_event = "end" =>
                               \E e \in queue' : e.kind = "end" /\ e.id = x
                        /\ downtime'[x].is_in_effect <=> downtime'[x].stop_event = "end"
    BY DEF EventsStand
  <2>2. CASE x = d
    BY <2>2, <1>1, <1>6, <1>7, <1>8
  <2>3. CASE x \in Live
    <3>1. downtime'[x] = downtime[x]
      BY <2>3, <1>2, <1>3, <1>8
    <3>2. /\ downtime[x].start_event => \E e \in queue : e.kind = "start" /\ e.id = x
          /\ downtime[x].stop_event = "expire" => \E e \in queue : e.kind = "expire" /\ e.id = x
          /\ downtime[x].stop_event = "end" => \E e \in queue : e.kind = "end" /\ e.id = x
          /\ downtime[x].is_in_effect <=> downtime[x].stop_event = "end"
      BY <2>3 DEF IInv, EventsStand
    <3> QED
      BY <1>1, <3>1, <3>2
  <2> QED
    BY <2>2, <2>3, <1>10
<1>17. PendingCovers'
  <2>1. ASSUME NEW p \in Objects
        PROVE  pending_flex_downtime'[p] >= Cardinality(For(p, Counted(Live))')
    <3> DEFINE C == For(p, Counted(Live))
               one == IF p = o /\ r.incremented_pending_downtime THEN {d} ELSE {}
    <3>1. C' = C \cup one
      BY <1>2, <1>3, <1>6, <1>8, <1>10 DEF For, Counted
    <3>2. C \subseteq Ids /\ one \subseteq Ids /\ C \cap one = {}
      BY <1>1, <1>2, <1>3 DEF For, Counted
    <3>3. pending_flex_downtime[p] >= Cardinality(C) /\ pending_flex_downtime[p] \in Nat
      BY <1>13 DEF IInv, PendingCovers
    <3>4. Cardinality(C') = Cardinality(C) + Cardinality(one)
      <4> HIDE DEF C, one
      <4> QED
        BY <3>1, <3>2, Joined
    <3>5. Cardinality(C) \in Nat
      BY <3>2, SomeIds
    <3>6. pending_flex_downtime'[p] = pending_flex_downtime[p] + Cardinality(one)
      BY <1>13, FS_EmptySet, FS_Singleton
    <3>7. Cardinality(one) \in Nat
      BY <3>2, SomeIds
    <3> HIDE DEF C, one
    <3>8. pending_flex_downtime'[p] >= Cardinality(C')
      BY <3>3, <3>4, <3>5, <3>6, <3>7
    <3> QED
      BY <3>8 DEF C
  <2>2. \A x \in Startable' : downtime'[x].fixed \/ downtime'[x].start_event
                              \/ downtime'[x].incremented_pending_downtime
    <3>1. \A x \in Startable : downtime[x].fixed \/ downtime[x].start_event
                               \/ downtime[x].incremented_pending_downtime
      BY DEF IInv, PendingCovers
    <3>2. \A x \in Startable : downtime'[x] = downtime[x]
      BY <1>2, <1>3, <1>8
    <3> QED
      BY <1>6, <1>8, <1>12, <3>1, <3>2
  <2> QED
    BY <2>1, <2>2 DEF PendingCovers
<1>18. EventsInTime'
  <2>1. SUFFICES ASSUME NEW e \in queue'
                 PROVE  /\ e.id < next_downtime_id'
                        /\ e.id \in Live' /\ e.kind = "expire" => downtime'[e.id].end_time <= e.at
                        /\ e.id \in Live' /\ e.kind = "end" =>
                               /\ downtime'[e.id].is_in_effect
                               /\ EndTime(downtime'[e.id]) <= e.at \/ e.at = MaxTime
    BY DEF EventsInTime, EndTime
  <2>2. CASE e \in RegistrationEvents(d, r)
    BY <2>2, <1>1, <1>3, <1>7, <1>8
  <2>3. CASE e \in queue
    <3>1. /\ e.id < d
          /\ e.id \in Live /\ e.kind = "expire" => downtime[e.id].end_time <= e.at
          /\ e.id \in Live /\ e.kind = "end" =>
                 /\ downtime[e.id].is_in_effect
                 /\ EndTime(downtime[e.id]) <= e.at \/ e.at = MaxTime
      BY <2>3 DEF IInv, EventsInTime, d
    <3>2. e.id \in Ids /\ e.id # d
      BY <2>3, <3>1, <1>2, <1>3 DEF Events, Ids
    <3>3. e.id < next_downtime_id'
      BY <3>1, <3>2, <1>1, <1>3 DEF Ids
    <3>4. e.id \in Live' => e.id \in Live
      BY <3>2, <1>10
    <3> QED
      BY <3>1, <3>2, <3>3, <3>4, <1>8
  <2> QED
    BY <2>2, <2>3, <1>1
<1> QED
  BY <1>1, <1>3, <1>6, <1>8, <1>10, <1>11, <1>14, <1>15, <1>16, <1>17, <1>18 DEF IInv, d

\* What the restart leaves of downtime d, of which it keeps K.
Restored(K, d) ==
    IF d \in K THEN Registered(downtime[d], downtime[d].is_in_effect, FALSE) ELSE Gone

\* Restarting keeps the invariant.
LEMMA RestartKeeps ==
    ASSUME IInv, Restart
    PROVE  /\ IInv' /\ InEffect' = {} /\ Live' \subseteq Live
           /\ next_downtime_id' = next_downtime_id
           /\ \A d \in Live' : /\ downtime'[d].object = downtime[d].object
                               /\ downtime'[d].triggered_by = downtime[d].triggered_by
           /\ scheduled_downtime_depth' = [o \in Objects |-> 0]
<1>1. PICK K \in SUBSET Live :
          /\ downtime' = [d \in Ids |-> Restored(K, d)]
          /\ queue' = UNION {RegistrationEvents(d, [x \in Ids |-> Restored(K, x)][d]) : d \in K}
          /\ pending_flex_downtime' =
                 [o \in Objects |->
                     Cardinality({d \in K :
                         /\ [x \in Ids |-> Restored(K, x)][d].object = o
                         /\ [x \in Ids |-> Restored(K, x)][d].incremented_pending_downtime})]
  BY DEF Restart, Restored
<1>2. /\ restarts < MaxRestarts /\ scheduled_downtime_depth' = [o \in Objects |-> 0]
      /\ restarts' = restarts + 1 /\ UNCHANGED <<next_downtime_id, problem, now>>
  BY DEF Restart
<1>3. now \in Times /\ Live \subseteq Ids /\ K \subseteq Live
  BY DEF IInv, TypeOK, Live
<1>4. /\ downtime' \in [Ids -> {Restored(K, d) : d \in Ids}]
      /\ \A d \in Ids : downtime'[d] = Restored(K, d)
      /\ \A d \in Ids : [x \in Ids |-> Restored(K, x)][d] = Restored(K, d)
  BY <1>1
<1>5. /\ queue' = UNION {RegistrationEvents(d, downtime'[d]) : d \in K}
      /\ pending_flex_downtime' =
             [o \in Objects |-> Cardinality({d \in K : /\ downtime'[d].object = o
                                                       /\ downtime'[d].incremented_pending_downtime})]
  BY <1>1
<1>6. ASSUME NEW d \in K
      PROVE  /\ downtime'[d] \in Downtimes /\ downtime'[d].object = downtime[d].object
             /\ downtime'[d].triggered_by = downtime[d].triggered_by
             /\ ~downtime'[d].is_in_effect /\ downtime'[d].stop_event # "end"
             /\ downtime'[d].fixed \/ downtime'[d].start_event
                \/ downtime'[d].incremented_pending_downtime
  <2> DEFINE no == FALSE
             was == downtime[d].is_in_effect
  <2>1. downtime[d] \in Downtimes /\ d \in Ids
    BY <1>3, Entries DEF IInv
  <2>2. was \in BOOLEAN /\ no \in BOOLEAN
    BY <2>1 DEF Downtimes
  <2>3. downtime'[d] = Registered(downtime[d], was, no)
    BY <1>4, <2>1 DEF Restored
  <2> HIDE DEF was, no
  <2> QED
    BY <1>3, <2>1, <2>2, <2>3, RegisteredEntry
<1>7. \A d \in Ids \ K : downtime'[d] = Gone
  BY <1>4 DEF Restored
<1>8. Live' = K
  BY <1>3, <1>6, <1>7, ListedIsNotGone DEF Live
<1>9. InEffect' = {} /\ Startable' = K
  BY <1>6, <1>8 DEF InEffect, Startable
<1>10. \A d \in K :
          /\ \A e \in RegistrationEvents(d, downtime'[d]) :
                 /\ e \in Events /\ e.id = d /\ e.kind # "end"
                 /\ e.kind = "expire" => downtime'[d].end_time <= e.at
          /\ downtime'[d].start_event =>
                 \E e \in RegistrationEvents(d, downtime'[d]) : e.kind = "start" /\ e.id = d
          /\ downtime'[d].stop_event = "expire" =>
                 \E e \in RegistrationEvents(d, downtime'[d]) : e.kind = "expire" /\ e.id = d
  <2>1. TAKE d \in K
  <2>2. d \in Ids /\ downtime'[d] \in Downtimes
    BY <1>3, <1>6
  <2> QED
    BY <1>3, <2>2, RegistrationFacts
<1>11. \A e \in queue' : /\ e \in Events /\ e.id \in K /\ e.kind # "end"
                         /\ e.kind = "expire" => downtime'[e.id].end_time <= e.at
  <2>1. TAKE e \in queue'
  <2>2. PICK d \in K : e \in RegistrationEvents(d, downtime'[d])
    BY <1>5
  <2> QED
    BY <1>10, <2>2
<1>12. \A o : For(o, Counted(Live))' =
                 {d \in K : /\ downtime'[d].object = o /\ downtime'[d].incremented_pending_downtime}
  BY <1>8 DEF For, Counted
<1>13. pending_flex_downtime' = [o \in Objects |-> Cardinality(For(o, Counted(Live))')]
  BY <1>5, <1>12
<1>14. \A o : For(o, Counted(Live))' \subseteq Ids
  BY <1>3, <1>12
<1>15. \A o : Cardinality(For(o, Counted(Live))') \in Nat
  BY <1>14, SomeIds
<1>16. TypeOK'
  <2>1. downtime' \in [Ids -> Downtimes \cup {Gone}]
    BY <1>4, <1>6, <1>7
  <2>2. \A d \in Live' : d < next_downtime_id' /\ downtime'[d].triggered_by < d
    BY <1>2, <1>6, <1>8, Entries DEF IInv
  <2>3. restarts' \in 0..MaxRestarts
    BY <1>2, DowntimeConstants DEF IInv, TypeOK
  <2>4. /\ next_downtime_id' \in 1..MaxDowntimes + 1 /\ problem' \subseteq Objects /\ now' \in Times
        /\ scheduled_downtime_depth' \in [Objects -> Nat]
    BY <1>2 DEF IInv, TypeOK
  <2>5. pending_flex_downtime' \in [Objects -> Nat]
    BY <1>13, <1>15
  <2>6. queue' \subseteq Events
    BY <1>11
  <2> QED
    BY <2>1, <2>2, <2>3, <2>4, <2>5, <2>6 DEF TypeOK
<1>17. DepthAgrees'
  <2>1. \A o : For(o, InEffect)' = {}
    BY <1>9 DEF For
  <2> QED
    BY <1>2, <2>1, FS_EmptySet DEF DepthAgrees
<1>18. EventsStand'
  BY <1>5, <1>6, <1>8, <1>10 DEF EventsStand
<1>19. PendingCovers'
  <2>1. \A o \in Objects : pending_flex_downtime'[o] >= Cardinality(For(o, Counted(Live))')
    BY <1>13, <1>15
  <2> QED
    BY <2>1, <1>6, <1>9 DEF PendingCovers
<1>20. EventsInTime'
  <2>1. \A e \in queue' : e.id < next_downtime_id'
    BY <1>2, <1>11, Entries DEF IInv
  <2> QED
    BY <2>1, <1>11 DEF EventsInTime
<1> QED
  BY <1>2, <1>6, <1>8, <1>9, <1>16, <1>17, <1>18, <1>19, <1>20 DEF IInv

-----------------------------------------------------------------------------
\* The invariant.

\* It holds at the beginning.
LEMMA InitEstablishes == ASSUME Init PROVE IInv
<1>1. Live = {}
  BY DEF Init, Live
<1>2. InEffect = {} /\ Startable = {}
  BY <1>1 DEF InEffect, Startable
<1>3. \A o : For(o, InEffect) = {} /\ For(o, Counted(Live)) = {}
  BY <1>1, <1>2 DEF For, Counted
<1>4. TypeOK
  BY <1>1, DowntimeConstants DEF Init, TypeOK, Times
<1>5. DepthAgrees
  BY <1>3, FS_EmptySet DEF Init, DepthAgrees
<1>6. EventsStand /\ EventsInTime
  BY <1>1 DEF Init, EventsStand, EventsInTime
<1>7. PendingCovers
  BY <1>2, <1>3, FS_EmptySet DEF Init, PendingCovers
<1> QED
  BY <1>4, <1>5, <1>6, <1>7 DEF IInv

\* Every timed event keeps it.
LEMMA EventKeeps == ASSUME IInv, NEW e \in Due, handle_timed_event(e) PROVE IInv'
<1>1. e \in queue /\ e.at <= now
  BY DEF Due
<1>2. CASE e.kind = "start" /\ e.id \in Live
  BY <1>1, <1>2, StartEventKeeps DEF handle_timed_event
<1>3. CASE e.kind = "end" /\ e.id \in Live
  BY <1>1, <1>3, EndKeeps DEF handle_timed_event
<1>4. CASE e.kind = "expire"
  BY <1>1, <1>4, ExpireKeeps DEF handle_timed_event
<1>5. CASE e.kind # "expire" /\ e.id \notin Live
  BY <1>1, <1>5, StaleEventKeeps DEF handle_timed_event
<1> QED
  BY <1>2, <1>3, <1>4, <1>5 DEF handle_timed_event

\* Every step keeps it.
LEMMA NextKeeps == ASSUME IInv, [Next]_vars PROVE IInv'
<1>1. CASE UNCHANGED vars
  <2>1. /\ UNCHANGED <<downtime, next_downtime_id, problem, queue, now, restarts>>
        /\ UNCHANGED <<scheduled_downtime_depth, pending_flex_downtime>>
    BY <1>1 DEF vars, counters
  <2>2. Live' = Live /\ InEffect' = InEffect /\ Startable' = Startable
    BY <2>1 DEF Live, InEffect, Startable
  <2> QED
    BY <2>1, <2>2 DEF IInv, TypeOK, DepthAgrees, EventsStand, PendingCovers, EventsInTime, For, Counted
<1>2. ASSUME NEW o \in Objects, NEW request \in Requests, NEW trigger \in Ids \cup {NoTrigger},
             schedule_downtime(o, request, trigger)
      PROVE  IInv'
  BY <1>2, ScheduleKeeps
<1>3. ASSUME NEW D \in SUBSET Ids, unschedule_downtime(D) PROVE IInv'
  BY <1>3, CancelKeeps
<1>4. ASSUME NEW o \in Objects, NEW bad \in BOOLEAN, StateChange(o, bad) PROVE IInv'
  BY <1>4, StateChangeKeeps
<1>5. CASE RunEvent
  BY <1>5, EventKeeps DEF RunEvent
<1>6. CASE Tick
  BY <1>6, TickKeeps
<1>7. CASE Restart
  BY <1>7, RestartKeeps
<1> QED
  BY <1>1, <1>2, <1>3, <1>4, <1>5, <1>6, <1>7 DEF Next

\* The inductive invariant, for any downtimes on any objects.
THEOREM DowntimeInvariant == Spec => []IInv
<1>1. Init => IInv
  BY InitEstablishes
<1>2. IInv /\ [Next]_vars => IInv'
  BY NextKeeps
<1> QED
  BY <1>1, <1>2, PTL DEF Spec

\* Types, and triggers are older than what they trigger (register_downtime,
\* downtime_add).
THEOREM DowntimeTypes == Spec => []TypeOK
<1>1. IInv => TypeOK
  BY DEF IInv
<1> QED
  BY <1>1, DowntimeInvariant, PTL

\* The depth of an object is the number of its downtimes in effect
\* (handle_scheduled_downtime_start, handle_scheduled_downtime_end,
\* unschedule_downtime).
THEOREM DowntimeDepthAgrees == Spec => []DepthAgrees
<1>1. IInv => DepthAgrees
  BY DEF IInv
<1> QED
  BY <1>1, DowntimeInvariant, PTL

\* The entries point to events that are in the queue, and whatever is in effect
\* has the event that ends it.
THEOREM DowntimeEventsStand == Spec => []EventsStand
<1>1. IInv => EventsStand
  BY DEF IInv
<1> QED
  BY <1>1, DowntimeInvariant, PTL

\* A flexible downtime that may still start is counted or its start is scheduled.
THEOREM DowntimePendingCovers == Spec => []PendingCovers
<1>1. IInv => PendingCovers
  BY DEF IInv
<1> QED
  BY <1>1, DowntimeInvariant, PTL

-----------------------------------------------------------------------------
\* A downtime runs its time.

\* What a timed event takes from the list while it is in effect, and was not
\* triggered, is over.
LEMMA EventsEndInTime ==
    ASSUME IInv, NEW e \in Due, handle_timed_event(e), NEW d \in InEffect, downtime'[d] = Gone,
           downtime[d].triggered_by = NoTrigger
    PROVE  now = MaxTime \/ EndTime(downtime[d]) <= now
<1>1. /\ e \in queue /\ e.at <= now /\ now \in Times /\ e.at \in Times
      /\ d \in Live /\ d \in Ids /\ downtime[d] # Gone /\ Live \subseteq Ids
  BY DEF Due, IInv, TypeOK, Events, InEffect, Live
<1>2. CASE e.kind = "start" /\ e.id \in Live
  <2>1. handle_scheduled_downtime_start({e.id}, StartEventTaken(e.id), {e}) /\ UNCHANGED problem
    BY <1>2 DEF handle_timed_event
  <2>2. Live' = Live
    BY <1>1, <1>2, <2>1, StartEventKeeps, StartingChanges
  <2> QED
    BY <1>1, <2>2 DEF Live
<1>3. CASE e.kind = "end" /\ e.id \in Live
  <2>1. downtime' = Deleted(EndedWith({e.id}))
    BY <1>1, <1>3, EndKeeps DEF handle_timed_event
  <2>2. d \in EndedWith({e.id})
    BY <1>1, <2>1 DEF Deleted
  <2>3. d = e.id
    BY <1>1, <2>2, UntriggeredAreBegun DEF EndedWith
  <2>4. EndTime(downtime[d]) <= e.at \/ e.at = MaxTime
    BY <1>1, <1>3, <2>3 DEF IInv, EventsInTime
  <2>5. EndTime(downtime[d]) \in Int
    BY <1>1, Entries, EndTimes DEF IInv
  <2> QED
    BY <1>1, <2>4, <2>5, DowntimeConstants DEF Times
<1>4. CASE e.kind = "expire"
  <2>1. downtime' = Deleted(Expired)
    BY <1>4 DEF handle_timed_event, check_for_expired_downtime
  <2>2. d \in Expired
    BY <1>1, <2>1 DEF Deleted
  <2> QED
    BY <2>2 DEF Expired, Startable
<1>5. CASE e.kind # "expire" /\ e.id \notin Live
  <2>1. downtime' = downtime
    BY <1>5 DEF handle_timed_event
  <2> QED
    BY <1>1, <2>1
<1> QED
  BY <1>2, <1>3, <1>4, <1>5 DEF handle_timed_event

\* No timed event cuts short a downtime in effect ("The expire event will NOT
\* cancel a downtime event that is in effect", register_downtime), whatever
\* overlaps it.
THEOREM DowntimeRunsItsTime == Spec => RunsItsTime
<1> DEFINE A == RunEvent => \A d \in InEffect :
                    downtime'[d] = Gone /\ downtime[d].triggered_by = NoTrigger
                        => now = MaxTime \/ EndTime(downtime[d]) <= now
<1>1. IInv => A
  BY EventsEndInTime DEF RunEvent
<1>2. IInv /\ [Next]_vars => [A]_vars
  BY <1>1
<1>3. Spec => [][A]_vars
  BY <1>2, DowntimeInvariant, PTL DEF Spec
<1> QED
  BY <1>3 DEF RunsItsTime

-----------------------------------------------------------------------------
\* Downtimes keep their contract.

\* What the contract sees of a downtime, and of an object.
StatusOf(d) == IF d \in InEffect THEN "in effect"
               ELSE IF d \in Live THEN "waiting"
               ELSE IF d < next_downtime_id THEN "over" ELSE "unused"
AboutOf(d) == IF d \in Live
              THEN [object |-> downtime[d].object, trigger |-> downtime[d].triggered_by]
              ELSE [object |-> "none", trigger |-> NoTrigger]
Status == [d \in Ids |-> StatusOf(d)]
About == [d \in Ids |-> AboutOf(d)]
InDowntime(o) == scheduled_downtime_depth[o] > 0
Down == [o \in Objects |-> InDowntime(o)]

\* An object is in downtime while a downtime of it is in effect.
Shown(o) == \E d \in Ids : Status[d] = "in effect" /\ About[d].object = o
DownShown == Down = [o \in Objects |-> Shown(o)]

\* It is shown so.
LEMMA DownIsShown == IInv => DownShown
<1> SUFFICES ASSUME IInv PROVE DownShown
  OBVIOUS
<1>1. InEffect \subseteq Live /\ Live \subseteq Ids
  BY DEF InEffect, Live
<1>2. \A d \in Ids : Status[d] = "in effect" <=> d \in InEffect
  BY DEF Status, StatusOf
<1>3. \A d \in InEffect : About[d].object = downtime[d].object
  BY <1>1 DEF About, AboutOf
<1>4. ASSUME NEW o \in Objects
      PROVE  (scheduled_downtime_depth[o] > 0) <=> Shown(o)
  <2>1. scheduled_downtime_depth[o] = Cardinality(For(o, InEffect))
    BY DEF IInv, DepthAgrees
  <2>2. For(o, InEffect) \subseteq Ids
    BY <1>1 DEF For
  <2>3. IsFiniteSet(For(o, InEffect)) /\ Cardinality(For(o, InEffect)) \in Nat
    BY <2>2, SomeIds
  <2>4. Cardinality(For(o, InEffect)) = 0 <=> For(o, InEffect) = {}
    BY <2>3, FS_EmptySet
  <2>5. For(o, InEffect) # {} <=> \E d \in InEffect : downtime[d].object = o
    BY DEF For
  <2>6. Shown(o) <=> \E d \in InEffect : downtime[d].object = o
    BY <1>1, <1>2, <1>3 DEF Shown
  <2>7. (scheduled_downtime_depth[o] > 0) <=> For(o, InEffect) # {}
    BY <2>1, <2>3, <2>4
  <2> QED
    BY <2>5, <2>6, <2>7
<1>5. \A o \in Objects : InDowntime(o) <=> Shown(o)
  BY <1>4 DEF InDowntime
<1>6. \A o \in Objects : InDowntime(o) = Shown(o)
  <2>1. \A o : InDowntime(o) \in BOOLEAN
    BY DEF InDowntime
  <2>2. \A o : Shown(o) \in BOOLEAN
    BY DEF Shown
  <2> QED
    BY Zenon, <1>5, <2>1, <2>2
<1> QED
  BY <1>6 DEF Down, DownShown

\* What the contract calls current is listed.
LEMMA CurrentIsLive == {d \in Ids : Status[d] \in {"waiting", "in effect"}} = Live
BY DEF Status, StatusOf, Live, InEffect

\* Downtimes that are deleted are over.
LEMMA DeletedAreOver ==
    ASSUME IInv, IInv', NEW S, S \subseteq Live, downtime' = Deleted(S), Live' = Live \ S,
           InEffect' = InEffect \ S, next_downtime_id' = next_downtime_id
    PROVE  Contract!Over(S)
<1>1. InEffect \subseteq Live /\ Live \subseteq Ids
  BY DEF InEffect, Live
<1>2. \A d \in S : d < next_downtime_id
  BY Entries DEF IInv
<1>3. Status' = [d \in Ids |-> IF d \in S THEN "over" ELSE Status[d]]
  BY <1>1, <1>2 DEF Status, StatusOf
<1>4. \A d \in Live \ S : downtime'[d] = downtime[d]
  BY <1>1 DEF Deleted
<1>5. About' = [d \in Ids |-> IF d \in S THEN [object |-> "none", trigger |-> NoTrigger] ELSE About[d]]
  BY <1>1, <1>4 DEF About, AboutOf
<1>6. DownShown'
  BY DownIsShown, PTL
<1> QED
  BY <1>3, <1>5, <1>6
  DEF DownShown, Shown, Contract!Over, Contract!DownAgrees, Contract!Nothing, Status, About, Down, StatusOf, AboutOf,
      InDowntime

\* A step that starts those of S begins them.
LEMMA StartingBegins ==
    ASSUME IInv, IInv', NEW D, NEW before, NEW run, NEW S, S = TriggeredFrom(D, Startable),
           Prepares(before, run, S), handle_scheduled_downtime_start(D, before, run)
    PROVE  Contract!Next
<1>1. /\ S \subseteq Startable /\ Live' = Live /\ InEffect' = InEffect \cup S
      /\ \A d \in Live : Alike(downtime'[d], downtime[d])
  BY StartingChanges
<1>2. next_downtime_id' = next_downtime_id
  BY DEF handle_scheduled_downtime_start
<1>3. Startable = Live \ InEffect /\ Live \subseteq Ids /\ InEffect \subseteq Live
  BY DEF Startable, Live, InEffect
<1>4. \A d \in S : Status[d] = "waiting"
  BY <1>1, <1>3 DEF Status, StatusOf
<1>5. Status' = [d \in Ids |-> IF d \in S THEN "in effect" ELSE Status[d]]
  BY <1>1, <1>2, <1>3 DEF Status, StatusOf
<1>6. About' = About
  BY <1>1 DEF About, AboutOf, Alike
<1>7. DownShown'
  BY DownIsShown, PTL
<1>8. Contract!Begin(S)
  BY <1>4, <1>5, <1>6, <1>7
  DEF DownShown, Shown, Contract!Begin, Contract!DownAgrees, Status, About, Down, StatusOf, AboutOf,
      InDowntime
<1>9. S \in SUBSET Ids
  BY <1>1, <1>3
<1> QED
  BY <1>8, <1>9 DEF Contract!Next

\* What ends or is cancelled ends with all that it triggered.
LEMMA EndingEnds ==
    ASSUME IInv, IInv', NEW D, NEW S, S = EndedWith(D), S \subseteq Live, downtime' = Deleted(S),
           Live' = Live \ S, InEffect' = InEffect \ S, next_downtime_id' = next_downtime_id
    PROVE  Contract!Next
<1>1. Contract!Over(S)
  BY DeletedAreOver
<1>2. Contract!Current = Live
  BY CurrentIsLive DEF Contract!Current, Status, StatusOf
<1>3. \A d \in Live : downtime[d].triggered_by \in S => d \in S
  BY TriggeredAreVisited DEF EndedWith
<1>4. \A d \in Live : About[d].trigger \in S => d \in S
  BY <1>3 DEF About, AboutOf, Live
<1>5. Contract!End(S)
  BY <1>1, <1>2, <1>4 DEF Contract!End, About, AboutOf
<1>6. S \in SUBSET Ids
  BY DEF Live
<1> QED
  BY <1>5, <1>6 DEF Contract!Next

\* What expires was waiting.
LEMMA ExpiringExpires ==
    ASSUME IInv, IInv', NEW S, S = Expired, downtime' = Deleted(S), Live' = Live \ S,
           InEffect' = InEffect, next_downtime_id' = next_downtime_id
    PROVE  Contract!Next
<1>1. /\ S \subseteq Live /\ S \in SUBSET Ids /\ S \cap InEffect = {}
  BY DEF Expired, Startable, Live
<1>2. InEffect' = InEffect \ S
  BY <1>1
<1>3. Contract!Over(S)
  BY <1>1, <1>2, DeletedAreOver
<1>4. \A d \in S : Status[d] = "waiting"
  BY <1>1 DEF Status, StatusOf
<1>5. Contract!Expire(S)
  BY <1>3, <1>4 DEF Contract!Expire, Status, StatusOf
<1> QED
  BY <1>1, <1>5 DEF Contract!Next

\* Scheduling adds a downtime that waits.
LEMMA SchedulingSchedules ==
    ASSUME IInv, IInv', NEW o \in Objects, NEW request \in Requests,
           NEW trigger \in Ids \cup {NoTrigger}, schedule_downtime(o, request, trigger)
    PROVE  Contract!Next
<1> DEFINE n == next_downtime_id
<1>1. /\ n \in Ids \ Live /\ InEffect' = InEffect /\ Live' = Live \cup {n}
      /\ \A d \in Ids \ {n} : downtime'[d] = downtime[d]
      /\ downtime'[n].object = o /\ downtime'[n].triggered_by = trigger
  BY ScheduleKeeps
<1>2. next_downtime_id' = n + 1 /\ scheduled_downtime_depth' = scheduled_downtime_depth
  BY DEF schedule_downtime
<1>3. InEffect \subseteq Live /\ Live \subseteq Ids /\ Ids \subseteq Nat
  BY DEF InEffect, Live, Ids
<1>4. Status[n] = "unused"
  <2>1. n \notin Live /\ n \notin InEffect /\ ~(n < n) /\ n \in Ids
    BY <1>1, <1>3
  <2> QED
    BY <2>1 DEF Status, StatusOf
<1>5. \A d \in Ids \ {n} : d < n + 1 <=> d < n
  BY <1>1, <1>3
<1>6. n < n + 1 /\ n \in Ids
  BY <1>1, <1>3
<1>7. Status' = [d \in Ids |-> IF d = n THEN "waiting" ELSE Status[d]]
  BY <1>1, <1>2, <1>3, <1>5, <1>6 DEF Status, StatusOf
<1>8. About' = [d \in Ids |-> IF d = n THEN [object |-> o, trigger |-> trigger] ELSE About[d]]
  BY <1>1 DEF About, AboutOf
<1>9. Down' = Down
  BY <1>2 DEF Down, InDowntime
<1>10. Contract!Schedule(n, o, trigger)
  BY <1>4, <1>7, <1>8, <1>9
  DEF Contract!Schedule, Status, About, Down, StatusOf, AboutOf, InDowntime
<1> QED
  BY <1>1, <1>10 DEF Contract!Next

\* A restart leaves downtimes that wait.
LEMMA RestartingRestarts ==
    ASSUME IInv, IInv', Restart, NEW K, K = Live' PROVE Contract!Next
<1>1. /\ InEffect' = {} /\ K \subseteq Live /\ next_downtime_id' = next_downtime_id
      /\ \A d \in K : /\ downtime'[d].object = downtime[d].object
                      /\ downtime'[d].triggered_by = downtime[d].triggered_by
      /\ scheduled_downtime_depth' = [o \in Objects |-> 0]
  BY RestartKeeps
<1>2. InEffect \subseteq Live /\ Live \subseteq Ids /\ \A d \in Live : d < next_downtime_id
  BY Entries DEF InEffect, Live, IInv
<1>3. Contract!Current = Live
  BY CurrentIsLive DEF Contract!Current, Status, StatusOf
<1>4. Status' = [d \in Ids |-> IF d \in K THEN "waiting"
                               ELSE IF d \in Live THEN "over" ELSE Status[d]]
  BY <1>1, <1>2 DEF Status, StatusOf
<1>5. About' = [d \in Ids |-> IF d \in Live \ K THEN [object |-> "none", trigger |-> NoTrigger]
                              ELSE About[d]]
  BY <1>1, <1>2 DEF About, AboutOf
<1>6. Down' = [o \in Objects |-> FALSE]
  <2>1. \A o \in Objects : scheduled_downtime_depth'[o] = 0
    BY <1>1
  <2>2. \A o \in Objects : InDowntime(o)' = FALSE
    BY <2>1 DEF InDowntime
  <2> QED
    BY <2>2 DEF Down
<1>7. K \in SUBSET Ids
  BY <1>1, <1>2
<1>8. Contract!Restart(K)
  BY <1>1, <1>3, <1>4, <1>5, <1>6
  DEF Contract!Restart, Contract!Nothing, Status, About, Down, StatusOf, AboutOf, InDowntime
<1> QED
  BY <1>7, <1>8 DEF Contract!Next

\* The contract sees nothing of other steps.
LEMMA OthersStutter ==
    ASSUME UNCHANGED <<downtime, next_downtime_id, scheduled_downtime_depth>>
    PROVE  UNCHANGED Contract!vars
<1>1. Live' = Live /\ InEffect' = InEffect
  BY DEF Live, InEffect
<1>2. Status' = Status /\ About' = About
  BY <1>1 DEF Status, StatusOf, About, AboutOf
<1>3. Down' = Down
  BY DEF Down, InDowntime
<1> QED
  BY <1>2, <1>3 DEF Contract!vars, Status, StatusOf, About, AboutOf, Down, InDowntime

\* A timed event is a step of the contract.
LEMMA EventsImplement ==
    ASSUME IInv, IInv', NEW e \in Due, handle_timed_event(e)
    PROVE  [Contract!Next]_(Contract!vars)
<1>1. e \in queue /\ e.at <= now
  BY DEF Due
<1>2. CASE e.kind = "start" /\ e.id \in Live
  <2>1. handle_scheduled_downtime_start({e.id}, StartEventTaken(e.id), {e}) /\ UNCHANGED problem
    BY <1>2 DEF handle_timed_event
  <2> QED
    BY <1>1, <1>2, <2>1, StartEventKeeps, StartingBegins
<1>3. CASE e.kind = "end" /\ e.id \in Live
  <2>1. handle_scheduled_downtime_end(e.id, {e})
    BY <1>3 DEF handle_timed_event
  <2>2. next_downtime_id' = next_downtime_id
    BY <2>1 DEF handle_scheduled_downtime_end
  <2> QED
    BY <1>1, <1>3, <2>1, <2>2, EndKeeps, EndingEnds
<1>4. CASE e.kind = "expire"
  <2>1. check_for_expired_downtime({e})
    BY <1>4 DEF handle_timed_event
  <2>2. downtime' = Deleted(Expired) /\ next_downtime_id' = next_downtime_id
    BY <2>1 DEF check_for_expired_downtime
  <2> QED
    BY <1>1, <1>4, <2>1, <2>2, ExpireKeeps, ExpiringExpires
<1>5. CASE e.kind # "expire" /\ e.id \notin Live
  BY <1>5, OthersStutter DEF handle_timed_event, counters
<1> QED
  BY <1>2, <1>3, <1>4, <1>5 DEF handle_timed_event

\* Every step is one of the contract, or changes nothing it speaks of.
LEMMA StepsImplement ==
    ASSUME IInv, IInv', [Next]_vars
    PROVE  [Contract!Next]_(Contract!vars)
<1>1. CASE UNCHANGED vars
  BY <1>1, OthersStutter DEF vars, counters
<1>2. ASSUME NEW o \in Objects, NEW request \in Requests, NEW trigger \in Ids \cup {NoTrigger},
             schedule_downtime(o, request, trigger)
      PROVE  Contract!Next
  BY <1>2, SchedulingSchedules
<1>3. ASSUME NEW D \in SUBSET Ids, unschedule_downtime(D) PROVE Contract!Next
  <2>1. next_downtime_id' = next_downtime_id
    BY <1>3 DEF unschedule_downtime
  <2> QED
    BY <1>3, <2>1, CancelKeeps, EndingEnds
<1>4. ASSUME NEW o \in Objects, NEW bad \in BOOLEAN, StateChange(o, bad) PROVE Contract!Next
  BY <1>4, StateChangeKeeps, StartingBegins
<1>5. CASE RunEvent
  BY <1>5, EventsImplement DEF RunEvent
<1>6. CASE Tick
  BY <1>6, OthersStutter DEF Tick, counters
<1>7. CASE Restart
  BY <1>7, RestartingRestarts
<1> QED
  BY <1>1, <1>2, <1>3, <1>4, <1>5, <1>6, <1>7 DEF Next

\* Before anything is scheduled, nothing is.
LEMMA InitImplements == ASSUME Init PROVE Contract!Init
<1>1. Live = {} /\ InEffect = {} /\ \A d \in Ids : ~(d < next_downtime_id)
  BY DEF Init, Live, InEffect, Ids
<1>2. Status = [d \in Ids |-> "unused"]
  BY <1>1 DEF Status, StatusOf
<1>3. About = [d \in Ids |-> [object |-> "none", trigger |-> NoTrigger]]
  BY <1>1 DEF About, AboutOf
<1>4. Down = [o \in Objects |-> FALSE]
  <2>1. \A o \in Objects : InDowntime(o) = FALSE
    BY DEF Init, InDowntime
  <2> QED
    BY <2>1 DEF Down
<1> QED
  BY <1>2, <1>3, <1>4
  DEF Contract!Init, Contract!Nothing, Status, About, Down, StatusOf, AboutOf, InDowntime

\* Downtimes keep their contract, with any triggers and any restarts: what ends
\* or is cancelled takes along what it triggered, and the depth shows which
\* objects are in downtime.
THEOREM DowntimeImplementsContract == Spec => ImplementsContract
<1>1. Init => Contract!Init
  BY InitImplements
<1>2. IInv /\ IInv' /\ [Next]_vars => [Contract!Next]_(Contract!vars)
  BY StepsImplement
<1> QED
  BY <1>1, <1>2, DowntimeInvariant, PTL DEF Spec, ImplementsContract, Contract!Spec
=============================================================================
