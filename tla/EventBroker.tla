----------------------------- MODULE EventBroker -----------------------------
(***************************************************************************)
(* The event broker (base/nebmods.c), its modules and their callbacks,     *)
(* with the one module that is built in: NERD (base/nerd.c), whose         *)
(* channels register their callbacks while anybody is subscribed, and the  *)
(* connections of the query handler (base/query-handler.c) over which      *)
(* subscribers come and go.                                                *)
(*                                                                         *)
(* Modules are external.  They register and deregister their callbacks     *)
(* between events, and for the type of an event also from inside a         *)
(* callback that the event makes, while its list is walked; a callback may *)
(* cancel what follows it instead.  They are loaded and unloaded between   *)
(* events only: at the start, when one of them fails, and at the end.      *)
(***************************************************************************)
EXTENDS Integers, Sequences, FiniteSets, SequencesExt

CONSTANTS
    Modules,            \* loadable modules; each has one callback function
    Types,              \* callback types
    Priorities,
    Channels,           \* the channels of NERD, in the order of their ids
    TypesOf,            \* [channel -> the set of callback types it needs]
    MaxSd,              \* bound: socket numbers of query connections
    MaxEntries,         \* bound: entries of a callback list
    MaxTurns,           \* bound: callbacks that one event makes
    MaxConnections,     \* bound: connections that are counted
    MaxSubscriptions    \* bound: subscriptions of a channel

Sds == 1..MaxSd
NerdChannels == ToSet(Channels)
NerdPriority == 0

ASSUME BrokerConstants ==
    /\ Channels \in Seq(NerdChannels) /\ Modules \cap NerdChannels = {}
    /\ TypesOf \in [NerdChannels -> SUBSET Types]
    /\ Priorities \subseteq Int /\ MaxSd \in Nat /\ MaxTurns \in Nat

VARIABLES
    loaded,             \* modules
    neb_callback_list,  \* of each type, a sequence of [func, priority]
    subscriptions,      \* of each channel, a sequence of socket numbers
    peer,               \* of each socket number: "closed", "open" or "gone"
    qh_running,
    crashed

broker == <<loaded, neb_callback_list>>
brokerVars == <<broker, subscriptions, peer, qh_running, crashed>>

Funcs == Modules \cup NerdChannels
Entries == [func : Funcs, priority : Priorities \cup {NerdPriority}]

BrokerInit ==
    /\ loaded = {} /\ neb_callback_list = [t \in Types |-> <<>>]
    /\ subscriptions = [c \in NerdChannels |-> <<>>]
    /\ peer = [sd \in Sds |-> "closed"] /\ qh_running = 0 /\ crashed = FALSE

-----------------------------------------------------------------------------
\* Callback lists.

\* neb_register_callback: before the first of a larger number.
Registered(list, f, priority) ==
    LET before == SelectInSubSeq(list, 1, Len(list), LAMBDA e : priority < e.priority)
    IN InsertAt(list, IF before = 0 THEN Len(list) + 1 ELSE before, [func |-> f, priority |-> priority])

Position(list, f) == SelectInSeq(list, LAMBDA e : e.func = f)

\* Mutation of Deregistered: what is behind the entry goes with it.
DeregisteredToEnd(list, f) ==
    LET i == Position(list, f)
    IN IF i = 0 THEN list ELSE SubSeq(list, 1, i - 1)

\* neb_deregister_callback: the first entry of f; when it is the head, last_callback
\* is the head itself, and the list is taken for one of a single item.
Deregistered(list, f) ==
    LET i == Position(list, f)
    IN IF i = 0 THEN list ELSE IF i = 1 THEN <<>> ELSE RemoveAt(list, i)

\* Mutation of WithoutModule: the walk over a list stops at the first entry of m.
WithoutFirst(list, m) == Deregistered(list, m)

\* neb_deregister_module_callbacks: for one type, the walk over the list as it was.
WithoutModule(list, m) ==
    LET left[n \in 0..Len(list)] ==
            IF n = 0 THEN list
            ELSE IF list[n].func = m THEN Deregistered(left[n - 1], m) ELSE left[n - 1]
    IN left[Len(list)]

neb_register_callback(m, t, priority) ==
    /\ m \in loaded /\ Len(neb_callback_list[t]) < MaxEntries
    /\ neb_callback_list' = [neb_callback_list EXCEPT ![t] = Registered(@, m, priority)]
    /\ UNCHANGED <<loaded, subscriptions, peer, qh_running, crashed>>

neb_deregister_callback(m, t) ==
    /\ m \in loaded
    /\ neb_callback_list' = [neb_callback_list EXCEPT ![t] = Deregistered(@, m)]
    /\ UNCHANGED <<loaded, subscriptions, peer, qh_running, crashed>>

neb_load_module(m) ==
    /\ m \notin loaded
    /\ loaded' = loaded \cup {m}
    /\ UNCHANGED <<neb_callback_list, subscriptions, peer, qh_running, crashed>>

\* Also when the module's nebmodule_init has failed.
neb_unload_module(m) ==
    /\ m \in loaded
    /\ loaded' = loaded \ {m}
    /\ neb_callback_list' = [t \in Types |-> WithoutModule(neb_callback_list[t], m)]
    /\ UNCHANGED <<subscriptions, peer, qh_running, crashed>>

-----------------------------------------------------------------------------
\* Channels.  What NERD does is a function of the lists, the subscriptions and
\* the sockets, and of the walk of neb_make_callbacks over the list of a type:
\* rest is what the walk would still call, beginning with the entry whose
\* address it holds; stale says that this entry has been freed, and cut that the
\* list was emptied under the walk, which goes on over what was lost.

Outside == [lists |-> neb_callback_list, subs |-> subscriptions, peer |-> peer,
            type |-> "none", rest |-> <<>>, stale |-> FALSE, cut |-> FALSE]

\* nerd_deregister_channel_callbacks.  What is behind a head that is taken for the
\* only item is lost, but still linked.
WithoutCallbacks(st, c) ==
    LET walked == st.type \in TypesOf[c]
        linked == walked /\ Position(st.lists[st.type], c) > 1
        i == Position(st.rest, c)
    IN [st EXCEPT !.lists = [t \in Types |-> IF t \in TypesOf[c] THEN Deregistered(@[t], c) ELSE @[t]],
                  !.rest = IF linked /\ i > 1 THEN RemoveAt(@, i) ELSE @,
                  !.stale = @ \/ (linked /\ i = 1),
                  !.cut = @ \/ (walked /\ Position(st.lists[st.type], c) = 1)]

\* When nobody is subscribed (any more) the callbacks go.
DroppedIfUnused(st, c) == IF st.subs[c] # <<>> THEN st ELSE WithoutCallbacks(st, c)

\* The walk over the subscriptions of a channel, with those of sd taken out.
WithoutSubscriber(subs, sd) ==
    LET kept[n \in 0..Len(subs)] ==
            IF n = 0 THEN <<>>
            ELSE IF subs[n] = sd THEN kept[n - 1] ELSE Append(kept[n - 1], subs[n])
    IN kept[Len(subs)]

\* unsubscribe, and cancel_channel_subscription.
Unsubscribed(st, c, sd) ==
    DroppedIfUnused([st EXCEPT !.subs[c] = WithoutSubscriber(@, sd)], c)

\* nerd_cancel_subscriber.
Cancelled(st, sd) ==
    LET rid[n \in 0..Len(Channels)] ==
            IF n = 0 THEN st ELSE Unsubscribed(rid[n - 1], Channels[n], sd)
    IN [rid[Len(Channels)] EXCEPT !.peer[sd] = "closed"]

\* nerd_broadcast: it ends at a subscriber whose socket is full, and at one that
\* a send fails for, which is cancelled.
Broadcast(st, c, full) ==
    LET stops == SelectInSeq(st.subs[c], LAMBDA sd : st.peer[sd] # "open" \/ sd \in full)
    IN IF stops = 0 \/ st.peer[st.subs[c][stops]] = "open" THEN st
       ELSE Cancelled(st, st.subs[c][stops])

\* What a module does when its callback is called.
Doings == {<<"returns">>, <<"cancels">>, <<"deregisters">>} \cup ({"registers"} \X Priorities)

\* It deregisters: its first entry, which is the one that is running or before it.
Left(st, f) ==
    [st EXCEPT !.lists[st.type] = Deregistered(@, f),
               !.cut = @ \/ Position(st.lists[st.type], f) = 1]

\* It registers: the walk comes to the new entry when it is put behind the next one.
Joined(st, f, priority) ==
    [st EXCEPT !.lists[st.type] = Registered(@, f, priority),
               !.rest = IF ~st.cut /\ @ # <<>> /\ Head(@).priority <= priority
                        THEN Registered(@, f, priority) ELSE @]

\* A turn of the walk, which ends with the list or after a module that cancels.
\* What is read from a freed entry is what was there (lucky), or anything.
Turn(st, does, full, lucky) ==
    IF st.rest = <<>> \/ (st.stale /\ ~lucky) THEN st ELSE
    LET f == Head(st.rest).func
        on == [st EXCEPT !.rest = Tail(@), !.stale = FALSE]
    IN IF f \in NerdChannels THEN Broadcast(on, f, full)
       ELSE IF does[f] = <<"cancels">> THEN [on EXCEPT !.rest = <<>>]
       ELSE IF does[f] = <<"deregisters">> THEN Left(on, f)
       ELSE IF does[f] # <<"returns">> /\ Len(on.lists[on.type]) < MaxEntries
            THEN Joined(on, f, does[f][2]) ELSE on

Walk(st, does, full, lucky) ==
    LET after[n \in 0..MaxTurns] ==
            IF n = 0 THEN st ELSE Turn(after[n - 1], does, full, lucky)
    IN after[MaxTurns]

Become(st) == neb_callback_list' = st.lists /\ subscriptions' = st.subs /\ peer' = st.peer

\* An event of type t: neb_make_callbacks.
neb_make_callbacks(t, does, full, lucky) ==
    LET st == Walk([Outside EXCEPT !.type = t, !.rest = neb_callback_list[t]],
                   does, full, lucky)
    IN /\ st.rest = <<>> \/ (st.stale /\ ~lucky)
       /\ Become(st)
       /\ crashed' = (st.stale /\ ~lucky)
       /\ UNCHANGED <<loaded, qh_running>>

-----------------------------------------------------------------------------
\* Connections.

\* qh_input on the listening socket.
Accept ==
    \E sd \in Sds :
        /\ peer[sd] = "closed" /\ \A s \in Sds : peer[s] = "closed" => sd <= s
        /\ qh_running < MaxConnections
        /\ peer' = [peer EXCEPT ![sd] = "open"]
        /\ qh_running' = qh_running + 1
        /\ UNCHANGED <<broker, subscriptions, crashed>>

PeerCloses(sd) ==
    /\ peer[sd] = "open"
    /\ peer' = [peer EXCEPT ![sd] = "gone"]
    /\ UNCHANGED <<broker, subscriptions, qh_running, crashed>>

\* nerd_qh_handler: subscribe.
Subscribed(c, sd) ==
    LET st == IF subscriptions[c] = <<>>
              THEN [Outside EXCEPT !.lists = [t \in Types |-> IF t \in TypesOf[c]
                                               THEN Registered(@[t], c, NerdPriority) ELSE @[t]]]
              ELSE Outside
    IN [st EXCEPT !.subs[c] = <<sd>> \o @]

\* qh_input: a query to subscribe or unsubscribe, which keeps the connection or
\* is the only one (#).
Query(sd, c, subscribe, oneshot) ==
    LET st == IF subscribe THEN Subscribed(c, sd) ELSE Unsubscribed(Outside, c, sd)
    IN /\ peer[sd] # "closed"
       /\ subscribe => Len(subscriptions[c]) < MaxSubscriptions
       /\ Become(IF oneshot THEN [st EXCEPT !.peer[sd] = "closed"] ELSE st)
       /\ UNCHANGED <<loaded, qh_running, crashed>>

\* qh_input: a query that no handler answers, or one that is answered with an
\* error.
Refused(sd) ==
    /\ peer[sd] # "closed"
    /\ peer' = [peer EXCEPT ![sd] = "closed"]
    /\ UNCHANGED <<broker, subscriptions, qh_running, crashed>>

\* qh_input: nothing more to read.  Subscriptions are not looked at.
Disconnect(sd) ==
    /\ peer[sd] = "gone"
    /\ peer' = [peer EXCEPT ![sd] = "closed"]
    /\ qh_running' = qh_running - 1
    /\ UNCHANGED <<broker, subscriptions, crashed>>

-----------------------------------------------------------------------------
ModuleStep ==
    \E m \in Modules :
        \/ neb_load_module(m)
        \/ neb_unload_module(m)
        \/ \E t \in Types, p \in Priorities : neb_register_callback(m, t, p)
        \/ \E t \in Types : neb_deregister_callback(m, t)

ConnectionStep ==
    \/ Accept
    \/ \E sd \in Sds :
           \/ PeerCloses(sd)
           \/ \E c \in NerdChannels, subscribe, oneshot \in BOOLEAN : Query(sd, c, subscribe, oneshot)
           \/ Refused(sd)
           \/ Disconnect(sd)

\* The sockets that an event sends to: one may be full, and entries are freed when
\* a send to one that is not open fails.
Subscribers == UNION {ToSet(subscriptions[c]) : c \in NerdChannels}

EventStep ==
    \E t \in Types, does \in [loaded -> Doings] :
        \E full \in SUBSET {sd \in Subscribers : peer[sd] = "open"},
           lucky \in {TRUE} \cup {peer[sd] = "open" : sd \in Subscribers} :
            neb_make_callbacks(t, does, full, lucky)

BrokerNext == ~crashed /\ (ModuleStep \/ ConnectionStep \/ EventStep)

BrokerSpec == BrokerInit /\ [][BrokerNext]_brokerVars

-----------------------------------------------------------------------------
\* Properties.

\* Every variable has its type, and qh_running, which is unsigned, never counts
\* fewer than the connections there are (qh_input, nerd_cancel_subscriber).
BrokerTypeOK ==
    /\ loaded \subseteq Modules /\ crashed \in BOOLEAN
    /\ neb_callback_list \in [Types -> Seq(Entries)]
    /\ subscriptions \in [NerdChannels -> Seq(Sds)]
    /\ peer \in [Sds -> {"closed", "open", "gone"}]
    /\ qh_running \in Nat /\ qh_running >= Cardinality({sd \in Sds : peer[sd] # "closed"})

Listed(t, f) == Cardinality({i \in DOMAIN neb_callback_list[t] : neb_callback_list[t][i].func = f})

\* The code of a module that is not loaded is not in any list, whatever was
\* registered, lost and deregistered before, between events or from inside a
\* callback (neb_unload_module).
UnloadedAreSilent ==
    \A t \in Types, m \in Modules \ loaded : Listed(t, m) = 0

\* A channel that nobody subscribes to is not called, and one that somebody does
\* is called at most once for an event.
ChannelsCalledAtMostOnce ==
    \A t \in Types, c \in NerdChannels :
        Listed(t, c) <= IF subscriptions[c] = <<>> THEN 0 ELSE 1

\* A channel with subscribers stays in the list of a type, unless no channel does:
\* a deregistration takes an entry of its own, or with the head of the list all of
\* them, and not some of the others.  What is lost so is not registered again for as
\* long as there are subscribers.
LostOnlyTogether ==
    \A t \in Types, c \in NerdChannels :
        /\ Listed(t, c) = 1 /\ subscriptions'[c] # <<>> =>
               Listed(t, c)' = 1 \/ \A g \in NerdChannels : Listed(t, g)' = 0
        /\ Listed(t, c) = 0 /\ subscriptions[c] # <<>> /\ subscriptions'[c] # <<>> =>
               Listed(t, c)' = 0

\* How often the subscribers of a channel are told of an event: not more than once, once
\* until a deregistration has lost the channel and all others with it, and not at all
\* from then on until they are all gone (subscribe, nerd_cancel_subscriber,
\* neb_deregister_callback).
ChannelsCalledUntilLost ==
    /\ []ChannelsCalledAtMostOnce
    /\ [][LostOnlyTogether]_brokerVars

=============================================================================
