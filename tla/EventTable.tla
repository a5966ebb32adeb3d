------------------------------ MODULE EventTable ------------------------------
(***************************************************************************)
(* The table of descriptors that event_process (event.c) polls while the   *)
(* main loop sleeps, and the callbacks it calls.  Its clients are the      *)
(* connections of libdbus, each with several watches of one descriptor     *)
(* (plugin_dbus.c), and the TeakLCM display, with one (drv_TeakLCM.c).     *)
(* Slots, poll entries and fds_id count from 1; no fds_id is 0.            *)
(***************************************************************************)
EXTENDS Naturals, Sequences, FiniteSets

CONSTANTS
    Watches,     \* what the clients register: a callback and its data
    Fd,          \* Fd[w] is the descriptor of watch w
    Kind,        \* Kind[w] is what it waits for, "read" or "write"
    MaxChanges   \* bound on the calls that add or change an entry

Fds == {Fd[w] : w \in Watches}
Kinds == {"read", "write"}

ASSUME EventAssumption ==
    /\ Kind \in [Watches -> Kinds]
    /\ DOMAIN Fd = Watches
    /\ MaxChanges \in Nat

VARIABLES
    events,      \* events, of length event_count
    registered,  \* the watches of the clients
    closing,     \* the descriptors that a client is just removing all watches of
    ready,       \* what each descriptor is ready for, <<descriptor, kind>>
    fds,         \* the pollfd array of event_process: descriptor and revents
    i, j,        \* the loop variables of event_process
    where,       \* in the main loop, in event_process, or in a callback of it
    changes,     \* counted for the bound
    toggled      \* history: event_modify was called

table == <<events, registered, closing, changes, toggled>>
pass == <<fds, i, j, where>>
eventVars == <<events, registered, closing, ready, fds, i, j, where, changes, toggled>>

\* An event_t; the clients pass the data for the callback.
Event == [data : Watches, fd : Fds, kind : Kinds, active : BOOLEAN, fds_id : Nat]

Pollfd == [fd : Fds, revents : SUBSET Kinds]

EventTypeOK ==
    /\ events \in Seq(Event)
    /\ registered \subseteq Watches
    /\ closing \subseteq Fds
    /\ ready \subseteq Fds \X Kinds
    /\ fds \in Seq(Pollfd)
    /\ i \in Nat \ {0} /\ j \in Nat \ {0}
    /\ where \in {"main", "scan", "callback"}
    /\ where = "callback" => j <= Len(fds)
    /\ where = "scan" => j <= Len(fds) + 1
    /\ changes \in 0 .. MaxChanges
    /\ toggled \in BOOLEAN

EventInit ==
    /\ events = <<>>
    /\ registered = {}
    /\ closing = {}
    /\ ready = {}
    /\ fds = <<>>
    /\ i = 1 /\ j = 1
    /\ where = "main"
    /\ changes = 0
    /\ toggled = FALSE

-----------------------------------------------------------------------------
(* The functions of event.c, as what they make of the table. *)

\* event_add
Added(w, active) ==
    Append(events, [data |-> w, fd |-> Fd[w], kind |-> Kind[w], active |-> active, fds_id |-> 0])

SlotsWith(fd) == {s \in DOMAIN events : events[s].fd = fd}

IsFirst(s, S) == s \in S /\ \A t \in S : s <= t

\* Variant for mutation: the last entry does not take the place of the one deleted.
DeletedLast(fd) == SubSeq(events, 1, Len(events) - 1)

\* event_del: the last entry takes the place of the first with fd.
Deleted(fd) ==
    [s \in 1 .. Len(events) - 1 |->
        IF IsFirst(s, SlotsWith(fd)) THEN events[Len(events)] ELSE events[s]]

\* event_modify: the first entry with fd is changed, and the last one lost.
Modified(fd, kind, active) ==
    [s \in 1 .. Len(events) - 1 |->
        IF IsFirst(s, SlotsWith(fd))
        THEN [events[s] EXCEPT !.kind = kind, !.active = active]
        ELSE events[s]]

-----------------------------------------------------------------------------
(* The clients, from timer callbacks in the main loop or from callbacks for  *)
(* events.                                                                   *)

InClient == where \in {"main", "callback"} /\ UNCHANGED <<ready, pass>>

Changing ==
    /\ InClient
    /\ closing = {}
    /\ changes < MaxChanges
    /\ changes' = changes + 1
    /\ UNCHANGED closing

\* add_watch and initial_connect_to_display_callback
EventAdd(w, active) ==
    /\ Changing
    /\ w \notin registered
    /\ registered' = registered \cup {w}
    /\ events' = Added(w, active)
    /\ UNCHANGED toggled

\* remove_watch: a client that removes a watch goes on until its descriptor has none.
\* event_del of an empty table is left out: nothing of it is defined after that.
EventDel(w) ==
    /\ InClient
    /\ w \in registered
    /\ closing \subseteq {Fd[w]}
    /\ events # <<>>
    /\ registered' = registered \ {w}
    /\ closing' = {Fd[v] : v \in registered \ {w}} \cap {Fd[w]}
    /\ events' = Deleted(Fd[w])
    /\ UNCHANGED <<changes, toggled>>

\* toggle_watch
EventModify(w, active) ==
    /\ Changing
    /\ w \in registered
    /\ events # <<>>
    /\ events' = Modified(Fd[w], Kind[w], active)
    /\ toggled' = TRUE
    /\ UNCHANGED registered

Clients ==
    \E w \in Watches :
        \/ \E active \in BOOLEAN : EventAdd(w, active) \/ EventModify(w, active)
        \/ EventDel(w)

\* A descriptor becomes ready: a message arrives, or there is room to send one.
BecomeReady ==
    /\ \E w \in Watches :
           /\ <<Fd[w], Kind[w]>> \notin ready
           /\ ready' = ready \cup {<<Fd[w], Kind[w]>>}
    /\ UNCHANGED <<table, pass>>

-----------------------------------------------------------------------------
(* event_process *)

PollId(s) == Cardinality({t \in 1 .. s : events[t].active})

\* What ppoll reports for an entry.
Reported(e) == {k \in {e.kind} : <<e.fd, k>> \in ready}

\* Up to the return of ppoll with a descriptor that is ready; where it returns for the
\* next timer instead, nothing of the pass is left.
EventProcess ==
    /\ where = "main"
    /\ closing = {}
    /\ events' = [s \in DOMAIN events |->
           [events[s] EXCEPT !.fds_id = IF events[s].active THEN PollId(s) ELSE 0]]
    /\ fds' = [n \in 1 .. Cardinality({s \in DOMAIN events : events[s].active}) |->
           LET e == events[CHOOSE s \in DOMAIN events : events[s].active /\ PollId(s) = n]
           IN  [fd |-> e.fd, revents |-> Reported(e)]]
    /\ \E n \in DOMAIN fds' : fds'[n].revents # {}
    /\ i' = 1 /\ j' = 1
    /\ where' = "scan"
    /\ UNCHANGED <<registered, closing, ready, changes, toggled>>

Scanning == where = "scan" /\ i <= Len(events)

\* Variant for mutation: j goes on only after a callback.
ScanStuck ==
    /\ Scanning
    /\ i' = i + 1
    /\ events[i].fds_id = j => fds[j].revents = {}
    /\ UNCHANGED <<j, table, ready, fds, where>>

\* An entry that was not polled, or not in this order, or is not ready.
ScanPast ==
    /\ Scanning
    /\ i' = i + 1
    /\ \/ events[i].fds_id # j /\ UNCHANGED j
       \/ events[i].fds_id = j /\ fds[j].revents = {} /\ j' = j + 1
    /\ UNCHANGED <<table, ready, fds, where>>

\* Variant for mutation: the next poll entry is taken to be this one's.
ScanCallNext ==
    /\ Scanning
    /\ events[i].active
    /\ j <= Len(fds) /\ fds[j].revents # {}
    /\ where' = "callback"
    /\ UNCHANGED <<table, ready, fds, i, j>>

ScanCall ==
    /\ Scanning
    /\ events[i].fds_id = j
    /\ fds[j].revents # {}
    /\ where' = "callback"
    /\ UNCHANGED <<table, ready, fds, i, j>>

\* The callback has dealt with what it was called for.
CallbackReturn ==
    /\ where = "callback"
    /\ closing = {}
    /\ ready' = ready \ ({fds[j].fd} \X fds[j].revents)
    /\ where' = "scan"
    /\ i' = i + 1
    /\ j' = j + 1
    /\ UNCHANGED <<table, fds>>

ScanEnd ==
    /\ where = "scan"
    /\ i > Len(events)
    /\ where' = "main"
    /\ fds' = <<>> /\ i' = 1 /\ j' = 1
    /\ UNCHANGED <<table, ready>>

Loop == EventProcess \/ ScanPast \/ ScanCall \/ CallbackReturn \/ ScanEnd

EventNext == Clients \/ BecomeReady \/ Loop

EventSpec == EventInit /\ [][EventNext]_eventVars

\* The main loop goes on: ppoll returns no later than the next timer, and a client
\* that closes a descriptor does so before it returns.
EventFairSpec ==
    EventSpec /\ WF_eventVars(Loop \/ (closing # {} /\ \E w \in Watches : EventDel(w)))

-----------------------------------------------------------------------------
\* event_add, event_del: between the calls of a client there is one entry for every
\* registered watch and none for another, though entries are found by their descriptor
\* and watches share it.  It is so until event_modify drops the last entry.
WatchesKept ==
    closing = {} /\ ~toggled =>
        /\ Len(events) = Cardinality(registered)
        /\ \A w \in registered : \E s \in DOMAIN events : events[s].data = w

\* event_process: a callback is only called with what ppoll reported for its own
\* descriptor, whatever the callbacks before it in the pass added, deleted and modified,
\* and until event_modify for a watch that its client has not freed.
OnlyReported ==
    [][where = "scan" /\ where' = "callback" =>
           /\ events[i].fd = fds[j].fd
           /\ toggled \/ events[i].data \in registered]_eventVars

\* event_process: what an entry waits for is dealt with in the end, as long as it is in
\* the table, also if deletions hide it from the rest of a pass.
ReadyIsHandled ==
    \A w \in Watches :
        LET Waiting == \E s \in DOMAIN events :
                events[s].data = w /\ events[s].active /\ Reported(events[s]) # {}
        IN  []<>~Waiting
=============================================================================
