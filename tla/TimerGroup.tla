------------------------------ MODULE TimerGroup ------------------------------
(***************************************************************************)
(* The timer groups of lcd4linux (timer_group.c): widgets that are updated *)
(* at the same interval share one generic timer of the queue, whose        *)
(* callback timer_process_group walks the table of widgets.  A widget's    *)
(* update may add the widget again, to the same or to another group, while *)
(* that walk is under way; a group whose last widget is gone is removed.   *)
(*                                                                         *)
(* A group's generic timer is known by the cell that holds the group's     *)
(* interval.  The cell belongs to a slot of the table of groups for good,  *)
(* so the slot number stands for it: Handlers is 1..MaxGroups.             *)
(***************************************************************************)
EXTENDS TimerQueue

CONSTANTS
    Rearming,      \* icons, GPOs, images: one-shot, added again by their update
    Periodic,      \* bars, texts
    Static,        \* texts that are updated once (or by a named event)
    MaxGroups,     \* group slots that realloc finds memory for
    MaxWidgets,    \* widget slots that realloc finds memory for
    Plentiful      \* bound: no widget asks for what memory is lacking for

Widgets == Rearming \cup Periodic \cup Static

ASSUME GroupHandlersAssumption == Handlers = 1..MaxGroups /\ Timeouts = {}
ASSUME GroupBoundsAssumption == /\ MaxGroups \in Nat
                                /\ MaxWidgets \in Nat
                                /\ Plentiful \in BOOLEAN
ASSUME StaticAssumption == Static # {} => 0 \in Intervals
\* A widget is of one class.
ASSUME KindsAssumption == Rearming \cap Periodic = {}

VARIABLES
    TimerGroups,         \* the groups; their number is nTimerGroups
    TimerGroupWidgets,   \* the widgets of all groups; nTimerGroupWidgets of them
    widget,              \* timer_process_group: the slot reached, 0 outside of it
    interval,            \* timer_process_group: the interval read on entry
    pending,             \* widgets whose init has not run yet
    updates              \* history: updates of each widget in this walk

groupVars == <<TimerGroups, TimerGroupWidgets, widget, interval, pending, updates>>
allVars == <<vars, groupVars>>

Group == [interval : Intervals, active : BOOLEAN]
GroupWidget == [widget : Widgets, interval : Intervals, one_shot : BOOLEAN,
                active : BOOLEAN]

GroupTypeOK ==
    /\ TypeOK
    /\ TimerGroups \in Seq(Group)
    /\ TimerGroupWidgets \in Seq(GroupWidget)
    /\ Len(TimerGroups) <= MaxGroups
    /\ widget \in Nat
    /\ interval \in Intervals \cup {-1}
    /\ pending \subseteq Widgets
    /\ updates \in [Widgets -> Nat]
    /\ widget > 0 => pc = "call"

-----------------------------------------------------------------------------
(* The functions of timer_group.c, as operators on the three tables.  They   *)
(* call each other within one step of the program.                           *)

Tables == [timers |-> Timers, groups |-> TimerGroups, widgets |-> TimerGroupWidgets]

\* The active slots of a table of groups or widgets that have interval i.
WithInterval(T, i) == {j \in ActiveSlots(T) : T[j].interval = i}

\* Of these, the one that a loop over the table finds first.
FirstWith(T, i) == {j \in WithInterval(T, i) : \A k \in WithInterval(T, i) : j <= k}

\* timer_group_exists
GroupExists(q, i) == WithInterval(q.groups, i) # {}

\* Whether timer_add_group succeeds.
GroupGranted(q, i) ==
    GroupExists(q, i) \/ (HasRoom(q.groups, MaxGroups) /\ HasRoom(q.timers, MaxTimers))

\* Variant for mutation: the group's timer is a one-shot timer.
LinkOnce(q, g, i) == [q EXCEPT !.timers = PlaceSlot(@, NewTimer(g, i, TRUE))]

\* Variant for mutation: the group's timer is first due after one interval.
LinkLater(q, g, i) ==
    [q EXCEPT !.timers = PlaceSlot(@, [NewTimer(g, i, FALSE) EXCEPT !.when = @ + i])]

\* The generic timer that calls group g is added to the queue.
Link(q, g, i) == [q EXCEPT !.timers = PlaceSlot(@, NewTimer(g, i, FALSE))]

\* timer_add_group: if the queue is out of memory the group stays, without timer.
AddGroup(q, i) ==
    IF GroupExists(q, i) \/ ~HasRoom(q.groups, MaxGroups) THEN q
    ELSE LET g  == PlaceAt(q.groups)
             q1 == [q EXCEPT !.groups = PlaceSlot(@, [interval |-> i, active |-> TRUE])]
         IN  IF HasRoom(q.timers, MaxTimers) THEN Link(q1, g, i) ELSE q1

\* timer_add_widget
AddWidget(q, w, i, once) ==
    LET q1 == AddGroup(q, i)
    IN  IF GroupGranted(q, i) /\ HasRoom(q.widgets, MaxWidgets)
        THEN [q1 EXCEPT !.widgets = PlaceSlot(@, [widget |-> w, interval |-> i,
                                                  one_shot |-> once, active |-> TRUE])]
        ELSE q1

\* Variant for mutation: another group is removed as well.
RemoveAllGroups(q, i) ==
    [q EXCEPT !.widgets = RetireSlots(@, WithInterval(@, i)),
              !.groups  = RetireSlots(@, ActiveSlots(@))]

\* timer_remove_group.  The generic timer of the group stays: timer_remove is
\* asked for the address of the pointer to the cell, which no timer has.
RemoveGroup(q, i) ==
    [q EXCEPT !.widgets = RetireSlots(@, WithInterval(@, i)),
              !.groups  = RetireSlots(@, FirstWith(@, i))]

\* Variant for mutation: the group is removed although it still has widgets.
RemoveFullGroup(q, i) == RemoveGroup(q, i)

\* timer_remove_empty_group
RemoveEmptyGroup(q, i) ==
    IF WithInterval(q.widgets, i) # {} THEN q ELSE RemoveGroup(q, i)

\* A one-shot widget is taken out of its group once it was updated.
Retired(q, slot) ==
    IF q.widgets[slot].one_shot
    THEN RemoveEmptyGroup([q EXCEPT !.widgets = RetireSlot(@, slot)], interval)
    ELSE q

\* The intervals widget w may ask for: widgets are asked for their speed anew by
\* every update of a rearming widget, a static text has update interval 0.
\* Nothing is asked for that memory is lacking for if that is Plentiful.
Asks(w) ==
    LET wanted == IF w \in Static THEN {0} ELSE Intervals \ {0}
    IN  {i \in wanted : Plentiful => /\ GroupGranted(Tables, i)
                                     /\ HasRoom(TimerGroupWidgets, MaxWidgets)}

SetTables(q) ==
    /\ Timers' = q.timers
    /\ TimerGroups' = q.groups
    /\ TimerGroupWidgets' = q.widgets

-----------------------------------------------------------------------------
GroupInit ==
    /\ Init
    /\ TimerGroups = <<>>
    /\ TimerGroupWidgets = <<>>
    /\ widget = 0
    /\ interval = -1
    /\ pending = Widgets
    /\ updates = [w \in Widgets |-> 0]

\* The layout creates a widget, whose init adds it to a timer group.
WidgetInit(w) ==
    /\ pc = "events"
    /\ w \in pending
    /\ \E i \in Asks(w) : SetTables(AddWidget(Tables, w, i, w \notin Periodic))
    /\ pending' = pending \ {w}
    /\ UNCHANGED <<clock, pc, timer, now, delay, setback, reused, widget, interval, updates>>

\* An icon may have speed 0 from the start, or a widget is not in the layout.
WidgetUnused(w) ==
    /\ pc = "events"
    /\ w \in pending
    /\ pending' = pending \ {w}
    /\ UNCHANGED <<vars, TimerGroups, TimerGroupWidgets, widget, interval, updates>>

\* timer_process calls timer_process_group, which reads the timer's cell.
GroupEnter ==
    /\ pc = "call"
    /\ widget = 0
    /\ widget' = 1
    /\ interval' = TimerGroups[Timers[timer].handler].interval
    /\ UNCHANGED <<vars, TimerGroups, TimerGroupWidgets, pending, updates>>

\* The widgets of the group that the walk has still to update, from a slot on.
WalkFrom(slot) == {j \in WithInterval(TimerGroupWidgets, interval) : j >= slot}

\* The walk updates the next widget of the group.  An update adds a rearming
\* widget again, unless its speed has become 0, and the slot is then retired.
GroupUpdate ==
    /\ pc = "call"
    /\ widget > 0
    /\ WalkFrom(widget) # {}
    /\ LET slot == FirstSlot(WalkFrom(widget))
           w == TimerGroupWidgets[slot].widget
       IN  /\ \/ SetTables(Retired(Tables, slot))
              \/ /\ w \in Rearming
                 /\ \E i \in Asks(w) : SetTables(Retired(AddWidget(Tables, w, i, TRUE), slot))
           /\ updates' = [updates EXCEPT ![w] = @ + 1]
           /\ widget' = slot + 1
    /\ UNCHANGED <<clock, pc, timer, now, delay, setback, reused, interval, pending>>

\* timer_process_group returns to timer_process.
GroupReturn ==
    /\ widget > 0
    /\ WalkFrom(widget) = {}
    /\ ProcessReturn
    /\ widget' = 0
    /\ interval' = -1
    /\ updates' = [w \in Widgets |-> 0]
    /\ UNCHANGED <<TimerGroups, TimerGroupWidgets, pending>>

\* The main loop goes on once the layout is complete.
MainLoop ==
    /\ pending = {}
    /\ \/ ProcessStart
       \/ ProcessCall
       \/ ProcessSelect
       \/ PollTimeout
       \/ PollReady
    /\ UNCHANGED groupVars

\* Time passes; start-up is over before the first millisecond.
Time == pending = {} /\ Tick /\ UNCHANGED groupVars

\* The layout is set up.
StartUp == \E w \in Widgets : WidgetInit(w) \/ WidgetUnused(w)

GroupNext ==
    \/ StartUp
    \/ GroupEnter
    \/ GroupUpdate
    \/ GroupReturn
    \/ MainLoop
    \/ Time
    \/ Stopped /\ UNCHANGED groupVars

GroupSpec == GroupInit /\ [][GroupNext]_allVars

\* Every function that was called goes on, and time passes.
GroupFairness ==
    /\ WF_allVars(StartUp)
    /\ WF_allVars(GroupEnter)
    /\ WF_allVars(GroupUpdate)
    /\ WF_allVars(GroupReturn)
    /\ WF_allVars(pending = {} /\ ProcessStart /\ UNCHANGED groupVars)
    /\ WF_allVars(pending = {} /\ ProcessCall /\ UNCHANGED groupVars)
    /\ WF_allVars(pending = {} /\ ProcessSelect /\ UNCHANGED groupVars)
    /\ WF_allVars(pending = {} /\ PollTimeout /\ UNCHANGED groupVars)
    /\ WF_allVars(Time)

GroupFairSpec == GroupSpec /\ GroupFairness

-----------------------------------------------------------------------------
(* Properties. *)

\* Widgets may change groups while a group is walked and groups come and go in
\* re-used slots; still every registered widget belongs to exactly one group, and
\* never twice to a table (timer_add_widget, timer_remove_empty_group).
WidgetsGrouped ==
    /\ \A j \in ActiveSlots(TimerGroupWidgets) :
          \E g \in ActiveSlots(TimerGroups) :
             WithInterval(TimerGroups, TimerGroupWidgets[j].interval) = {g}
    /\ \A j, k \in ActiveSlots(TimerGroupWidgets) :
          TimerGroupWidgets[j].widget = TimerGroupWidgets[k].widget => j = k

\* While memory lasts, every group has a generic timer that triggers it at its
\* own interval, although timers of removed groups linger in the queue.
GroupsLinked ==
    \A g \in ActiveSlots(TimerGroups) :
        \E i \in ActiveSlots(Timers) :
            /\ Timers[i].handler = g
            /\ Timers[i].interval = TimerGroups[g].interval
            /\ ~Timers[i].one_shot

\* While memory lasts, no group outlives its last widget.
NoEmptyGroup ==
    \A g \in ActiveSlots(TimerGroups) :
        WithInterval(TimerGroupWidgets, TimerGroups[g].interval) # {}

\* A walk comes to an end although updates add widgets in slots it has still to
\* reach: one widget may be updated a second time, and no other is.
WalkBounded ==
    /\ \A w \in Widgets : updates[w] <= 2
    /\ \A v, w \in Widgets : updates[v] = 2 /\ updates[w] = 2 => v = w

\* The timer groups use the queue as its specification allows, so that all that
\* is proved of it holds with any number of groups.
QueueSpec == Spec

\* The group of widget w is due, and no callback runs.
WidgetDue(w) ==
    pc # "call" /\ \E j \in ActiveSlots(TimerGroupWidgets), i \in ActiveSlots(Timers) :
        /\ TimerGroupWidgets[j].widget = w
        /\ Timers[i].when <= clock
        /\ TimerGroups[Timers[i].handler].interval = TimerGroupWidgets[j].interval

\* A widget whose group is due is updated, whatever the updates of others do.
WidgetServed == \A w \in Widgets : WidgetDue(w) ~> (pc = "call" /\ updates[w] > 0)

\* timer_group.c, timer_remove_group: a group that is removed is unlinked from the
\* timer queue, so that every generic timer calls a group that exists.
TimersOwned ==
    \A i \in ActiveSlots(Timers) : Timers[i].handler \in ActiveSlots(TimerGroups)

=============================================================================
