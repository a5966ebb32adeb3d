---------------------------- MODULE WatchExtension ----------------------------
(***************************************************************************)
(* The phone's extension service for the watch: SWExtensionService over    *)
(* ExtensionService, and the SWControlExtension it keeps per host          *)
(* application.  An intent of a host application reaches the service in    *)
(* three steps, the system's start, onStartCommand, and a runner posted to *)
(* the main thread's looper; meanwhile the activity may stop the service,  *)
(* the service may stop itself, and the system may kill the process.       *)
(*                                                                         *)
(* The looper, the service bookkeeping of the system (start ids, restarts  *)
(* after a kill) and the host applications are Android and Sony code; they *)
(* are modelled from how the service uses them.                            *)
(***************************************************************************)
EXTENDS Integers, Sequences, FiniteSets

CONSTANTS
    Hosts,             \* host applications, each shows the control on an accessory
    NoHost,            \* of an intent that is about no host application
    UpdateAtCreation,  \* isSourcesToBeUpdatedAtServiceCreation
    MaxIntents,        \* bound on the intents sent
    MaxWaiting,        \* bound: no intent is sent when that many messages wait
    MaxInstances,      \* bound on the service objects created
    MaxMishaps         \* bound on how often the activity is left or the process killed

ASSUME WatchAssumption ==
    /\ NoHost \notin Hosts
    /\ UpdateAtCreation \in BOOLEAN
    /\ {MaxIntents, MaxWaiting, MaxInstances, MaxMishaps} \subseteq Nat

VARIABLES
    looper,     \* the messages the main thread has still to handle
    service,    \* the service object the system counts as started, 0 if none
    lastId,     \* the start id of its latest start
    made,       \* how many service objects there were
    insts,      \* the service objects of this process
    shown,      \* what each host application shows of the control
    connected,  \* is an accessory connected, the content of Sony's database
    activity,   \* is MainActivity open
    owed,       \* history: what became of the latest registration request
    sent, mishaps   \* counted for the bounds

watchVars == <<looper, service, lastId, made, insts, shown, connected, activity,
               owed, sent, mishaps>>

Instances == 1 .. MaxInstances
Registrations == {"REGISTER", "LOCALE"}
Connections == {"CONNECTED", "DISCONNECTED"}
Controls == {"START", "STOP", "RESUME", "PAUSE", "TOUCH", "ERROR", "UNKEYED"}
Intent(action, host) == [action |-> action, host |-> host]
\* What onStartCommand gets after a restart of a sticky service that has no intent left.
NullIntent == Intent("NULL", NoHost)

Create(i) == [kind |-> "create", inst |-> i]
Args(i, id, intent) == [kind |-> "args", inst |-> i, id |-> id, intent |-> intent]
Runner(i, id, intent) == [kind |-> "run", inst |-> i, id |-> id, intent |-> intent]
Destroy(i) == [kind |-> "destroy", inst |-> i]
Result(i) == [kind |-> "result", inst |-> i]

NoInstance ==
    [life |-> "none", controls |-> [h \in Hosts |-> "absent"], receivers |-> {},
     task |-> "none", pending |-> FALSE, update |-> FALSE, startId |-> 0]

-----------------------------------------------------------------------------
(* The control of one host application, in service object s. *)

\* onStart registers the image receiver.
StartControl(s, h) == [s EXCEPT !.controls[h] = "started", !.receivers = @ \cup {h}]
ResumeControl(s, h) == [s EXCEPT !.controls[h] = "foreground"]
PauseControl(s, h) == [s EXCEPT !.controls[h] = "started"]
\* onStop unregisters it.
StopControl(s, h) == [s EXCEPT !.controls[h] = "created", !.receivers = @ \ {h}]
RemoveControl(s, h) == [s EXCEPT !.controls[h] = "absent"]

\* destroy() stops a control that is not stopped yet.
Undestroyed(s) == {h \in Hosts : s.controls[h] \in {"started", "foreground"}}

\* destroyAllControls leaves the controls in the map.
DestroyAllControls(s) ==
    [s EXCEPT !.controls = [h \in Hosts |-> IF h \in Undestroyed(s) THEN "created" ELSE @[h]],
              !.receivers = @ \ Undestroyed(s)]

\* Variant for mutation: a control that had to be created is not resumed.
LookUpUnresumed(s, intent) ==
    IF s.controls[intent.host] # "absent" \/ intent.action \in {"STOP", "ERROR"} THEN s
    ELSE StartControl(s, intent.host)

\* The control an intent is for is created, unless the intent is about its end.
\* Any intent but start and pause is taken to mean that it is in the foreground.
LookUpControl(s, intent) ==
    IF s.controls[intent.host] # "absent" \/ intent.action \in {"STOP", "ERROR"} THEN s
    ELSE IF intent.action \in {"START", "PAUSE"} THEN StartControl(s, intent.host)
    ELSE ResumeControl(StartControl(s, intent.host), intent.host)

\* The intent of MainActivity carries no extension key and is turned away.
HandleControl(s, intent) ==
    LET h == intent.host
        found == LookUpControl(s, intent)
    IN  CASE intent.action = "UNKEYED" -> s
          [] intent.action = "STOP" /\ found.controls[h] # "absent" ->
                RemoveControl(StopControl(found, h), h)
          [] intent.action = "RESUME" -> ResumeControl(found, h)
          [] intent.action = "PAUSE" -> PauseControl(found, h)
          [] OTHER -> found

\* To unregister a receiver that is not registered is an IllegalArgumentException.
Throws(s, intent) ==
    intent.action = "STOP" /\ s.controls[intent.host] # "absent" /\ intent.host \notin s.receivers

-----------------------------------------------------------------------------
(* Registration with the host applications, and the end of the service. *)

\* Variant for mutation: the queued request is forgotten.
RegisterUnqueued(s, what) ==
    IF s.task # "none" THEN [s EXCEPT !.update = FALSE]
    ELSE [s EXCEPT !.update = FALSE, !.pending = FALSE, !.task = what]

\* A request during a registration is queued behind it.
RegisterOrUpdate(s, what) ==
    IF s.task # "none" THEN [s EXCEPT !.update = FALSE, !.pending = TRUE]
    ELSE [s EXCEPT !.update = FALSE, !.pending = FALSE, !.task = what]

\* stopSelfCheck: start the refresh of the sources that is still to come, or nothing ...
Checked(s) == IF s.task = "none" /\ s.update THEN RegisterOrUpdate(s, "sources") ELSE s

\* ... or stop the service, if it has no reason to run.
\* Neither has the extension widgets nor does it keep running when connected.
MayStop(s, isConnected) ==
    /\ s.task = "none"
    /\ ~s.update
    /\ isConnected => \A h \in Hosts : s.controls[h] = "absent"

\* A disconnection and a change of the locale ask the database, for all others an
\* accessory is taken to be connected.
AssumedConnected(intent) == intent.action \in {"DISCONNECTED", "LOCALE"} => connected

Handled(s, intent) ==
    CASE intent.action \in Registrations -> RegisterOrUpdate(s, "full")
      [] intent.action \in Controls -> HandleControl(s, intent)
      [] OTHER -> s

\* A registration request is followed by stopSelfCheck only when its task is done.
CheckedAfter(intent) == intent.action # "REGISTER"

-----------------------------------------------------------------------------
WatchInit ==
    /\ looper = <<>> /\ service = 0 /\ lastId = 0 /\ made = 0
    /\ insts = [i \in Instances |-> NoInstance]
    /\ shown = [h \in Hosts |-> "absent"]
    /\ connected = TRUE /\ activity = FALSE /\ owed = "nothing"
    /\ sent = 0 /\ mishaps = 0

\* startService: the system creates the service unless it is started, and counts the start.
StartService(intent) ==
    IF service = 0
    THEN /\ made < MaxInstances
         /\ made' = made + 1
         /\ service' = made + 1
         /\ lastId' = 1
         /\ looper' = looper \o <<Create(made + 1), Args(made + 1, 1, intent)>>
    ELSE /\ lastId' = lastId + 1
         /\ looper' = Append(looper, Args(service, lastId + 1, intent))
         /\ UNCHANGED <<service, made>>

\* SWExtensionReceiver passes an intent of a host application on to the service.
OnReceive(intent) ==
    /\ sent < MaxIntents /\ Len(looper) < MaxWaiting
    /\ sent' = sent + 1
    /\ StartService(intent)
    /\ UNCHANGED <<insts, activity, owed, mishaps>>

\* The host application moves the control from one of its states to another.
Shows(h, from, action, to) ==
    /\ shown[h] \in from
    /\ shown' = [shown EXCEPT ![h] = to]
    /\ OnReceive(Intent(action, h))
    /\ UNCHANGED connected

HostControl(h) ==
    \/ Shows(h, {"absent"}, "START", "started")
    \/ Shows(h, {"started"}, "RESUME", "foreground")
    \/ Shows(h, {"foreground"}, "PAUSE", "started")
    \/ Shows(h, {"started", "foreground"}, "STOP", "absent")
    \/ Shows(h, {"foreground"}, "TOUCH", "foreground")
    \/ Shows(h, {"started"}, "START", "started")
    \/ \E at \in {"started", "foreground"} : Shows(h, {at}, "ERROR", at)

\* A host application is installed, or the locale changes.
HostRegistration ==
    /\ \E action \in Registrations : OnReceive(Intent(action, NoHost))
    /\ UNCHANGED <<shown, connected>>

\* An accessory connects or disconnects.
HostConnection ==
    /\ connected' = ~connected
    /\ OnReceive(Intent(IF connected THEN "DISCONNECTED" ELSE "CONNECTED", NoHost))
    /\ UNCHANGED shown

\* MainActivity.onCreate
OpenActivity ==
    /\ ~activity /\ mishaps < MaxMishaps
    /\ activity' = TRUE
    /\ StartService(Intent("UNKEYED", NoHost))
    /\ UNCHANGED <<insts, shown, connected, owed, sent, mishaps>>

\* MainActivity.onDestroy stops the service, whatever it is doing.
CloseActivity ==
    /\ activity
    /\ activity' = FALSE
    /\ mishaps' = mishaps + 1
    /\ looper' = IF service = 0 THEN looper ELSE Append(looper, Destroy(service))
    /\ service' = 0
    /\ UNCHANGED <<lastId, made, insts, shown, connected, owed, sent>>

\* The positions in a set, in their order.
Ascending(S) ==
    {at \in [1 .. Cardinality(S) -> S] :
        /\ S = {at[k] : k \in DOMAIN at}
        /\ \A j, k \in DOMAIN at : j < k => at[j] < at[k]}

\* The process dies.  The system restarts a started service, with the starts that
\* onStartCommand has not seen, or else, but not after a crash, with a null intent.
Dies(unasked) ==
    LET unseen == {k \in DOMAIN looper : looper[k].kind = "args" /\ looper[k].inst = service}
    IN  /\ insts' = [i \in Instances |-> NoInstance]
        /\ activity' = FALSE
        /\ owed' = "nothing"
        /\ IF service # 0 /\ (unseen # {} \/ unasked)
           THEN /\ made < MaxInstances
                /\ made' = made + 1
                /\ service' = made + 1
                /\ lastId' = IF unseen = {} THEN lastId + 1 ELSE lastId
                /\ IF unseen = {}
                   THEN looper' = <<Create(made + 1), Args(made + 1, lastId + 1, NullIntent)>>
                   ELSE \E at \in Ascending(unseen) :
                            looper' = <<Create(made + 1)>>
                                         \o [k \in DOMAIN at |-> [looper[at[k]] EXCEPT !.inst = made + 1]]
           ELSE /\ service' = 0
                /\ looper' = <<>>
                /\ UNCHANGED <<made, lastId>>

Kill ==
    /\ mishaps < MaxMishaps
    /\ mishaps' = mishaps + 1
    /\ Dies(TRUE)
    /\ UNCHANGED <<shown, connected, sent>>

Crash ==
    /\ Dies(FALSE)
    /\ UNCHANGED <<shown, connected, sent, mishaps>>

-----------------------------------------------------------------------------
(* The main thread. *)

Message(kind) == looper # <<>> /\ Head(looper).kind = kind

OnCreate ==
    /\ Message("create")
    /\ looper' = Tail(looper)
    /\ insts' = [insts EXCEPT ![Head(looper).inst].life = "alive",
                              ![Head(looper).inst].update = UpdateAtCreation]
    /\ UNCHANGED <<service, lastId, made, shown, connected, activity, owed, sent, mishaps>>

\* onStartCommand of SWExtensionService looks at the intent before ExtensionService
\* sees to it that there is one.
OnStartCommand ==
    /\ Message("args")
    /\ LET m == Head(looper)
       IN  \/ /\ m.intent = NullIntent
              /\ Crash
           \/ /\ m.intent # NullIntent
              /\ looper' = Append(Tail(looper), Runner(m.inst, m.id, m.intent))
              /\ UNCHANGED <<service, lastId, made, insts, shown, connected, activity, owed,
                             sent, mishaps>>

\* Variant for mutation: a stopSelf that does not mind the start id.
StopsSelfAnyway(i, s) == service = i

\* stopSelf(startId) has an effect only for the system's
\* current service, and only if no start came after that of startId.
StopsSelf(i, s) == service = i /\ s.startId = lastId

\* Service object i becomes s, and stops itself.
Becomes(i, s, stops) ==
    /\ insts' = [insts EXCEPT ![i] = s]
    /\ IF stops /\ StopsSelf(i, s)
       THEN /\ service' = 0
            /\ looper' = Append(Tail(looper), Destroy(i))
       ELSE /\ looper' = Tail(looper)
            /\ UNCHANGED service
    /\ UNCHANGED <<lastId, made, shown, connected, activity, sent, mishaps>>

\* The runner posted by onStartCommand.  It runs even in a service that is destroyed.
HandleIntent ==
    /\ Message("run")
    /\ LET m == Head(looper)
           s == [insts[m.inst] EXCEPT !.startId = m.id]
           handled == Handled(s, m.intent)
           then == IF CheckedAfter(m.intent) THEN Checked(handled) ELSE handled
       IN  \/ /\ Throws(s, m.intent)
              /\ Crash
           \/ /\ ~Throws(s, m.intent)
              /\ Becomes(m.inst, then,
                         CheckedAfter(m.intent) /\ MayStop(handled, AssumedConnected(m.intent)))
              /\ owed' = IF s.life # "alive" \/ m.intent.action \notin Registrations THEN owed
                         ELSE IF s.task = "none" /\ then.task = "full" THEN "running"
                         ELSE "waiting"

\* The background thread is not done with the registration of service object i.
UnderWay(i) == insts[i].task # "none" /\ \A k \in DOMAIN looper : looper[k] # Result(i)

\* It is done, sooner or later or never: what else waits for the thread may come first.
TaskDone(i) ==
    /\ UnderWay(i)
    /\ looper' = Append(looper, Result(i))
    /\ UNCHANGED <<service, lastId, made, insts, shown, connected, activity, owed, sent,
                   mishaps>>

OnExtensionRegisterResult ==
    /\ Message("result")
    /\ LET i == Head(looper).inst
           s == [insts[i] EXCEPT !.task = "none"]
           then == IF s.pending THEN RegisterOrUpdate(s, "full") ELSE Checked(s)
           left == IF owed = "running" THEN "nothing" ELSE owed
       IN  /\ Becomes(i, then, ~s.pending /\ MayStop(s, connected))
           /\ owed' = IF s.life # "alive" THEN owed
                      ELSE IF left = "waiting" /\ then.task = "full" THEN "running"
                      ELSE left

\* The messages without the result of service object i, of which there is at most one.
Cancelled(waiting, i) ==
    IF \E k \in DOMAIN waiting : waiting[k] = Result(i)
    THEN LET at == CHOOSE k \in DOMAIN waiting : waiting[k] = Result(i)
         IN  [k \in 1 .. Len(waiting) - 1 |-> IF k < at THEN waiting[k] ELSE waiting[k + 1]]
    ELSE waiting

\* The registration is cancelled, its result is not delivered any more.
OnDestroy ==
    /\ Message("destroy")
    /\ LET i == Head(looper).inst
       IN  /\ insts' = [insts EXCEPT ![i] = [DestroyAllControls(@) EXCEPT !.life = "destroyed",
                                                                          !.task = "none"]]
           /\ looper' = Cancelled(Tail(looper), i)
    /\ owed' = "nothing"
    /\ UNCHANGED <<service, lastId, made, shown, connected, activity, sent, mishaps>>

MainThread ==
    \/ OnCreate \/ OnStartCommand \/ HandleIntent \/ OnExtensionRegisterResult \/ OnDestroy

Outside ==
    \/ \E h \in Hosts : HostControl(h)
    \/ HostRegistration \/ HostConnection
    \/ OpenActivity \/ CloseActivity
    \/ Kill

WatchNext == MainThread \/ Outside \/ \E i \in Instances : TaskDone(i)

WatchSpec == WatchInit /\ [][WatchNext]_watchVars

\* The main thread handles its messages.
WatchFairSpec == WatchSpec /\ WF_watchVars(MainThread)

-----------------------------------------------------------------------------
WatchTypeOK ==
    /\ looper \in Seq({Create(i) : i \in Instances} \cup {Destroy(i) : i \in Instances}
                      \cup {Result(i) : i \in Instances}
                      \cup [kind : {"args", "run"}, inst : Instances, id : Nat,
                            intent : [action : Registrations \cup Connections \cup Controls
                                               \cup {"NULL"}, host : Hosts \cup {NoHost}]])
    /\ service \in 0 .. made /\ made \in 0 .. MaxInstances /\ lastId \in Nat
    /\ insts \in [Instances ->
           [life : {"none", "alive", "destroyed"},
            controls : [Hosts -> {"absent", "created", "started", "foreground"}],
            receivers : SUBSET Hosts, task : {"none", "sources", "full"},
            pending : BOOLEAN, update : BOOLEAN, startId : Nat]]
    /\ shown \in [Hosts -> {"absent", "started", "foreground"}]
    /\ connected \in BOOLEAN /\ activity \in BOOLEAN
    /\ owed \in {"nothing", "waiting", "running"}
    /\ \A i \in Instances :
           insts[i].life = "alive" /\ insts[i].pending => insts[i].task # "none"

\* ExtensionService, handleControlIntent: whatever intents were lost with a process or
\* came to a service that was being destroyed, once the main thread is idle a control is
\* in the state its host application shows it in, and no control is left that it does not show.
ControlFollowsHost ==
    looper = <<>> /\ service # 0 =>
        \A h \in Hosts : insts[service].controls[h] \in {"absent", shown[h]}

\* SWControlExtension: the image receiver is registered exactly while the control of a
\* live service is started or in the foreground, so that it gets every image and
\* never unregisters what is not registered.
ReceiverHeld ==
    \A i \in Instances : insts[i].life = "alive" => insts[i].receivers = Undestroyed(insts[i])

\* ExtensionService, stopSelfCheck: an idle service with nothing on show does not stay.
NoIdleService ==
    looper = <<>> /\ service # 0 /\ insts[service].task = "none" =>
        \E h \in Hosts : insts[service].controls[h] # "absent"

Waits(m, i) == m.kind \in {"args", "run"} /\ m.inst = i

\* ExtensionService: a service that stops itself leaves no intent unhandled, no registration
\* unfinished, and no control on show while an accessory is connected.
StopsSelfAtRest ==
    [][service # 0 /\ service' = 0 /\ UNCHANGED mishaps =>
           /\ \A k \in DOMAIN looper' : ~Waits(looper'[k], service)
           /\ owed' = "nothing"
           /\ connected => \A h \in Hosts : insts'[service].controls[h] = "absent"]_watchVars

\* ExtensionService, registerOrUpdate: "Run this registration when we have finished the first
\* one": a request is followed by a full registration that begins after it and ends,
\* unless the service comes to its end before or the background thread is held up for
\* ever, as it is by a DataShifterGetter that no PC connects to.
RegistrationServed ==
    (\A i \in Instances : []<>~UnderWay(i)) => []<>(owed = "nothing")

\* ControlExtension, onDestroy: a control that is no longer used has cleaned up the
\* receivers it registered.
DestroyedHoldsNothing ==
    \A i \in Instances : insts[i].life = "destroyed" => insts[i].receivers = {}
=============================================================================
