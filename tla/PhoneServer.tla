----------------------------- MODULE PhoneServer -----------------------------
(***************************************************************************)
(* The phone's activity (MainActivity) and its Bluetooth server around the *)
(* frame pipe.  The button starts a server, whose accept waits for the PC  *)
(* in a pool thread; an AsyncTask waits for the shifter that it returns    *)
(* and hands it over to the UI.  From then on the button pauses and        *)
(* resumes the shifter, and onDestroy stops it.                            *)
(*                                                                         *)
(* The activity comes and goes (the screen is turned), the process stays.  *)
(* Its fields belong to one activity, the button is static: it is the one  *)
(* of the latest activity.  Android runs AsyncTasks one after the other,   *)
(* those of the watch extension service in the same process included.      *)
(*                                                                         *)
(* Each activity may have a server, and lcd4linux may be started again and *)
(* connect to the next one.  The frame pipe is one of these connections,   *)
(* whichever; of the others, the module has what they do to the activity,  *)
(* its tasks and its button.                                               *)
(***************************************************************************)
EXTENDS FramePipe

CONSTANTS
    MaxActivities,   \* bound: activities that exist one after the other
    MaxRegisters     \* bound: registrations that the watch extension service asks for

ASSUME PhoneAssumption ==
    /\ MaxActivities \in Nat \ {0}
    /\ MaxRegisters \in Nat

Activities == 1..MaxActivities

VARIABLES
    activity,     \* "none" yet, "open" or "gone"
    button,       \* realServerButton: [enabled, checked]
    server,       \* bluetoothServer: "none", "accepting", "handed" over a shifter, "failed"
    dataShifter,  \* the field is set: the activities that know the shifter
    tasks,        \* AsyncTasks: the head runs in the one background thread
    results,      \* onPostExecutes that wait in the main thread's looper
    registers,    \* registrations that were asked for
    owner,        \* the activity whose server accepted the frame pipe, 0 if none has
    begun,        \* the activities whose DataShifter.run has set self
    crashed,      \* onDestroy threw a NullPointerException
    early         \* history: the owner's button was last used while its result was waiting

appVars == <<activity, button, server, dataShifter, tasks, results, registers, owner, begun, crashed, early>>
phoneServerVars == <<pipeVars, appVars>>

Getter(a) == [task |-> "getter", of |-> a]
Register == [task |-> "register", of |-> 0]
TaskSet   == {Getter(a) : a \in Activities} \cup {Register}

PhoneTypeOK ==
    /\ PipeTypeOK
    /\ activity \in [Activities -> {"none", "open", "gone"}]
    /\ button \in [enabled : BOOLEAN, checked : BOOLEAN]
    /\ server \in [Activities -> {"none", "accepting", "handed", "failed"}]
    /\ dataShifter \subseteq Activities
    /\ tasks \in Seq(TaskSet)
    /\ results \in Seq([of : Activities, shifter : BOOLEAN])
    /\ registers \in 0..MaxRegisters
    /\ owner \in Activities \cup {0}
    /\ begun \subseteq Activities
    /\ crashed \in BOOLEAN /\ early \in BOOLEAN

PhoneInit ==
    /\ PipeInit
    /\ activity = [a \in Activities |-> IF a = 1 THEN "open" ELSE "none"]
    /\ button = [enabled |-> TRUE, checked |-> FALSE]
    /\ server = [a \in Activities |-> "none"]
    /\ dataShifter = {}
    /\ tasks = <<>> /\ results = <<>> /\ registers = 0
    /\ owner = 0 /\ begun = {} /\ crashed = FALSE /\ early = FALSE

-----------------------------------------------------------------------------
(* The button. *)

\* The activities whose result onPostExecute has still to handle.
Waiting == {results[n].of : n \in DOMAIN results}

\* startRealServer: the phone must be paired with a computer and a watch.
StartRealServer(a, paired) ==
    IF paired
    THEN /\ server' = [server EXCEPT ![a] = "accepting"]
         /\ tasks' = Append(tasks, Getter(a))
    ELSE UNCHANGED <<server, tasks>>

\* Variant for mutation: resuming forgets to tell the shifter.
ToggleRealServerSilent(a, paired) ==
    /\ activity[a] = "open" /\ button.enabled /\ ~crashed
    /\ LET checked == ~button.checked
       IN  IF a \in dataShifter
           THEN /\ button' = [enabled |-> TRUE, checked |-> checked]
                /\ IF a = owner
                   THEN isPaused' = (~checked \/ isPaused) /\ early' = (a \in Waiting)
                   ELSE UNCHANGED <<isPaused, early>>
                /\ UNCHANGED <<server, tasks>>
           ELSE /\ button' = [enabled |-> FALSE, checked |-> FALSE]
                /\ IF checked /\ server[a] = "none"
                   THEN StartRealServer(a, paired)
                   ELSE UNCHANGED <<server, tasks>>
                /\ UNCHANGED <<isPaused, early>>
    /\ UNCHANGED <<pcVars, link, stream, shifter, buffer, broadcasts, watchVars,
                   activity, dataShifter, results, registers, owner, begun, crashed>>

\* toggleRealServer, after Android has turned the button over.  It stays disabled
\* unless there is a shifter to pause or to resume.
ToggleRealServer(a, paired) ==
    /\ activity[a] = "open" /\ button.enabled /\ ~crashed
    /\ LET checked == ~button.checked
       IN  IF a \in dataShifter
           THEN /\ button' = [enabled |-> TRUE, checked |-> checked]
                /\ IF a = owner
                   THEN isPaused' = ~checked /\ early' = (a \in Waiting)
                   ELSE UNCHANGED <<isPaused, early>>
                /\ UNCHANGED <<server, tasks>>
           ELSE /\ button' = [enabled |-> FALSE, checked |-> FALSE]
                /\ IF checked /\ server[a] = "none"
                   THEN StartRealServer(a, paired)
                   ELSE UNCHANGED <<server, tasks>>
                /\ UNCHANGED <<isPaused, early>>
    /\ UNCHANGED <<pcVars, link, stream, shifter, buffer, broadcasts, watchVars,
                   activity, dataShifter, results, registers, owner, begun, crashed>>

-----------------------------------------------------------------------------
(* The server's thread and the AsyncTasks. *)

\* The PC connects to a server that accepts; call starts the shifter's thread.  The
\* connection is the frame pipe ...
Accept(a) ==
    /\ Connect
    /\ server[a] = "accepting" /\ ~crashed
    /\ server' = [server EXCEPT ![a] = "handed"]
    /\ owner' = a
    /\ UNCHANGED <<activity, button, dataShifter, tasks, results, registers, begun, crashed, early>>

\* ... or that of another run of lcd4linux, before or after.
AcceptOther(a) ==
    /\ server[a] = "accepting" /\ ~crashed
    /\ server' = [server EXCEPT ![a] = "handed"]
    /\ UNCHANGED <<pipeVars, activity, button, dataShifter, tasks, results, registers, owner, begun, crashed, early>>

\* There is no server socket, or accept throws: Bluetooth is turned off.
AcceptFails(a) ==
    /\ server[a] = "accepting" /\ ~crashed
    /\ server' = [server EXCEPT ![a] = "failed"]
    /\ UNCHANGED <<pipeVars, activity, button, dataShifter, tasks, results, registers, owner, begun, crashed, early>>

\* DataShifter.run sets self and gets the stream.
Begin(a) ==
    /\ server[a] = "handed" /\ a \notin begun /\ ~crashed
    /\ begun' = begun \cup {a}
    /\ UNCHANGED <<pipeVars, activity, button, server, dataShifter, tasks, results, registers, owner, crashed, early>>

\* Variant for mutation: the result is handed over by the next AsyncTask only.
GetterStuck(a) ==
    /\ Len(tasks) > 1 /\ Head(tasks) = Getter(a) /\ ~crashed
    /\ server[a] \in {"handed", "failed"}
    /\ dataShifter' = IF server[a] = "handed" THEN dataShifter \cup {a} ELSE dataShifter
    /\ tasks' = Tail(tasks)
    /\ results' = Append(results, [of |-> a, shifter |-> server[a] = "handed"])
    /\ UNCHANGED <<pipeVars, activity, button, server, registers, owner, begun, crashed, early>>

\* doInBackground: the future is done, with a shifter or with none.
GetterEnds(a) ==
    /\ tasks # <<>> /\ Head(tasks) = Getter(a) /\ ~crashed
    /\ server[a] \in {"handed", "failed"}
    /\ dataShifter' = IF server[a] = "handed" THEN dataShifter \cup {a} ELSE dataShifter
    /\ tasks' = Tail(tasks)
    /\ results' = Append(results, [of |-> a, shifter |-> server[a] = "handed"])
    /\ UNCHANGED <<pipeVars, activity, button, server, registers, owner, begun, crashed, early>>

\* onPostExecute: the button comes back if there is a shifter.
OnPostExecute ==
    /\ results # <<>> /\ ~crashed
    /\ results' = Tail(results)
    /\ button' = IF Head(results).shifter THEN [enabled |-> TRUE, checked |-> TRUE] ELSE button
    /\ UNCHANGED <<pipeVars, activity, server, dataShifter, tasks, registers, owner, begun, crashed, early>>

\* The watch extension service executes a RegisterExtensionTask.
RequestRegistration ==
    /\ registers < MaxRegisters /\ ~crashed
    /\ registers' = registers + 1
    /\ tasks' = Append(tasks, Register)
    /\ UNCHANGED <<pipeVars, activity, button, server, dataShifter, results, owner, begun, crashed, early>>

RegistrationEnds ==
    /\ tasks # <<>> /\ Head(tasks) = Register /\ ~crashed
    /\ tasks' = Tail(tasks)
    /\ UNCHANGED <<pipeVars, activity, button, server, dataShifter, results, registers, owner, begun, crashed, early>>

-----------------------------------------------------------------------------
(* The activity comes and goes. *)

\* onCreate and onCreateView: a new button, which is enabled; Android restores whether
\* it was checked if the activity is created again.
OnCreate(a) ==
    /\ activity[a] = "none" /\ \A b \in Activities : b < a => activity[b] = "gone"
    /\ ~crashed
    /\ activity' = [activity EXCEPT ![a] = "open"]
    /\ button' \in {[enabled |-> TRUE, checked |-> c] : c \in {FALSE, button.checked}}
    /\ UNCHANGED <<pipeVars, server, dataShifter, tasks, results, registers, owner, begun, crashed, early>>

\* The process dies and with it its threads and their sockets.
Crash ==
    /\ crashed' = TRUE
    /\ IF link = "none" THEN UNCHANGED <<shifter, link>>
                        ELSE shifter' = "done" /\ link' = "down"

\* Variant for mutation: the thread is left running.
OnDestroyUnstopped(a) ==
    /\ activity[a] = "open" /\ ~crashed
    /\ activity' = [activity EXCEPT ![a] = "gone"]
    /\ UNCHANGED <<crashed, shifter, link>>
    /\ UNCHANGED <<pcVars, stream, buffer, isPaused, broadcasts, watchVars,
                   button, server, dataShifter, tasks, results, registers, owner, begun, early>>

\* Variant for mutation: the thread is interrupted, its stream is not closed.
OnDestroyHalf(a) ==
    /\ activity[a] = "open" /\ ~crashed
    /\ activity' = [activity EXCEPT ![a] = "gone"]
    /\ shifter' = IF a \in dataShifter /\ a = owner THEN "done" ELSE shifter
    /\ UNCHANGED <<crashed, link>>
    /\ UNCHANGED <<pcVars, stream, buffer, isPaused, broadcasts, watchVars,
                   button, server, dataShifter, tasks, results, registers, owner, begun, early>>

\* onDestroy stops the shifter that the activity knows: its thread is interrupted and
\* its stream closed.  A thread that has not begun has no self to interrupt.  A server
\* that still accepts is left alone.
OnDestroy(a) ==
    /\ activity[a] = "open" /\ ~crashed
    /\ activity' = [activity EXCEPT ![a] = "gone"]
    /\ IF a \in dataShifter /\ a \notin begun
       THEN Crash
       ELSE /\ IF a \in dataShifter /\ a = owner
               THEN shifter' = "done" /\ link' = "down"
               ELSE UNCHANGED <<shifter, link>>
            /\ UNCHANGED crashed
    /\ UNCHANGED <<pcVars, stream, buffer, isPaused, broadcasts, watchVars,
                   button, server, dataShifter, tasks, results, registers, owner, begun, early>>

-----------------------------------------------------------------------------
(* The frame pipe's own steps; its thread runs once it has begun. *)

PcStep == ConnectFails \/ Blit \/ Flush \/ Write \/ WriteFails \/ LinkBreaks

ShifterStep ==
    /\ owner \in begun
    /\ \/ \E n \in 1..Units : Read(n)
       \/ ReadEnd \/ ReadThrows \/ Check

PhoneNext ==
    \/ \E a \in Activities :
          \/ \E paired \in BOOLEAN : ToggleRealServer(a, paired)
          \/ Accept(a) \/ AcceptOther(a) \/ AcceptFails(a)
          \/ Begin(a) \/ GetterEnds(a)
          \/ OnCreate(a) \/ OnDestroy(a)
    \/ OnPostExecute \/ RequestRegistration \/ RegistrationEnds
    \/ (PcStep \/ ShifterStep \/ Deliver \/ StartStop) /\ UNCHANGED appVars

PhoneSpec == PhoneInit /\ [][PhoneNext]_phoneServerVars

\* The main thread handles what is posted, started threads run and AsyncTasks that can
\* end do.  Nothing is assumed of users and PCs, nor that accept ever returns.
PhoneFairness ==
    /\ WF_phoneServerVars(OnPostExecute)
    /\ WF_phoneServerVars(RegistrationEnds)
    /\ \A a \in Activities : WF_phoneServerVars(Begin(a)) /\ WF_phoneServerVars(GetterEnds(a))

PhoneFairSpec == PhoneSpec /\ PhoneFairness

-----------------------------------------------------------------------------
(* Properties. *)

\* The activity, its server and its tasks do to the frame pipe only what FramePipe says
\* that users of the phone do: connect once, pause, resume, stop.
PhoneUsesPipe == PipeSpec

\* MainActivity's button and DataShifter's flag are told apart by destroyed activities,
\* late results, restored buttons and other connections in one order of events only: a
\* late result of an older activity enables the static button while the open activity's
\* own result still waits, and the user has paused before onPostExecute checks the button
\* (MainActivity.java:320).  Otherwise, in an open activity that knows its shifter and has
\* handled its result, the button is checked unless the shifter is paused; and it is
\* again after the next press.
ButtonTellsPause ==
    owner \in dataShifter /\ activity[owner] = "open" /\ results = <<>> /\ ~early
        => button = [enabled |-> TRUE, checked |-> ~isPaused]

\* onDestroy (MainActivity.java:177) ends the shifter of its activity, whatever became of
\* servers, tasks and results before, but for one order of events: the activity goes
\* while the getter has still to hand the shifter over.  It then runs on for nobody.
Pending(task) == \E i \in DOMAIN tasks : tasks[i] = task
NoOrphan ==
    [][\A a \in Activities :
          activity[a] = "open" /\ activity'[a] = "gone" /\ owner = a /\ ~Pending(Getter(a))
              => shifter' = "done"]_phoneServerVars

\* No server waits for the PC: every accept that was started has returned.
AcceptsReturn == \A a \in Activities : server[a] # "accepting"

\* A user whose server took the PC gets the button back, and can pause, if older servers
\* do not go on waiting: their getters come first.
ButtonComesBack ==
    \A a \in Activities :
        []<>AcceptsReturn =>
            (server[a] = "handed" ~> button.enabled \/ activity[a] = "gone" \/ crashed)
=============================================================================
