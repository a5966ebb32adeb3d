------------------------ MODULE WatchExtension_proofs ------------------------
(***************************************************************************)
(* Proofs about WatchExtension: whatever the order of intents, restarts    *)
(* and ends of the service, its controls end in the states the host        *)
(* applications show, and it stops itself only when nothing is left to do. *)
(***************************************************************************)
EXTENDS WatchExtension, SequenceTheorems, FiniteSetTheorems, WellFoundedInduction, TLAPS

HostStates == {"absent", "started", "foreground"}
ControlStates == HostStates \cup {"created"}
HostControls == {"START", "STOP", "RESUME", "PAUSE", "TOUCH", "ERROR"}

\* An intent is about a host application exactly when it is about a control.
Intents ==
    [action : HostControls, host : Hosts]
        \cup [action : Registrations \cup Connections \cup {"UNKEYED", "NULL"}, host : {NoHost}]

Notes == [kind : {"create", "destroy", "result"}, inst : Instances]
Carriers == [kind : {"args", "run"}, inst : Instances, id : Nat, intent : Intents]
Messages == Notes \cup Carriers

Objects ==
    [life : {"none", "alive", "destroyed"}, controls : [Hosts -> ControlStates],
     receivers : SUBSET Hosts, task : {"none", "sources", "full"},
     pending : BOOLEAN, update : BOOLEAN, startId : Nat]

\* The move of a host application that an intent tells of.
Moves(action, from, to) ==
    \/ action = "START" /\ from \in {"absent", "started"} /\ to = "started"
    \/ action = "RESUME" /\ from = "started" /\ to = "foreground"
    \/ action = "PAUSE" /\ from = "foreground" /\ to = "started"
    \/ action = "STOP" /\ from \in {"started", "foreground"} /\ to = "absent"
    \/ action = "TOUCH" /\ from = "foreground" /\ to = "foreground"
    \/ action = "ERROR" /\ from \in {"started", "foreground"} /\ to = from

-----------------------------------------------------------------------------
(* What the handlers make of a service object. *)

\* No control is stopped but kept, and exactly those that run hold a receiver.
Clean(s) == (\A h \in Hosts : s.controls[h] # "created") /\ s.receivers = Undestroyed(s)

\* Object t is object s but for its controls.
SameService(s, t) ==
    /\ t.life = s.life /\ t.task = s.task /\ t.pending = s.pending
    /\ t.update = s.update /\ t.startId = s.startId

\* Object t is object s but for the control of h, which is in state c.
Controlled(s, t, h, c) ==
    /\ t \in Objects
    /\ SameService(s, t)
    /\ t.controls[h] = c
    /\ \A g \in Hosts : g # h => t.controls[g] = s.controls[g]

\* A control that holds its receiver exactly while it runs goes on to do so.
LEMMA ControlledStaysClean ==
    ASSUME NEW s \in Objects, NEW t, NEW h \in Hosts, NEW c, Clean(s), Controlled(s, t, h, c),
           c # "created",
           t.receivers = IF c \in {"started", "foreground"} THEN s.receivers \cup {h}
                         ELSE s.receivers \ {h}
    PROVE  Clean(t)
BY DEF Clean, Undestroyed, Controlled, Objects

\* The steps of a control change that control alone; start registers its receiver,
\* stop unregisters it, resume and pause leave it.
LEMMA ControlSteps ==
    ASSUME NEW s \in Objects, NEW h \in Hosts
    PROVE  /\ Controlled(s, StartControl(s, h), h, "started")
           /\ StartControl(s, h).receivers = s.receivers \cup {h}
           /\ Controlled(s, ResumeControl(s, h), h, "foreground")
           /\ ResumeControl(s, h).receivers = s.receivers
           /\ Controlled(s, PauseControl(s, h), h, "started")
           /\ PauseControl(s, h).receivers = s.receivers
           /\ Controlled(s, StopControl(s, h), h, "created")
           /\ StopControl(s, h).receivers = s.receivers \ {h}
           /\ Controlled(s, RemoveControl(s, h), h, "absent")
           /\ RemoveControl(s, h).receivers = s.receivers
<1>1. s.receivers \cup {h} \in SUBSET Hosts /\ s.receivers \ {h} \in SUBSET Hosts
  BY DEF Objects
<1>2. /\ Controlled(s, StartControl(s, h), h, "started")
      /\ StartControl(s, h).receivers = s.receivers \cup {h}
  BY <1>1 DEF StartControl, Controlled, SameService, Objects, ControlStates, HostStates
<1>3. /\ Controlled(s, StopControl(s, h), h, "created")
      /\ StopControl(s, h).receivers = s.receivers \ {h}
  BY <1>1 DEF StopControl, Controlled, SameService, Objects, ControlStates, HostStates
<1>4. /\ Controlled(s, ResumeControl(s, h), h, "foreground")
      /\ ResumeControl(s, h).receivers = s.receivers
  BY DEF ResumeControl, Controlled, SameService, Objects, ControlStates, HostStates
<1>5. /\ Controlled(s, PauseControl(s, h), h, "started")
      /\ PauseControl(s, h).receivers = s.receivers
  BY DEF PauseControl, Controlled, SameService, Objects, ControlStates, HostStates
<1>6. /\ Controlled(s, RemoveControl(s, h), h, "absent")
      /\ RemoveControl(s, h).receivers = s.receivers
  BY DEF RemoveControl, Controlled, SameService, Objects, ControlStates, HostStates
<1> QED BY <1>2, <1>3, <1>4, <1>5, <1>6

\* Two steps of one control are one.
LEMMA ControlledTwice ==
    ASSUME NEW s, NEW t, NEW u, NEW h, NEW c, NEW d,
           Controlled(s, t, h, c), Controlled(t, u, h, d)
    PROVE  Controlled(s, u, h, d)
BY DEF Controlled, SameService

\* What has a control look like after an intent for it, when it looked like c before.
Answer(action, c) ==
    IF action = "STOP" THEN "absent"
    ELSE IF action = "PAUSE" THEN "started"
    ELSE IF action = "RESUME" THEN "foreground"
    ELSE IF action = "ERROR" \/ c # "absent" THEN c
    ELSE IF action = "START" THEN "started"
    ELSE "foreground"

\* handleControlIntent changes the control of the intent's host application alone, and
\* keeps receivers and running controls together.
LEMMA HostControlHandled ==
    ASSUME NEW s \in Objects, NEW h \in Hosts, NEW a \in HostControls
    PROVE  LET t == HandleControl(s, Intent(a, h))
           IN  /\ Controlled(s, t, h, Answer(a, s.controls[h]))
               /\ Clean(s) => Clean(t)
<1> DEFINE intent == Intent(a, h)
           c == s.controls[h]
           found == LookUpControl(s, intent)
           t == HandleControl(s, intent)
<1>0. intent.action = a /\ intent.host = h /\ c \in ControlStates
  BY DEF Intent, Objects
<1>c. /\ Controlled(s, s, h, c)
      /\ Clean(s) => s.receivers = IF c \in {"started", "foreground"} THEN s.receivers \cup {h}
                                   ELSE s.receivers \ {h}
      /\ Clean(s) => c # "created"
  BY DEF Controlled, SameService, Clean, Undestroyed
<1>1. CASE c # "absent" \/ a \in {"STOP", "ERROR"}
  <2>1. found = s
    BY <1>0, <1>1 DEF LookUpControl
  <2>2. CASE a = "STOP" /\ c # "absent"
    <3>1. t = RemoveControl(StopControl(s, h), h)
      BY <1>0, <2>1, <2>2 DEF HandleControl
    <3>2. /\ Controlled(s, StopControl(s, h), h, "created")
          /\ StopControl(s, h).receivers = s.receivers \ {h}
      BY ControlSteps
    <3>3. StopControl(s, h) \in Objects
      BY <3>2 DEF Controlled
    <3>4. /\ Controlled(StopControl(s, h), t, h, "absent")
          /\ t.receivers = s.receivers \ {h}
      BY <3>1, <3>2, <3>3, ControlSteps
    <3>5. Controlled(s, t, h, "absent")
      BY <3>2, <3>4, ControlledTwice
    <3>6. Answer(a, c) = "absent"
      BY <2>2 DEF Answer
    <3> QED BY <3>4, <3>5, <3>6, ControlledStaysClean
  <2>3. CASE a = "STOP" /\ c = "absent"
    <3>1. t = s /\ Answer(a, c) = c
      BY <1>0, <2>1, <2>3 DEF HandleControl, Answer
    <3> QED BY <3>1, <1>c
  <2>4. CASE a = "RESUME"
    <3>1. t = ResumeControl(s, h) /\ Answer(a, c) = "foreground" /\ c # "absent"
      BY <1>0, <1>1, <2>1, <2>4 DEF HandleControl, Answer
    <3>2. Controlled(s, t, h, "foreground") /\ t.receivers = s.receivers
      BY <3>1, ControlSteps
    <3>3. Clean(s) => c \in {"started", "foreground"}
      BY <3>1, <1>0, <1>c DEF ControlStates, HostStates
    <3> QED BY <3>1, <3>2, <3>3, <1>c, ControlledStaysClean
  <2>5. CASE a = "PAUSE"
    <3>1. t = PauseControl(s, h) /\ Answer(a, c) = "started" /\ c # "absent"
      BY <1>0, <1>1, <2>1, <2>5 DEF HandleControl, Answer
    <3>2. Controlled(s, t, h, "started") /\ t.receivers = s.receivers
      BY <3>1, ControlSteps
    <3>3. Clean(s) => c \in {"started", "foreground"}
      BY <3>1, <1>0, <1>c DEF ControlStates, HostStates
    <3> QED BY <3>1, <3>2, <3>3, <1>c, ControlledStaysClean
  <2>6. CASE a \in {"START", "TOUCH", "ERROR"}
    <3>1. t = s
      BY <1>0, <2>1, <2>6 DEF HandleControl
    <3>2. Answer(a, c) = c
      <4>1. CASE a = "ERROR"
        BY <4>1 DEF Answer
      <4>2. CASE a \in {"START", "TOUCH"}
        BY <1>1, <4>2 DEF Answer
      <4> QED BY <2>6, <4>1, <4>2
    <3> QED BY <3>1, <3>2, <1>c
  <2> QED BY <2>2, <2>3, <2>4, <2>5, <2>6 DEF HostControls
<1>2. CASE c = "absent" /\ a \in {"START", "PAUSE"}
  <2> DEFINE u == StartControl(s, h)
  <2>1. Controlled(s, u, h, "started") /\ u.receivers = s.receivers \cup {h}
    BY ControlSteps
  <2>2. Clean(s) => Clean(u)
    BY <2>1, ControlledStaysClean
  <2>3. Answer(a, c) = "started" /\ found = u
    BY <1>0, <1>2 DEF LookUpControl, Answer
  <2>4. CASE a = "START"
    <3>1. t = u
      BY <1>0, <2>3, <2>4 DEF HandleControl
    <3> QED BY <2>1, <2>2, <2>3, <3>1
  <2>5. CASE a = "PAUSE"
    <3>1. t = PauseControl(u, h)
      BY <1>0, <2>3, <2>5 DEF HandleControl
    <3>2. u \in Objects
      BY <2>1 DEF Controlled
    <3> HIDE DEF u
    <3>3. Controlled(u, t, h, "started") /\ t.receivers = u.receivers
      BY <3>1, <3>2, ControlSteps
    <3>4. Controlled(s, t, h, "started")
      BY <2>1, <3>3, ControlledTwice
    <3>5. t.receivers = s.receivers \cup {h}
      BY <2>1, <3>3
    <3> QED BY <2>3, <3>4, <3>5, ControlledStaysClean
  <2> QED BY <1>2, <2>4, <2>5
<1>3. CASE c = "absent" /\ a \in {"RESUME", "TOUCH"}
  <2> DEFINE u == StartControl(s, h)
             v == ResumeControl(u, h)
  <2>1. Controlled(s, u, h, "started") /\ u.receivers = s.receivers \cup {h}
    BY ControlSteps
  <2>2. u \in Objects
    BY <2>1 DEF Controlled
  <2>3. Answer(a, c) = "foreground" /\ found = v
    BY <1>0, <1>3 DEF LookUpControl, Answer
  <2> HIDE DEF u
  <2>4. Controlled(u, v, h, "foreground") /\ v.receivers = s.receivers \cup {h}
    BY <2>1, <2>2, ControlSteps
  <2>5. v \in Objects /\ Controlled(s, v, h, "foreground")
    BY <2>1, <2>4, ControlledTwice DEF Controlled
  <2> HIDE DEF v
  <2>6. Clean(s) => Clean(v)
    BY <2>4, <2>5, ControlledStaysClean
  <2>7. CASE a = "TOUCH"
    <3>1. t = v
      BY <1>0, <2>3, <2>7 DEF HandleControl
    <3> QED BY <2>3, <2>5, <2>6, <3>1
  <2>8. CASE a = "RESUME"
    <3>1. t = ResumeControl(v, h)
      BY <1>0, <2>3, <2>8 DEF HandleControl
    <3>2. Controlled(v, t, h, "foreground") /\ t.receivers = v.receivers
      BY <3>1, <2>5, ControlSteps
    <3>3. Controlled(s, t, h, "foreground")
      BY <2>5, <3>2, ControlledTwice
    <3>4. t.receivers = s.receivers \cup {h}
      BY <2>4, <3>2
    <3> QED BY <2>3, <3>3, <3>4, ControlledStaysClean
  <2> QED BY <1>3, <2>7, <2>8
<1> QED BY <1>1, <1>2, <1>3 DEF HostControls

\* A request starts a registration, or is queued behind the one that runs.
LEMMA RegisterFields ==
    ASSUME NEW s \in Objects, NEW what \in {"sources", "full"}
    PROVE  LET t == RegisterOrUpdate(s, what)
           IN  /\ t \in Objects
               /\ t.life = s.life /\ t.controls = s.controls /\ t.receivers = s.receivers
               /\ t.startId = s.startId
               /\ t.task = IF s.task = "none" THEN what ELSE s.task
               /\ t.pending <=> s.task # "none"
               /\ ~t.update
<1>1. CASE s.task = "none"
  <2>1. RegisterOrUpdate(s, what) = [s EXCEPT !.update = FALSE, !.pending = FALSE, !.task = what]
    BY <1>1 DEF RegisterOrUpdate
  <2> QED BY <1>1, <2>1 DEF Objects
<1>2. CASE s.task # "none"
  <2>1. RegisterOrUpdate(s, what) = [s EXCEPT !.update = FALSE, !.pending = TRUE]
    BY <1>2 DEF RegisterOrUpdate
  <2> QED BY <1>2, <2>1 DEF Objects
<1> QED BY <1>1, <1>2

\* stopSelfCheck starts at most the refresh of the sources that is still to come.
LEMMA CheckedFields ==
    ASSUME NEW s \in Objects
    PROVE  LET t == Checked(s)
           IN  /\ t \in Objects
               /\ t.life = s.life /\ t.controls = s.controls /\ t.receivers = s.receivers
               /\ t.startId = s.startId
               /\ s.task # "none" \/ ~s.update => t = s
               /\ s.task = "none" /\ s.update => t.task = "sources" /\ ~t.pending
<1>1. CASE s.task = "none" /\ s.update
  BY <1>1, RegisterFields DEF Checked
<1>2. CASE ~(s.task = "none" /\ s.update)
  BY <1>2 DEF Checked
<1> QED BY <1>1, <1>2

\* What the runner of an intent makes of the service object, and whether it stops it.
After(s, intent) ==
    IF CheckedAfter(intent) THEN Checked(Handled(s, intent)) ELSE Handled(s, intent)
Ends(s, intent) ==
    CheckedAfter(intent) /\ MayStop(Handled(s, intent), AssumedConnected(intent))

\* A request is queued only behind a registration that runs.
Queues(s) == s.pending => s.task # "none"

\* No control is left in any state but absent.
Cleared(s) == \A h \in Hosts : s.controls[h] = "absent"

\* What handleIntent does to the parts of a service object.
LEMMA HandledFields ==
    ASSUME NEW s \in Objects, NEW intent \in Intents
    PROVE  LET t == Handled(s, intent)
           IN  /\ t \in Objects
               /\ t.life = s.life /\ t.startId = s.startId
               /\ Clean(s) => Clean(t)
               /\ \A h \in Hosts : t.controls[h] = IF intent.host = h
                                                  THEN Answer(intent.action, s.controls[h])
                                                  ELSE s.controls[h]
               /\ IF intent.action \in Registrations
                  THEN /\ t.task = IF s.task = "none" THEN "full" ELSE s.task
                       /\ t.pending <=> s.task # "none"
                  ELSE t.task = s.task /\ t.pending = s.pending
<1> DEFINE t == Handled(s, intent)
           a == intent.action
<1>0. \/ a \in HostControls /\ intent.host \in Hosts /\ intent = Intent(a, intent.host)
      \/ a \in Registrations \cup Connections \cup {"UNKEYED", "NULL"} /\ intent.host = NoHost
  BY DEF Intents, Intent
<1>1. CASE a \in HostControls /\ intent.host \in Hosts /\ intent = Intent(a, intent.host)
  <2>1. a \notin Registrations /\ a \in Controls
    BY <1>1 DEF HostControls, Registrations, Controls
  <2>2. t = HandleControl(s, intent)
    BY <2>1 DEF Handled
  <2>3. PICK h \in Hosts : h = intent.host
    BY <1>1
  <2>4. HandleControl(s, intent) = HandleControl(s, Intent(a, h))
    BY <1>1, <2>3
  <2> HIDE DEF t, a
  <2>5. Controlled(s, t, h, Answer(a, s.controls[h])) /\ (Clean(s) => Clean(t))
    BY <1>1, <2>2, <2>4, HostControlHandled
  <2>6. /\ t \in Objects /\ SameService(s, t)
        /\ t.controls[h] = Answer(a, s.controls[h])
        /\ \A g \in Hosts : g # h => t.controls[g] = s.controls[g]
    BY <2>5 DEF Controlled
  <2> QED BY <2>1, <2>3, <2>5, <2>6 DEF SameService, a, t
<1>2. CASE a \in Registrations /\ intent.host = NoHost
  <2>1. t = RegisterOrUpdate(s, "full")
    BY <1>2 DEF Handled, Registrations, Controls
  <2>2. \A h \in Hosts : intent.host # h
    BY <1>2, WatchAssumption
  <2> HIDE DEF a
  <2>3. /\ t \in Objects
        /\ t.life = s.life /\ t.controls = s.controls /\ t.receivers = s.receivers
        /\ t.startId = s.startId
        /\ t.task = IF s.task = "none" THEN "full" ELSE s.task
        /\ t.pending <=> s.task # "none"
    BY <2>1, RegisterFields
  <2> HIDE DEF t
  <2>4. Clean(s) => Clean(t)
    BY <2>3 DEF Clean, Undestroyed
  <2> QED BY <1>2, <2>2, <2>3, <2>4 DEF a, t
<1>3. CASE a \in Connections \cup {"UNKEYED", "NULL"} /\ intent.host = NoHost
  <2>1. a \notin Registrations
    BY <1>3 DEF Connections, Registrations
  <2>2. t = s
    <3>1. CASE a = "UNKEYED"
      BY <2>1, <3>1 DEF Handled, HandleControl, Controls
    <3>2. CASE a \in Connections \cup {"NULL"}
      BY <2>1, <3>2 DEF Handled, Connections, Controls
    <3> QED BY <1>3, <3>1, <3>2
  <2>3. \A h \in Hosts : intent.host # h
    BY <1>3, WatchAssumption
  <2> QED BY <2>1, <2>2, <2>3
<1> QED BY <1>0, <1>1, <1>2, <1>3

\* What the runner of an intent does to the parts of a service object: a registration
\* goes on or begins, one that is queued stays so, and a service that is stopped has none
\* and, while an accessory is connected, no control.
LEMMA AfterFields ==
    ASSUME NEW s \in Objects, NEW intent \in Intents, connected \in BOOLEAN
    PROVE  LET t == After(s, intent)
           IN  /\ t \in Objects
               /\ t.life = s.life /\ t.startId = s.startId
               /\ Clean(s) => Clean(t)
               /\ \A h \in Hosts : t.controls[h] = IF intent.host = h
                                                  THEN Answer(intent.action, s.controls[h])
                                                  ELSE s.controls[h]
               /\ Queues(s) => Queues(t)
               /\ s.task # "none" => t.task # "none" /\ (s.pending => t.pending)
               /\ intent.action \in Registrations =>
                      /\ t.task # "none"
                      /\ s.task = "none" => t.task = "full"
                      /\ s.task # "none" => t.pending
               /\ Ends(s, intent) =>
                      /\ s.task = "none"
                      /\ intent.action \notin Registrations
                      /\ connected => Cleared(t)
               /\ ~Ends(s, intent) /\ t.task = "none" => ~Cleared(t)
<1> DEFINE u == Handled(s, intent)
           t == After(s, intent)
           a == intent.action
<1>1. /\ u \in Objects
      /\ u.life = s.life /\ u.startId = s.startId
      /\ Clean(s) => Clean(u)
      /\ \A h \in Hosts : u.controls[h] = IF intent.host = h
                                         THEN Answer(intent.action, s.controls[h])
                                         ELSE s.controls[h]
      /\ IF a \in Registrations
         THEN /\ u.task = IF s.task = "none" THEN "full" ELSE s.task
              /\ u.pending <=> s.task # "none"
         ELSE u.task = s.task /\ u.pending = s.pending
  BY HandledFields
<1>2. /\ t = IF a # "REGISTER" THEN Checked(u) ELSE u
      /\ Ends(s, intent) <=> a # "REGISTER" /\ MayStop(u, AssumedConnected(intent))
  BY DEF After, Ends, CheckedAfter
<1> HIDE DEF u, t
<1>3. /\ Checked(u) \in Objects
      /\ Checked(u).life = u.life /\ Checked(u).controls = u.controls
      /\ Checked(u).receivers = u.receivers
      /\ Checked(u).startId = u.startId
      /\ u.task # "none" \/ ~u.update => Checked(u) = u
      /\ u.task = "none" /\ u.update => Checked(u).task = "sources" /\ ~Checked(u).pending
  BY <1>1, CheckedFields
<1>4. /\ t \in Objects
      /\ t.life = u.life /\ t.controls = u.controls /\ t.receivers = u.receivers
      /\ t.startId = u.startId
      /\ u.task # "none" \/ ~u.update => t = u
      /\ a # "REGISTER" /\ u.task = "none" /\ u.update => t.task = "sources" /\ ~t.pending
      /\ a = "REGISTER" => t = u
  BY <1>1, <1>2, <1>3
<1>5. Clean(u) => Clean(t)
  BY <1>4 DEF Clean, Undestroyed
<1>6. (Queues(s) => Queues(u)) /\ (a \in Registrations => u.task # "none")
  <2>1. s.task \in {"none", "sources", "full"}
    BY DEF Objects
  <2> QED BY <1>1, <2>1 DEF Queues
<1>7. Queues(s) => Queues(t)
  <2>1. CASE u.task # "none" \/ ~u.update
    BY <1>4, <1>6, <2>1
  <2>2. CASE u.task = "none" /\ u.update
    <3>1. a # "REGISTER"
      BY <1>6, <2>2 DEF Registrations
    <3> QED BY <1>4, <2>2, <3>1 DEF Queues
  <2> QED BY <2>1, <2>2 DEF Objects
<1>8. s.task # "none" => t.task # "none" /\ (s.pending => t.pending)
  BY <1>1, <1>4
<1>9. a \in Registrations =>
          /\ t.task # "none"
          /\ s.task = "none" => t.task = "full"
          /\ s.task # "none" => t.pending
  BY <1>1, <1>4, <1>6
<1>10. Ends(s, intent) =>
           /\ s.task = "none"
           /\ a \notin Registrations
           /\ connected => Cleared(t)
  <2> SUFFICES ASSUME Ends(s, intent)
               PROVE  s.task = "none" /\ a \notin Registrations /\ (connected => Cleared(t))
    OBVIOUS
  <2>1. u.task = "none" /\ (AssumedConnected(intent) => Cleared(u))
    BY <1>2 DEF MayStop, Cleared
  <2>2. connected => AssumedConnected(intent)
    BY DEF AssumedConnected
  <2>3. Cleared(u) => Cleared(t)
    BY <1>4 DEF Cleared
  <2> QED BY <1>1, <1>6, <2>1, <2>2, <2>3
<1>11. ~Ends(s, intent) /\ t.task = "none" => ~Cleared(t)
  <2> SUFFICES ASSUME ~Ends(s, intent), t.task = "none" PROVE ~Cleared(t)
    OBVIOUS
  <2>1. u.task = "none" /\ ~u.update /\ a # "REGISTER"
    <3>1. u.task \in {"none", "sources", "full"} /\ u.update \in BOOLEAN
      BY <1>1 DEF Objects
    <3>2. a # "REGISTER"
      <4>1. SUFFICES ASSUME a = "REGISTER" PROVE FALSE
        OBVIOUS
      <4>2. a \in Registrations
        BY <4>1 DEF Registrations
      <4> QED BY <1>9, <4>2
    <3> QED BY <1>4, <3>1, <3>2
  <2>2. ~MayStop(u, AssumedConnected(intent))
    BY <1>2, <2>1
  <2>3. ~Cleared(u)
    BY <2>1, <2>2 DEF MayStop, Cleared
  <2> QED BY <1>4, <2>3 DEF Cleared
<1>12. /\ t \in Objects
       /\ t.life = s.life /\ t.startId = s.startId
       /\ Clean(s) => Clean(t)
       /\ \A h \in Hosts : t.controls[h] = IF intent.host = h
                                          THEN Answer(intent.action, s.controls[h])
                                          ELSE s.controls[h]
  BY <1>1, <1>4, <1>5
<1> QED BY <1>7, <1>8, <1>9, <1>10, <1>11, <1>12 DEF t

\* What the result of a registration makes of the service object, and whether it stops it.
Freed(s) == [s EXCEPT !.task = "none"]
Finished(s) == IF s.pending THEN RegisterOrUpdate(Freed(s), "full") ELSE Checked(Freed(s))
FinishEnds(s) == ~s.pending /\ MayStop(Freed(s), connected)

\* A finished registration is followed by the queued one, by the refresh of the sources,
\* by the end of the service or by nothing; nothing only while a control is kept.
LEMMA FinishedFields ==
    ASSUME NEW s \in Objects, connected \in BOOLEAN
    PROVE  LET t == Finished(s)
           IN  /\ t \in Objects
               /\ t.life = s.life /\ t.controls = s.controls /\ t.receivers = s.receivers
               /\ t.startId = s.startId
               /\ Queues(t)
               /\ s.pending => t.task = "full"
               /\ FinishEnds(s) => ~s.pending /\ (connected => Cleared(t))
               /\ ~FinishEnds(s) /\ t.task = "none" => ~Cleared(t)
<1> DEFINE u == Freed(s)
           t == Finished(s)
<1>1. /\ u \in Objects
      /\ u.life = s.life /\ u.controls = s.controls /\ u.receivers = s.receivers
      /\ u.startId = s.startId /\ u.task = "none" /\ u.pending = s.pending
      /\ u.update \in BOOLEAN /\ u.pending \in BOOLEAN
  BY DEF Freed, Objects
<1>2. /\ t = IF s.pending THEN RegisterOrUpdate(u, "full") ELSE Checked(u)
      /\ FinishEnds(s) <=> ~s.pending /\ MayStop(u, connected)
  BY DEF Finished, FinishEnds
<1> HIDE DEF u, t
<1>3. CASE s.pending
  <2>1. /\ t \in Objects
        /\ t.life = u.life /\ t.controls = u.controls /\ t.receivers = u.receivers
        /\ t.startId = u.startId
        /\ t.task = "full" /\ ~t.pending
    BY <1>1, <1>2, <1>3, RegisterFields
  <2>2. ~FinishEnds(s)
    BY <1>2, <1>3
  <2> QED BY <1>1, <2>1, <2>2 DEF Queues, t
<1>4. CASE ~s.pending
  <2>1. /\ t \in Objects
        /\ t.life = u.life /\ t.controls = u.controls /\ t.receivers = u.receivers
        /\ t.startId = u.startId
        /\ ~u.update => t = u
        /\ u.update => t.task = "sources" /\ ~t.pending
    BY <1>1, <1>2, <1>4, CheckedFields
  <2>2. Queues(t)
    BY <1>1, <1>4, <2>1 DEF Queues
  <2>3. MayStop(u, connected) <=> ~u.update /\ (connected => Cleared(u))
    BY <1>1 DEF MayStop, Cleared
  <2>4. Cleared(u) <=> Cleared(t)
    BY <2>1 DEF Cleared
  <2>5. FinishEnds(s) => (connected => Cleared(t))
    BY <1>2, <2>3, <2>4
  <2>6. ~FinishEnds(s) /\ t.task = "none" => ~Cleared(t)
    BY <1>1, <1>2, <1>4, <2>1, <2>3, <2>4
  <2>7. /\ t.life = s.life /\ t.controls = s.controls /\ t.receivers = s.receivers
        /\ t.startId = s.startId
    BY <1>1, <2>1
  <2> QED BY <1>4, <2>1, <2>2, <2>5, <2>6, <2>7 DEF t
<1> QED BY <1>1, <1>3, <1>4

-----------------------------------------------------------------------------
(* The queue of the main thread. *)

\* What the messages of a queue are made of.
LEMMA MessageFields ==
    ASSUME NEW m \in Messages
    PROVE  /\ m.inst \in Instances
           /\ m.kind \in {"create", "destroy", "result", "args", "run"}
           /\ m.kind \in {"args", "run"} => /\ m.id \in Nat /\ m.intent \in Intents
                                            /\ m = [kind |-> m.kind, inst |-> m.inst,
                                                    id |-> m.id, intent |-> m.intent]
           /\ m.kind \notin {"args", "run"} => m = [kind |-> m.kind, inst |-> m.inst]
<1>1. CASE m \in Notes
  BY <1>1 DEF Notes
<1>2. CASE m \in Carriers
  BY <1>2 DEF Carriers
<1> QED BY <1>1, <1>2 DEF Messages

\* The messages the program posts are messages.
LEMMA PostedMessages ==
    ASSUME NEW i \in Instances, NEW n \in Nat, NEW intent \in Intents
    PROVE  /\ Create(i) \in Messages /\ Destroy(i) \in Messages /\ Result(i) \in Messages
           /\ Args(i, n, intent) \in Messages /\ Runner(i, n, intent) \in Messages
           /\ Create(i).kind = "create" /\ Create(i).inst = i
           /\ Destroy(i).kind = "destroy" /\ Destroy(i).inst = i
           /\ Result(i).kind = "result" /\ Result(i).inst = i
           /\ Args(i, n, intent).kind = "args" /\ Args(i, n, intent).inst = i
           /\ Args(i, n, intent).id = n /\ Args(i, n, intent).intent = intent
           /\ Runner(i, n, intent).kind = "run" /\ Runner(i, n, intent).inst = i
           /\ Runner(i, n, intent).id = n /\ Runner(i, n, intent).intent = intent
BY DEF Create, Destroy, Result, Args, Runner, Messages, Notes, Carriers

\* Queue M is queue L without its head and without some of its results, in the order of L.
\* Position k of M is position f[k] of L.
Thins(L, M, f) ==
    /\ f \in [0 .. Len(M) -> 1 .. Len(L)]
    /\ f[0] = 1
    /\ \A j, k \in 0 .. Len(M) : j < k => f[j] < f[k]
    /\ \A k \in 1 .. Len(M) : M[k] = L[f[k]]
    /\ \A k \in 2 .. Len(L) : L[k].kind # "result" => \E j \in 1 .. Len(M) : f[j] = k
Thinned(L, M) ==
    /\ L \in Seq(Messages) /\ L # <<>> /\ M \in Seq(Messages)
    /\ \E f : Thins(L, M, f)

\* The tail of a queue is the queue without its head.
LEMMA TailThins ==
    ASSUME NEW L \in Seq(Messages), L # <<>>
    PROVE  /\ Thinned(L, Tail(L))
           /\ Head(L) = L[1] /\ L[1] \in Messages /\ 1 \in 1 .. Len(L)
           /\ Len(Tail(L)) = Len(L) - 1
           /\ \A k \in 1 .. Len(Tail(L)) : Tail(L)[k] = L[k + 1]
<1> DEFINE M == Tail(L)
           n == Len(L)
<1>1. /\ M \in Seq(Messages) /\ Len(M) = n - 1
      /\ \A k \in 1 .. Len(M) : M[k] = L[k + 1]
      /\ Head(L) = L[1] /\ Head(L) \in Messages
  BY HeadTailProperties
<1>2. n \in Nat /\ n # 0
  OBVIOUS
<1> DEFINE f == [k \in 0 .. n - 1 |-> k + 1]
<1> HIDE DEF M, n
<1>3. /\ f \in [0 .. n - 1 -> 1 .. n]
      /\ f[0] = 1
      /\ \A j, k \in 0 .. n - 1 : j < k => f[j] < f[k]
      /\ \A k \in 1 .. n - 1 : f[k] = k + 1
      /\ \A k \in 2 .. n : k - 1 \in 1 .. n - 1 /\ f[k - 1] = k
      /\ 1 \in 1 .. n
  BY <1>2
<1>4. \A k \in 1 .. Len(M) : M[k] = L[f[k]]
  BY <1>1, <1>3
<1> HIDE DEF f
<1>5. Thins(L, M, f)
  BY <1>1, <1>3, <1>4 DEF Thins, n
<1> QED BY <1>1, <1>3, <1>5 DEF Thinned, M, n

\* What is left when a service object is destroyed is the queue without its head and
\* without at most one result.
LEMMA CancelledThins ==
    ASSUME NEW L \in Seq(Messages), L # <<>>, NEW i \in Instances
    PROVE  Thinned(L, Cancelled(Tail(L), i))
<1> DEFINE M == Tail(L)
           C == Cancelled(M, i)
           n == Len(L)
<1>1. /\ Thinned(L, M) /\ Len(M) = n - 1 /\ n \in Nat /\ n # 0
      /\ \A k \in 1 .. Len(M) : M[k] = L[k + 1]
      /\ M \in Seq(Messages) /\ DOMAIN M = 1 .. Len(M)
  BY TailThins DEF Thinned
<1> HIDE DEF M, n
<1>2. CASE \E k \in DOMAIN M : M[k] = Result(i)
  <2> DEFINE at == CHOOSE k \in DOMAIN M : M[k] = Result(i)
  <2>1. at \in 1 .. n - 1 /\ M[at] = Result(i)
    BY <1>1, <1>2
  <2>2. C = [k \in 1 .. Len(M) - 1 |-> IF k < at THEN M[k] ELSE M[k + 1]]
    BY <1>2 DEF Cancelled
  <2> HIDE DEF at, C
  <2>3. Len(M) - 1 = n - 2 /\ n >= 2
    BY <1>1, <2>1
  <2>4. \A k \in 1 .. n - 2 : k \in 1 .. n - 1 /\ k + 1 \in 1 .. n - 1
    BY <1>1
  <2>5. \A k \in 1 .. n - 1 : M[k] \in Messages
    BY <1>1, ElementOfSeq
  <2>6. C \in [1 .. n - 2 -> Messages]
    BY <2>2, <2>3, <2>4, <2>5
  <2>7. C \in Seq(Messages) /\ Len(C) = n - 2
    <3>1. n - 2 \in Nat
      BY <1>1, <2>3
    <3>2. C = [k \in 1 .. n - 2 |-> C[k]] /\ \A k \in 1 .. n - 2 : C[k] \in Messages
      BY <2>6
    <3> QED BY <3>1, <3>2, IsASeq
  <2> DEFINE f == [k \in 0 .. n - 2 |-> IF k < at THEN k + 1 ELSE k + 2]
  <2>8. /\ f \in [0 .. n - 2 -> 1 .. n]
        /\ f[0] = 1
        /\ \A j, k \in 0 .. n - 2 : j < k => f[j] < f[k]
    BY <1>1, <2>1, <2>3
  <2>9. \A k \in 1 .. n - 2 : C[k] = L[f[k]]
    <3> SUFFICES ASSUME NEW k \in 1 .. n - 2 PROVE C[k] = L[f[k]]
      OBVIOUS
    <3>1. C[k] = IF k < at THEN M[k] ELSE M[k + 1]
      BY <2>2, <2>3
    <3>2. M[k] = L[k + 1] /\ M[k + 1] = L[k + 1 + 1]
      BY <1>1, <2>4
    <3>3. k + 1 + 1 = k + 2 /\ k \in 0 .. n - 2
      OBVIOUS
    <3>4. f[k] = IF k < at THEN k + 1 ELSE k + 2
      BY <3>3
    <3> QED BY <3>1, <3>2, <3>3, <3>4
  <2>10. ASSUME NEW k \in 2 .. n, L[k].kind # "result" PROVE \E j \in 1 .. n - 2 : f[j] = k
    <3>1. k # at + 1
      <4>1. at + 1 = k => M[at] = L[k]
        BY <1>1, <2>1
      <4> QED BY <2>1, <2>10, <4>1, PostedMessages DEF Result
    <3>2. CASE k < at + 1
      <4>1. k - 1 \in 1 .. n - 2 /\ k - 1 < at /\ k - 1 \in 0 .. n - 2 /\ (k - 1) + 1 = k
        BY <1>1, <2>1, <3>2
      <4> QED BY <4>1
    <3>3. CASE k > at + 1
      <4>1. k - 2 \in 1 .. n - 2 /\ ~(k - 2 < at) /\ k - 2 \in 0 .. n - 2 /\ (k - 2) + 2 = k
        BY <1>1, <2>1, <3>3
      <4> QED BY <4>1
    <3>4. k \in Int /\ at + 1 \in Int
      BY <2>1
    <3> QED BY <3>1, <3>2, <3>3, <3>4
  <2> HIDE DEF f
  <2>11. Thins(L, C, f)
    BY <2>7, <2>8, <2>9, <2>10 DEF Thins, n
  <2> QED BY <2>7, <2>11 DEF Thinned, C, M
<1>3. CASE ~ \E k \in DOMAIN M : M[k] = Result(i)
  <2>1. C = M
    BY <1>3 DEF Cancelled
  <2> QED BY <1>1, <2>1 DEF C, M
<1> QED BY <1>2, <1>3

\* What a queue holds when a message was put behind it.
LEMMA AppendHolds ==
    ASSUME NEW L \in Seq(Messages), NEW m \in Messages
    PROVE  /\ Append(L, m) \in Seq(Messages)
           /\ Len(Append(L, m)) = Len(L) + 1 /\ Len(L) \in Nat
           /\ \A k \in 1 .. Len(L) : Append(L, m)[k] = L[k]
           /\ Append(L, m)[Len(L) + 1] = m
           /\ \A k \in 1 .. Len(L) + 1 : k \in 1 .. Len(L) \/ k = Len(L) + 1
BY AppendProperties

\* What a thinned queue holds.
LEMMA ThinnedHolds ==
    ASSUME NEW L, NEW M, Thinned(L, M)
    PROVE  /\ \A k \in 1 .. Len(M) : \E j \in 1 .. Len(L) : j # 1 /\ M[k] = L[j]
           /\ \A k \in 1 .. Len(L) : k # 1 /\ L[k].kind # "result" =>
                  \E j \in 1 .. Len(M) : M[j] = L[k]
<1>1. PICK f : Thins(L, M, f)
  BY DEF Thinned
<1>2. Len(L) \in Nat /\ Len(M) \in Nat
  BY DEF Thinned
<1>3. ASSUME NEW k \in 1 .. Len(M) PROVE f[k] \in 1 .. Len(L) /\ f[k] # 1 /\ M[k] = L[f[k]]
  <2>1. k \in 0 .. Len(M) /\ 0 \in 0 .. Len(M) /\ 0 < k
    BY <1>2
  <2>2. f[k] \in 1 .. Len(L) /\ f[0] < f[k] /\ f[0] = 1 /\ M[k] = L[f[k]]
    BY <1>1, <2>1 DEF Thins
  <2> QED BY <2>2
<1>4. ASSUME NEW k \in 1 .. Len(L), k # 1, L[k].kind # "result"
      PROVE  \E j \in 1 .. Len(M) : M[j] = L[k]
  <2>1. k \in 2 .. Len(L)
    BY <1>2, <1>4
  <2>2. PICK j \in 1 .. Len(M) : f[j] = k
    BY <1>1, <1>4, <2>1 DEF Thins
  <2> QED BY <1>3, <2>2
<1> QED BY <1>3, <1>4

\* Messages of a service object wait behind its creation, and service objects are created
\* and destroyed in the order of their numbers, of which n is the last.
Ranked(L, n) ==
    /\ \A k \in 1 .. Len(L) : L[k].inst <= n
    /\ \A j, k \in 1 .. Len(L) : j < k =>
          /\ L[k].kind = "create" => L[j].inst < L[k].inst
          /\ L[k].kind = "destroy" /\ L[j].kind = "create" => L[j].inst <= L[k].inst
          /\ L[k].kind = "destroy" /\ L[j].kind = "destroy" => L[j].inst < L[k].inst

\* Taking messages away keeps that order.
LEMMA ThinnedRanked ==
    ASSUME NEW L, NEW M, Thinned(L, M), NEW n \in Nat, Ranked(L, n)
    PROVE  Ranked(M, n)
<1>1. PICK f : Thins(L, M, f)
  BY DEF Thinned
<1>2. Len(L) \in Nat /\ Len(M) \in Nat
  BY DEF Thinned
<1>3. \A k \in 1 .. Len(M) : k \in 0 .. Len(M)
  BY <1>2
<1>4. /\ \A k \in 1 .. Len(M) : f[k] \in 1 .. Len(L) /\ M[k] = L[f[k]]
      /\ \A j, k \in 1 .. Len(M) : j < k => f[j] < f[k]
  BY <1>1, <1>3 DEF Thins
<1>5. ASSUME NEW j \in 1 .. Len(M), NEW k \in 1 .. Len(M), j < k
      PROVE  /\ M[k].kind = "create" => M[j].inst < M[k].inst
             /\ M[k].kind = "destroy" /\ M[j].kind = "create" => M[j].inst <= M[k].inst
             /\ M[k].kind = "destroy" /\ M[j].kind = "destroy" => M[j].inst < M[k].inst
  <2>1. f[j] \in 1 .. Len(L) /\ f[k] \in 1 .. Len(L) /\ f[j] < f[k]
    BY <1>4, <1>5
  <2>2. M[j] = L[f[j]] /\ M[k] = L[f[k]]
    BY <1>4
  <2> QED BY <2>1, <2>2 DEF Ranked
<1>6. ASSUME NEW k \in 1 .. Len(M) PROVE M[k].inst <= n
  BY <1>4 DEF Ranked
<1> QED BY <1>5, <1>6 DEF Ranked

\* So does putting a message behind, that is of a service object there is, or creates the
\* next one, or destroys one later than all that are being destroyed.
LEMMA AppendRanked ==
    ASSUME NEW L \in Seq(Messages), NEW m \in Messages, NEW n \in Nat, NEW n2 \in Nat,
           Ranked(L, n), n <= n2, m.inst <= n2,
           m.kind = "create" => n < m.inst,
           m.kind = "destroy" => m.inst = n /\ \A k \in 1 .. Len(L) : L[k] # m
    PROVE  Ranked(Append(L, m), n2)
<1> DEFINE M == Append(L, m)
<1>1. /\ Len(M) = Len(L) + 1 /\ Len(L) \in Nat
      /\ \A k \in 1 .. Len(L) : M[k] = L[k]
      /\ M[Len(L) + 1] = m
      /\ \A k \in 1 .. Len(L) + 1 : k \in 1 .. Len(L) \/ k = Len(L) + 1
  BY AppendHolds
<1> HIDE DEF M
<1>2. \A k \in 1 .. Len(L) : L[k] \in Messages
  BY ElementOfSeq
<1>3. m.inst \in Nat /\ \A k \in 1 .. Len(L) : L[k].inst \in Nat /\ L[k].inst <= n
  <2>1. Instances \subseteq Nat
    BY DEF Instances
  <2> QED BY <1>2, <2>1, MessageFields DEF Ranked
<1>4. ASSUME NEW k \in 1 .. Len(M) PROVE M[k].inst <= n2
  <2>1. CASE k \in 1 .. Len(L)
    <3>1. M[k].inst \in Nat /\ M[k].inst <= n
      BY <1>1, <1>3, <2>1
    <3> QED BY <3>1
  <2>2. CASE k = Len(L) + 1
    BY <1>1, <2>2
  <2> QED BY <1>1, <2>1, <2>2
<1>5. ASSUME NEW j \in 1 .. Len(M), NEW k \in 1 .. Len(M), j < k
      PROVE  /\ M[k].kind = "create" => M[j].inst < M[k].inst
             /\ M[k].kind = "destroy" /\ M[j].kind = "create" => M[j].inst <= M[k].inst
             /\ M[k].kind = "destroy" /\ M[j].kind = "destroy" => M[j].inst < M[k].inst
  <2>1. CASE k \in 1 .. Len(L)
    <3>1. j \in 1 .. Len(L)
      BY <1>1, <1>5, <2>1
    <3> QED BY <1>1, <1>5, <2>1, <3>1 DEF Ranked
  <2>2. CASE k = Len(L) + 1
    <3>1. j \in 1 .. Len(L)
      BY <1>1, <1>5, <2>2
    <3>2. M[j] = L[j] /\ M[k] = m /\ M[j].inst \in Nat /\ M[j].inst <= n
      BY <1>1, <1>3, <2>2, <3>1
    <3>3. m.kind = "create" => M[j].inst < m.inst
      BY <1>3, <3>2
    <3>4. m.kind = "destroy" /\ M[j].kind = "destroy" => M[j].inst # m.inst
      <4>1. m.kind = "destroy" => L[j] # m
        BY <3>1
      <4>2. L[j] \in Messages
        BY <1>2, <3>1
      <4>3. /\ m.kind = "destroy" => m = [kind |-> "destroy", inst |-> m.inst]
            /\ L[j].kind = "destroy" => L[j] = [kind |-> "destroy", inst |-> L[j].inst]
        BY <4>2, MessageFields
      <4> QED BY <3>2, <4>1, <4>3
    <3> QED BY <1>3, <3>2, <3>3, <3>4
  <2> QED BY <1>1, <2>1, <2>2
<1> QED BY <1>4, <1>5 DEF Ranked, M

\* An intent on its way for service object i.
Waiting(L, i, k) == L[k].kind \in {"args", "run"} /\ L[k].inst = i

\* Message j of service object i is handled to its end before message k.
Before(L, i, j, k) ==
    /\ Waiting(L, i, j) /\ Waiting(L, i, k)
    /\ \/ L[j].kind = "run" /\ L[k].kind = "args"
       \/ L[j].kind = L[k].kind /\ j < k

\* The start ids of the intents on their way rise in the order they are handled, from the
\* one handled last to the last one given.
Numbers(L, i, handled, last) ==
    /\ handled \in Nat /\ last \in Nat /\ handled <= last
    /\ \A k \in 1 .. Len(L) : Waiting(L, i, k) => handled < L[k].id /\ L[k].id <= last
    /\ \A j, k \in 1 .. Len(L) : Before(L, i, j, k) => L[j].id < L[k].id
    /\ handled # last => \E k \in 1 .. Len(L) : Waiting(L, i, k) /\ L[k].id = last

\* Taking a message away that is no intent keeps them.
LEMMA ThinnedNumbers ==
    ASSUME NEW L, NEW M, Thinned(L, M), NEW i, NEW a, NEW z, Numbers(L, i, a, z),
           ~Waiting(L, i, 1)
    PROVE  Numbers(M, i, a, z)
<1>1. PICK f : Thins(L, M, f)
  BY DEF Thinned
<1>2. Len(L) \in Nat /\ Len(M) \in Nat
  BY DEF Thinned
<1>3. \A k \in 1 .. Len(M) : k \in 0 .. Len(M)
  BY <1>2
<1>4. /\ \A k \in 1 .. Len(M) : f[k] \in 1 .. Len(L) /\ M[k] = L[f[k]]
      /\ \A j, k \in 1 .. Len(M) : j < k => f[j] < f[k]
  BY <1>1, <1>3 DEF Thins
<1>5. /\ \A k \in 1 .. Len(M) : Waiting(M, i, k) => Waiting(L, i, f[k])
      /\ \A j, k \in 1 .. Len(M) : Before(M, i, j, k) => Before(L, i, f[j], f[k])
  BY <1>4 DEF Waiting, Before
<1>6. a # z => \E k \in 1 .. Len(M) : Waiting(M, i, k) /\ M[k].id = z
  <2> SUFFICES ASSUME a # z PROVE \E k \in 1 .. Len(M) : Waiting(M, i, k) /\ M[k].id = z
    OBVIOUS
  <2>1. PICK k \in 1 .. Len(L) : Waiting(L, i, k) /\ L[k].id = z
    BY DEF Numbers
  <2>2. PICK j \in 1 .. Len(M) : M[j] = L[k]
    BY <2>1, ThinnedHolds DEF Waiting
  <2> QED BY <2>1, <2>2 DEF Waiting
<1> QED BY <1>4, <1>5, <1>6 DEF Numbers

\* Handling the first intent makes its start id the one handled last.
LEMMA HandledNumbers ==
    ASSUME NEW L, NEW M, Thinned(L, M), NEW i, NEW a, NEW z, Numbers(L, i, a, z),
           L[1].kind = "run", L[1].inst = i, L[1].id \in Nat
    PROVE  Numbers(M, i, L[1].id, z)
<1>1. PICK f : Thins(L, M, f)
  BY DEF Thinned
<1>2. Len(L) \in Nat /\ Len(M) \in Nat /\ 1 \in 1 .. Len(L)
  BY DEF Thinned
<1>3. \A k \in 1 .. Len(M) : k \in 0 .. Len(M) /\ 0 \in 0 .. Len(M) /\ 0 < k
  BY <1>2
<1>4. /\ \A k \in 1 .. Len(M) : f[k] \in 1 .. Len(L) /\ M[k] = L[f[k]] /\ 1 < f[k]
      /\ \A j, k \in 1 .. Len(M) : j < k => f[j] < f[k]
  BY <1>1, <1>3 DEF Thins
<1>5. /\ \A k \in 1 .. Len(M) : Waiting(M, i, k) => Waiting(L, i, f[k]) /\ Before(L, i, 1, f[k])
      /\ \A j, k \in 1 .. Len(M) : Before(M, i, j, k) => Before(L, i, f[j], f[k])
  BY <1>4 DEF Waiting, Before
<1>6. L[1].id # z => \E k \in 1 .. Len(M) : Waiting(M, i, k) /\ M[k].id = z
  <2> SUFFICES ASSUME L[1].id # z
               PROVE  \E k \in 1 .. Len(M) : Waiting(M, i, k) /\ M[k].id = z
    OBVIOUS
  <2>1. PICK k \in 1 .. Len(L) : Waiting(L, i, k) /\ L[k].id = z
    <3>1. Waiting(L, i, 1)
      BY DEF Waiting
    <3>2. a < L[1].id /\ L[1].id <= z /\ a \in Nat /\ z \in Nat
      BY <1>2, <3>1 DEF Numbers
    <3>3. a # z
      BY <3>2
    <3> QED BY <3>3 DEF Numbers
  <2>2. PICK j \in 1 .. Len(M) : M[j] = L[k]
    BY <2>1, ThinnedHolds DEF Waiting
  <2> QED BY <2>1, <2>2 DEF Waiting
<1>7. L[1].id <= z
  BY <1>2 DEF Numbers, Waiting
<1> QED BY <1>2, <1>4, <1>5, <1>6, <1>7 DEF Numbers

\* A message behind the others keeps them if it is no intent for the service object, ...
LEMMA AppendNumbers ==
    ASSUME NEW L \in Seq(Messages), NEW m \in Messages, NEW i, NEW a, NEW z,
           Numbers(L, i, a, z), m.kind \notin {"args", "run"} \/ m.inst # i
    PROVE  Numbers(Append(L, m), i, a, z)
<1> DEFINE M == Append(L, m)
<1>1. /\ Len(M) = Len(L) + 1 /\ Len(L) \in Nat
      /\ \A k \in 1 .. Len(L) : M[k] = L[k]
      /\ M[Len(L) + 1] = m
      /\ \A k \in 1 .. Len(L) + 1 : k \in 1 .. Len(L) \/ k = Len(L) + 1
      /\ \A k \in 1 .. Len(L) : k \in 1 .. Len(M)
  BY AppendHolds
<1> HIDE DEF M
<1>2. /\ \A k \in 1 .. Len(M) : Waiting(M, i, k) => k \in 1 .. Len(L)
      /\ \A k \in 1 .. Len(L) : Waiting(M, i, k) <=> Waiting(L, i, k)
  BY <1>1 DEF Waiting
<1>3. \A j, k \in 1 .. Len(L) : Before(M, i, j, k) <=> Before(L, i, j, k)
  BY <1>1, <1>2 DEF Before
<1>4. \A j, k \in 1 .. Len(M) : Before(M, i, j, k) => j \in 1 .. Len(L) /\ k \in 1 .. Len(L)
  BY <1>2 DEF Before
<1>5. a # z => \E k \in 1 .. Len(M) : Waiting(M, i, k) /\ M[k].id = z
  BY <1>1, <1>2 DEF Numbers
<1> QED BY <1>1, <1>2, <1>3, <1>4, <1>5 DEF Numbers, M

\* ... or is one that has the next start id.
LEMMA AppendStart ==
    ASSUME NEW L \in Seq(Messages), NEW m \in Messages, NEW i, NEW a, NEW z,
           Numbers(L, i, a, z), m.kind = "args", m.inst = i, m.id = z + 1
    PROVE  Numbers(Append(L, m), i, a, z + 1)
<1> DEFINE M == Append(L, m)
<1>1. /\ Len(M) = Len(L) + 1 /\ Len(L) \in Nat
      /\ \A k \in 1 .. Len(L) : M[k] = L[k]
      /\ M[Len(L) + 1] = m
      /\ \A k \in 1 .. Len(L) + 1 : k \in 1 .. Len(L) \/ k = Len(L) + 1
      /\ Len(L) + 1 \in 1 .. Len(M)
  BY AppendHolds
<1> HIDE DEF M
<1>2. /\ a \in Nat /\ z \in Nat /\ a <= z
      /\ \A k \in 1 .. Len(L) : Waiting(L, i, k) => a < L[k].id /\ L[k].id <= z
      /\ \A k \in 1 .. Len(L) : Waiting(L, i, k) => L[k].id \in Nat
  <2>1. \A k \in 1 .. Len(L) : L[k] \in Messages
    BY ElementOfSeq
  <2> QED BY <2>1, MessageFields DEF Numbers, Waiting
<1>3. ASSUME NEW k \in 1 .. Len(M), Waiting(M, i, k)
      PROVE  a < M[k].id /\ M[k].id <= z + 1
  <2>1. CASE k \in 1 .. Len(L)
    <3>1. Waiting(L, i, k) /\ M[k] = L[k]
      BY <1>1, <1>3, <2>1 DEF Waiting
    <3>2. L[k].id \in Nat /\ a < L[k].id /\ L[k].id <= z
      BY <1>2, <2>1, <3>1
    <3> QED BY <1>2, <3>1, <3>2
  <2>2. CASE k = Len(L) + 1
    BY <1>1, <1>2, <2>2
  <2> QED BY <1>1, <2>1, <2>2
<1>4. ASSUME NEW j \in 1 .. Len(M), NEW k \in 1 .. Len(M), Before(M, i, j, k)
      PROVE  M[j].id < M[k].id
  <2>1. CASE j = Len(L) + 1
    <3>1. M[j].kind = "args" /\ ~(j < k)
      BY <1>1, <2>1
    <3> QED BY <1>4, <3>1 DEF Before
  <2>2. CASE j \in 1 .. Len(L) /\ k = Len(L) + 1
    <3>1. Waiting(L, i, j) /\ M[j] = L[j]
      BY <1>1, <1>4, <2>2 DEF Waiting, Before
    <3>2. L[j].id \in Nat /\ L[j].id <= z /\ M[k].id = z + 1
      BY <1>1, <1>2, <2>2, <3>1
    <3> QED BY <1>2, <3>1, <3>2
  <2>3. CASE j \in 1 .. Len(L) /\ k \in 1 .. Len(L)
    <3>1. M[j] = L[j] /\ M[k] = L[k]
      BY <1>1, <2>3
    <3>2. Before(L, i, j, k)
      BY <1>4, <3>1 DEF Before, Waiting
    <3> QED BY <2>3, <3>1, <3>2 DEF Numbers
  <2> QED BY <1>1, <2>1, <2>2, <2>3
<1>5. \E k \in 1 .. Len(M) : Waiting(M, i, k) /\ M[k].id = z + 1
  BY <1>1 DEF Waiting
<1>6. z + 1 \in Nat /\ a <= z + 1
  BY <1>2
<1> QED BY <1>2, <1>3, <1>4, <1>5, <1>6 DEF Numbers, M

\* The runner that onStartCommand posts takes the place of the intent.
LEMMA PostedNumbers ==
    ASSUME NEW L, NEW M, Thinned(L, M), NEW i, NEW a, NEW z, Numbers(L, i, a, z),
           L[1].kind = "args", NEW m \in Messages,
           m.kind = "run", m.inst = L[1].inst, m.id = L[1].id
    PROVE  Numbers(Append(M, m), i, a, z)
<1>0. M \in Seq(Messages) /\ L \in Seq(Messages)
  BY DEF Thinned
<1>1. CASE L[1].inst # i
  <2>1. Numbers(M, i, a, z)
    BY <1>1, ThinnedNumbers DEF Waiting
  <2> QED BY <1>0, <1>1, <2>1, AppendNumbers
<1>2. CASE L[1].inst = i
  <2>1. PICK f : Thins(L, M, f)
    BY DEF Thinned
  <2>2. Len(L) \in Nat /\ Len(M) \in Nat /\ 1 \in 1 .. Len(L)
    BY DEF Thinned
  <2> DEFINE N == Append(M, m)
  <2>3. /\ Len(N) = Len(M) + 1
        /\ \A k \in 1 .. Len(M) : N[k] = M[k]
        /\ N[Len(M) + 1] = m
        /\ \A k \in 1 .. Len(M) + 1 : k \in 1 .. Len(M) \/ k = Len(M) + 1
        /\ Len(M) + 1 \in 1 .. Len(N)
        /\ \A k \in 1 .. Len(M) : k \in 1 .. Len(N) /\ k < Len(M) + 1
    BY <1>0, <2>2, AppendHolds
  <2> HIDE DEF N
  <2>4. \A k \in 1 .. Len(M) : k \in 0 .. Len(M) /\ 0 \in 0 .. Len(M) /\ 0 < k
    BY <2>2
  <2>5. /\ \A k \in 1 .. Len(M) : f[k] \in 1 .. Len(L) /\ N[k] = L[f[k]] /\ 1 < f[k]
        /\ \A j, k \in 1 .. Len(M) : j < k => f[j] < f[k]
    BY <2>1, <2>3, <2>4 DEF Thins
  <2> DEFINE p(k) == IF k = Len(M) + 1 THEN 1 ELSE f[k]
  <2>6. ASSUME NEW k \in 1 .. Len(N)
        PROVE  /\ p(k) \in 1 .. Len(L)
               /\ Waiting(N, i, k) => Waiting(L, i, p(k)) /\ N[k].id = L[p(k)].id
    <3>1. CASE k = Len(M) + 1
      BY <1>2, <2>2, <2>3, <3>1 DEF Waiting
    <3>2. CASE k \in 1 .. Len(M)
      BY <2>3, <2>5, <3>2 DEF Waiting
    <3> QED BY <2>3, <3>1, <3>2
  <2>7. ASSUME NEW j \in 1 .. Len(N), NEW k \in 1 .. Len(N), Before(N, i, j, k)
        PROVE  N[j].id < N[k].id
    <3>0. Waiting(N, i, j) /\ Waiting(N, i, k)
      BY <2>7 DEF Before
    <3>1. CASE j = Len(M) + 1 /\ k \in 1 .. Len(M)
      <4>1. N[k].kind = "args"
        <5>1. N[j].kind = "run" /\ ~(j < k)
          BY <2>3, <3>1
        <5> QED BY <2>7, <5>1 DEF Before
      <4>2. Before(L, i, 1, f[k])
        BY <1>2, <2>5, <3>0, <3>1, <4>1 DEF Before, Waiting
      <4>3. L[1].id < L[f[k]].id
        BY <2>2, <2>5, <3>1, <4>2 DEF Numbers
      <4> QED BY <2>3, <2>5, <3>1, <4>3
    <3>2. CASE j \in 1 .. Len(M) /\ k = Len(M) + 1
      <4>1. N[j].kind = "run"
        BY <2>3, <2>7, <3>2 DEF Before
      <4>2. Before(L, i, f[j], 1)
        BY <1>2, <2>5, <3>0, <3>2, <4>1 DEF Before, Waiting
      <4>3. L[f[j]].id < L[1].id
        BY <2>2, <2>5, <3>2, <4>2 DEF Numbers
      <4> QED BY <2>3, <2>5, <3>2, <4>3
    <3>3. CASE j \in 1 .. Len(M) /\ k \in 1 .. Len(M)
      <4>1. Before(L, i, f[j], f[k])
        BY <2>5, <2>7, <3>3 DEF Before, Waiting
      <4> QED BY <2>5, <3>3, <4>1 DEF Numbers
    <3>4. CASE j = Len(M) + 1 /\ k = Len(M) + 1
      <4>1. N[j].kind = "run" /\ N[k].kind = "run" /\ ~(j < k)
        BY <2>2, <2>3, <3>4
      <4> QED BY <2>7, <4>1 DEF Before
    <3> QED BY <2>3, <3>1, <3>2, <3>3, <3>4
  <2>8. a # z => \E k \in 1 .. Len(N) : Waiting(N, i, k) /\ N[k].id = z
    <3> SUFFICES ASSUME a # z PROVE \E k \in 1 .. Len(N) : Waiting(N, i, k) /\ N[k].id = z
      OBVIOUS
    <3>1. PICK k \in 1 .. Len(L) : Waiting(L, i, k) /\ L[k].id = z
      BY DEF Numbers
    <3>2. CASE k = 1
      BY <1>2, <2>3, <3>1, <3>2 DEF Waiting
    <3>3. CASE k # 1
      <4>1. PICK j \in 1 .. Len(M) : M[j] = L[k]
        BY <3>1, <3>3, ThinnedHolds DEF Waiting
      <4> QED BY <2>3, <3>1, <4>1 DEF Waiting
    <3> QED BY <3>2, <3>3
  <2> HIDE DEF p
  <2>9. \A k \in 1 .. Len(N) : Waiting(N, i, k) => a < N[k].id /\ N[k].id <= z
    BY <2>6 DEF Numbers
  <2> QED BY <2>7, <2>8, <2>9 DEF Numbers, N
<1> QED BY <1>1, <1>2

-----------------------------------------------------------------------------
(* The states of a host application that the intents on their way tell of. *)

\* A set of natural numbers that has a member has a least one.
LEMMA LeastNumber ==
    ASSUME NEW S \in SUBSET Nat, S # {}
    PROVE  \E i \in S : \A j \in S : i <= j
<1> DEFINE UpTo(i) == {j \in S : j <= i}
           T == {UpTo(i) : i \in S}
<1>1. T \subseteq FiniteSubsetsOf(S) /\ T # {}
  <2>1. ASSUME NEW i \in S PROVE IsFiniteSet(UpTo(i))
    <3>1. UpTo(i) \in SUBSET Nat /\ i \in Nat /\ \A j \in UpTo(i) : j <= i
      OBVIOUS
    <3> QED BY <3>1, FS_BoundedSetOfNaturals
  <2> QED BY <2>1 DEF FiniteSubsetsOf
<1>2. PICK x \in T : \A y \in T : ~ (<<y, x>> \in StrictSubsetOrdering(S))
  <2>1. IsWellFoundedOn(StrictSubsetOrdering(S), FiniteSubsetsOf(S))
    BY FS_StrictSubsetOrderingWellFounded
  <2> HIDE DEF T
  <2> QED BY <1>1, <2>1, WFMin
<1>3. PICK i \in S : x = UpTo(i)
  OBVIOUS
<1>4. ASSUME NEW j \in S, ~(i <= j) PROVE FALSE
  <2>1. i \in Nat /\ j \in Nat /\ \A l \in S : l \in Nat
    OBVIOUS
  <2>2. i \in UpTo(i) /\ i \notin UpTo(j)
    BY <1>4, <2>1
  <2>3. \A l \in S : l <= j => l <= i
    BY <1>4, <2>1
  <2>4. UpTo(j) \subseteq UpTo(i) /\ UpTo(j) \in SUBSET S /\ UpTo(i) \in SUBSET S
    BY <2>3
  <2>5. <<UpTo(j), UpTo(i)>> \in StrictSubsetOrdering(S)
    BY <2>2, <2>4 DEF StrictSubsetOrdering
  <2> QED BY <1>2, <1>3, <2>5
<1> QED BY <1>4

\* What does not change from one position to the next is the same at the end.
LEMMA Unchanging ==
    ASSUME NEW r, NEW a \in Nat, NEW b \in Nat, a <= b,
           \A k \in (a + 1) .. b : r[k] = r[k - 1]
    PROVE  r[b] = r[a]
<1> DEFINE S == {k \in a .. b : r[k] # r[a]}
<1> SUFFICES ASSUME S # {} PROVE FALSE
  <2>1. b \in a .. b
    OBVIOUS
  <2> QED BY <2>1
<1>1. S \in SUBSET Nat
  OBVIOUS
<1>2. PICK i \in S : \A j \in S : i <= j
  <2> HIDE DEF S
  <2> QED BY <1>1, LeastNumber
<1>3. i \in a .. b /\ r[i] # r[a]
  BY <1>2
<1>4. i \in (a + 1) .. b /\ i - 1 \in a .. b /\ ~(i <= i - 1)
  BY <1>3
<1>5. i - 1 \notin S
  BY <1>2, <1>4
<1>6. r[i - 1] = r[a]
  BY <1>4, <1>5
<1> QED BY <1>3, <1>4, <1>6

\* A message of a kind to service object i about host application h.
Mine(m, kind, i, h) == m.kind = kind /\ m.inst = i /\ m.intent.host = h

\* The host application is in state r[k] when the first k messages are sent: it makes the
\* moves that the messages of the kind tell of, and no other.
Walk(L, kind, i, h, r) ==
    /\ r \in [0 .. Len(L) -> HostStates]
    /\ \A k \in 1 .. Len(L) :
          IF Mine(L[k], kind, i, h) THEN Moves(L[k].intent.action, r[k - 1], r[k])
          ELSE r[k] = r[k - 1]

\* Queue M keeps, in their order, all messages of queue L from f[0] on that tell of a move
\* of host application h, now for service object i2 instead of i.
Keeps(L, M, kind, i, i2, h, f) ==
    /\ Len(L) \in Nat /\ Len(M) \in Nat
    /\ f \in [0 .. Len(M) -> 0 .. Len(L)]
    /\ \A j, k \in 0 .. Len(M) : j < k => f[j] < f[k]
    /\ \A k \in 1 .. Len(M) :
          /\ Mine(M[k], kind, i2, h) <=> Mine(L[f[k]], kind, i, h)
          /\ Mine(M[k], kind, i2, h) => M[k].intent = L[f[k]].intent
    /\ \A k \in 1 .. Len(L) : k > f[0] /\ Mine(L[k], kind, i, h) =>
          \E j \in 1 .. Len(M) : f[j] = k

\* A walk leads over such a queue.
LEMMA WalkKept ==
    ASSUME NEW L, NEW M, NEW kind, NEW i, NEW i2, NEW h, NEW f, NEW r,
           Keeps(L, M, kind, i, i2, h, f), Walk(L, kind, i, h, r)
    PROVE  \E q : Walk(M, kind, i2, h, q) /\ q[0] = r[f[0]] /\ q[Len(M)] = r[Len(L)]
<1> DEFINE q == [k \in 0 .. Len(M) |-> r[f[k]]]
<1> USE DEF Keeps
<1> DEFINE m == Len(M)
           l == Len(L)
<1>1. /\ r \in [0 .. l -> HostStates]
      /\ \A k \in 1 .. l : IF Mine(L[k], kind, i, h)
                           THEN Moves(L[k].intent.action, r[k - 1], r[k])
                           ELSE r[k] = r[k - 1]
  BY DEF Walk
<1>2. q \in [0 .. m -> HostStates] /\ \A k \in 0 .. m : q[k] = r[f[k]]
  BY <1>1
<1> HIDE DEF q
<1>3. ASSUME NEW k \in 1 .. m
      PROVE  /\ k - 1 \in 0 .. m /\ k \in 0 .. m
             /\ f[k] \in 1 .. l /\ f[k] - 1 \in Nat /\ f[k - 1] \in Nat
             /\ r[f[k] - 1] = r[f[k - 1]]
  <2>1. k - 1 \in 0 .. m /\ k \in 0 .. m /\ k - 1 < k /\ 0 \in 0 .. m /\ (k - 1 = 0 \/ 0 < k - 1)
    OBVIOUS
  <2>2. f[k - 1] \in 0 .. l /\ f[k] \in 0 .. l /\ f[k - 1] < f[k] /\ f[0] \in 0 .. l /\ f[0] <= f[k - 1]
    <3>1. f[k - 1] \in 0 .. l /\ f[k] \in 0 .. l /\ f[k - 1] < f[k] /\ f[0] \in 0 .. l
      BY <2>1
    <3>2. k - 1 = 0 => f[0] <= f[k - 1]
      BY <3>1
    <3>3. 0 < k - 1 => f[0] < f[k - 1]
      BY <2>1
    <3> QED BY <2>1, <3>1, <3>2, <3>3
  <2>3. f[k] \in 1 .. l /\ f[k] - 1 \in Nat /\ f[k - 1] \in Nat /\ f[k - 1] <= f[k] - 1
    BY <2>2
  <2>4. ASSUME NEW p \in (f[k - 1] + 1) .. (f[k] - 1) PROVE r[p] = r[p - 1]
    <3>1. p \in 1 .. l /\ f[k - 1] < p /\ p < f[k] /\ p > f[0]
      BY <2>2, <2>3
    <3>2. ~Mine(L[p], kind, i, h)
      <4>1. SUFFICES ASSUME Mine(L[p], kind, i, h) PROVE FALSE
        OBVIOUS
      <4>2. PICK j \in 1 .. m : f[j] = p
        BY <3>1, <4>1
      <4>3. j \in 0 .. m /\ (j < k - 1 \/ j = k - 1 \/ j = k \/ k < j)
        OBVIOUS
      <4>4. CASE j < k - 1
        <5>1. f[j] < f[k - 1]
          BY <2>1, <4>3, <4>4
        <5> QED BY <2>2, <3>1, <4>2, <5>1
      <4>5. CASE k < j
        <5>1. f[k] < f[j]
          BY <2>1, <4>3, <4>5
        <5> QED BY <2>2, <3>1, <4>2, <5>1
      <4>6. CASE j = k - 1 \/ j = k
        BY <2>2, <3>1, <4>2, <4>6
      <4> QED BY <4>3, <4>4, <4>5, <4>6
    <3> QED BY <1>1, <3>1, <3>2
  <2>5. r[f[k] - 1] = r[f[k - 1]]
    BY <2>3, <2>4, Unchanging
  <2> QED BY <2>1, <2>3, <2>5
<1>4. ASSUME NEW k \in 1 .. m
      PROVE  IF Mine(M[k], kind, i2, h) THEN Moves(M[k].intent.action, q[k - 1], q[k])
             ELSE q[k] = q[k - 1]
  <2>1. q[k] = r[f[k]] /\ q[k - 1] = r[f[k] - 1] /\ f[k] \in 1 .. l
    BY <1>2, <1>3
  <2> QED BY <1>1, <2>1
<1>5. Walk(M, kind, i2, h, q)
  BY <1>2, <1>4 DEF Walk
<1>6. q[0] = r[f[0]] /\ 0 \in 0 .. m /\ m \in 0 .. m
  BY <1>2
<1>7. r[l] = r[f[m]]
  <2>1. f[m] \in 0 .. l /\ f[0] \in 0 .. l /\ f[0] <= f[m]
    <3>1. f[m] \in 0 .. l /\ f[0] \in 0 .. l
      BY <1>6
    <3>2. m = 0 \/ 0 < m
      OBVIOUS
    <3>3. m = 0 => f[0] <= f[m]
      BY <3>1
    <3>4. 0 < m => f[0] < f[m]
      BY <1>6
    <3> QED BY <3>1, <3>2, <3>3, <3>4
  <2>2. ASSUME NEW p \in (f[m] + 1) .. l PROVE r[p] = r[p - 1]
    <3>1. p \in 1 .. l /\ f[m] < p /\ p > f[0]
      BY <2>1
    <3>2. ~Mine(L[p], kind, i, h)
      <4>1. SUFFICES ASSUME Mine(L[p], kind, i, h) PROVE FALSE
        OBVIOUS
      <4>2. PICK j \in 1 .. m : f[j] = p
        BY <3>1, <4>1
      <4>3. j \in 0 .. m /\ (j < m \/ j = m)
        OBVIOUS
      <4>4. j < m => f[j] < f[m]
        BY <1>6, <4>3
      <4>5. j = m => f[j] = f[m]
        OBVIOUS
      <4> QED BY <2>1, <3>1, <4>2, <4>3, <4>4, <4>5
    <3> QED BY <1>1, <3>1, <3>2
  <2>3. f[m] \in Nat /\ l \in Nat /\ f[m] <= l
    BY <2>1
  <2> DEFINE b == f[m]
  <2>4. b \in Nat /\ l \in Nat /\ b <= l /\ \A p \in (b + 1) .. l : r[p] = r[p - 1]
    BY <2>2, <2>3
  <2> HIDE DEF b, l
  <2>5. r[l] = r[b]
    BY <2>4, Unchanging
  <2> QED BY <2>5 DEF b
<1> QED BY <1>2, <1>5, <1>6, <1>7

\* A walk leads over a thinned queue.
LEMMA WalkThinned ==
    ASSUME NEW L, NEW M, Thinned(L, M), NEW kind \in {"run", "args"}, NEW i, NEW h, NEW r,
           Walk(L, kind, i, h, r)
    PROVE  \E q : Walk(M, kind, i, h, q) /\ q[0] = r[1] /\ q[Len(M)] = r[Len(L)]
<1>1. PICK f : Thins(L, M, f)
  BY DEF Thinned
<1>2. Len(L) \in Nat /\ Len(M) \in Nat
  BY DEF Thinned
<1>3. /\ f \in [0 .. Len(M) -> 0 .. Len(L)]
      /\ \A j, k \in 0 .. Len(M) : j < k => f[j] < f[k]
      /\ f[0] = 1
      /\ \A k \in 1 .. Len(M) : M[k] = L[f[k]]
  BY <1>1 DEF Thins
<1>4. ASSUME NEW k \in 1 .. Len(L), k > f[0], Mine(L[k], kind, i, h)
      PROVE  \E j \in 1 .. Len(M) : f[j] = k
  <2>1. k \in 2 .. Len(L) /\ L[k].kind # "result"
    BY <1>2, <1>3, <1>4 DEF Mine
  <2> QED BY <1>1, <2>1 DEF Thins
<1>5. Keeps(L, M, kind, i, i, h, f)
  BY <1>2, <1>3, <1>4 DEF Keeps
<1>6. \E q : Walk(M, kind, i, h, q) /\ q[0] = r[f[0]] /\ q[Len(M)] = r[Len(L)]
  BY <1>5, WalkKept
<1> QED BY <1>3, <1>6

\* A walk goes on over a message behind the others.
LEMMA WalkAppend ==
    ASSUME NEW L \in Seq(Messages), NEW m \in Messages, NEW kind, NEW i, NEW h, NEW r,
           Walk(L, kind, i, h, r), NEW to \in HostStates,
           IF Mine(m, kind, i, h) THEN Moves(m.intent.action, r[Len(L)], to)
           ELSE to = r[Len(L)]
    PROVE  \E q : /\ Walk(Append(L, m), kind, i, h, q)
                  /\ q[0] = r[0] /\ q[Len(Append(L, m))] = to
<1> DEFINE M == Append(L, m)
           n == Len(L)
           q == [k \in 0 .. n + 1 |-> IF k = n + 1 THEN to ELSE r[k]]
<1>1. /\ Len(M) = n + 1 /\ n \in Nat
      /\ \A k \in 1 .. n : M[k] = L[k]
      /\ M[n + 1] = m
      /\ \A k \in 1 .. n + 1 : k \in 1 .. n \/ k = n + 1
  BY AppendHolds
<1>2. /\ r \in [0 .. n -> HostStates]
      /\ \A k \in 1 .. n : IF Mine(L[k], kind, i, h)
                           THEN Moves(L[k].intent.action, r[k - 1], r[k])
                           ELSE r[k] = r[k - 1]
  BY DEF Walk
<1> HIDE DEF M, n
<1>3. /\ q \in [0 .. n + 1 -> HostStates] /\ q[n + 1] = to
      /\ \A k \in 0 .. n : q[k] = r[k]
  BY <1>1, <1>2
<1> HIDE DEF q
<1>4. ASSUME NEW k \in 1 .. n + 1
      PROVE  IF Mine(M[k], kind, i, h) THEN Moves(M[k].intent.action, q[k - 1], q[k])
             ELSE q[k] = q[k - 1]
  <2>1. CASE k \in 1 .. n
    <3>1. k \in 0 .. n /\ k - 1 \in 0 .. n
      BY <1>1, <2>1
    <3> QED BY <1>1, <1>2, <1>3, <2>1, <3>1
  <2>2. CASE k = n + 1
    <3>1. k - 1 = n /\ n \in 0 .. n
      BY <1>1, <2>2
    <3>2. q[k - 1] = r[n] /\ q[k] = to /\ M[k] = m
      BY <1>1, <1>3, <2>2, <3>1
    <3> QED BY <3>2 DEF n
  <2> QED BY <1>1, <2>1, <2>2
<1>5. Walk(M, kind, i, h, q) /\ q[0] = r[0] /\ q[Len(M)] = to
  BY <1>1, <1>3, <1>4 DEF Walk
<1> QED BY <1>5 DEF M

\* Where no message tells of a move, the host application stays.
LEMMA WalkStill ==
    ASSUME NEW L \in Seq(Messages), NEW kind, NEW i, NEW h, NEW c \in HostStates,
           \A k \in 1 .. Len(L) : ~Mine(L[k], kind, i, h)
    PROVE  \E q : Walk(L, kind, i, h, q) /\ q[0] = c /\ q[Len(L)] = c
<1> DEFINE q == [k \in 0 .. Len(L) |-> c]
<1>1. Len(L) \in Nat
  OBVIOUS
<1>2. \A k \in 1 .. Len(L) : k \in 0 .. Len(L) /\ k - 1 \in 0 .. Len(L)
  BY <1>1
<1>3. 0 \in 0 .. Len(L) /\ Len(L) \in 0 .. Len(L)
  BY <1>1
<1>4. Walk(L, kind, i, h, q)
  BY <1>2 DEF Walk
<1> QED BY <1>3, <1>4

\* A walk is not changed by a message in front of it that tells of no move.
LEMMA WalkFront ==
    ASSUME NEW L, NEW M, Len(L) \in Nat, Len(M) = Len(L) + 1, NEW kind, NEW i, NEW h, NEW r,
           Walk(L, kind, i, h, r), ~Mine(M[1], kind, i, h),
           \A k \in 2 .. Len(M) : M[k] = L[k - 1]
    PROVE  \E q : Walk(M, kind, i, h, q) /\ q[0] = r[0] /\ q[Len(M)] = r[Len(L)]
<1> DEFINE n == Len(L)
           q == [k \in 0 .. n + 1 |-> IF k = 0 THEN r[0] ELSE r[k - 1]]
<1>1. /\ r \in [0 .. n -> HostStates]
      /\ \A k \in 1 .. n : IF Mine(L[k], kind, i, h)
                           THEN Moves(L[k].intent.action, r[k - 1], r[k])
                           ELSE r[k] = r[k - 1]
  BY DEF Walk
<1>2. \A k \in 0 .. n + 1 : k # 0 => k - 1 \in 0 .. n
  OBVIOUS
<1>3. q \in [0 .. n + 1 -> HostStates] /\ q[0] = r[0] /\ q[n + 1] = r[n]
  BY <1>1, <1>2
<1>4. \A k \in 1 .. n + 1 : q[k] = r[k - 1]
  OBVIOUS
<1> HIDE DEF q
<1>5. ASSUME NEW k \in 1 .. n + 1
      PROVE  IF Mine(M[k], kind, i, h) THEN Moves(M[k].intent.action, q[k - 1], q[k])
             ELSE q[k] = q[k - 1]
  <2>1. CASE k = 1
    <3>1. q[k] = r[0] /\ q[k - 1] = r[0]
      BY <1>3, <1>4, <2>1
    <3> QED BY <2>1, <3>1
  <2>2. CASE k # 1
    <3>1. k \in 2 .. Len(M) /\ k - 1 \in 1 .. n /\ k - 1 \in 1 .. n + 1
      BY <2>2
    <3>2. q[k] = r[k - 1] /\ q[k - 1] = r[(k - 1) - 1] /\ M[k] = L[k - 1]
      BY <1>4, <3>1
    <3> QED BY <1>1, <3>1, <3>2
  <2> QED BY <2>1, <2>2
<1>6. Walk(M, kind, i, h, q)
  BY <1>3, <1>5 DEF Walk
<1> QED BY <1>3, <1>6

\* When the intents of host application h that are on their way to service object i are
\* handled, first the posted and then the others, its control, now in state c, has followed
\* it to state to, or is absent.
Follows(L, i, h, c, to) ==
    \E r, a \in [0 .. Len(L) -> HostStates] :
        /\ Walk(L, "run", i, h, r) /\ Walk(L, "args", i, h, a)
        /\ c \in {"absent", r[0]} /\ r[Len(L)] = a[0] /\ a[Len(L)] = to

\* Two walks that meet show that a control follows.
LEMMA WalksFollow ==
    ASSUME NEW L, NEW i, NEW h, NEW c, NEW to, NEW r, NEW a,
           Walk(L, "run", i, h, r), Walk(L, "args", i, h, a),
           c \in {"absent", r[0]}, r[Len(L)] = a[0], a[Len(L)] = to
    PROVE  Follows(L, i, h, c, to)
<1>1. r \in [0 .. Len(L) -> HostStates] /\ a \in [0 .. Len(L) -> HostStates]
  BY DEF Walk
<1> QED BY <1>1 DEF Follows

\* A control follows the move that an intent tells of.
LEMMA AnswerFollows ==
    ASSUME NEW action, NEW from, NEW to, NEW c \in {"absent", from}, Moves(action, from, to)
    PROVE  Answer(action, c) \in {"absent", to}
BY DEF Answer, Moves

\* The first message is handled, and leaves the control in state d.
LEMMA FollowsHandled ==
    ASSUME NEW L, NEW M, Thinned(L, M), NEW i, NEW h, NEW c, NEW d, NEW to,
           Follows(L, i, h, c, to), ~Mine(L[1], "args", i, h),
           d = IF Mine(L[1], "run", i, h) THEN Answer(L[1].intent.action, c) ELSE c
    PROVE  Follows(M, i, h, d, to)
<1>1. PICK r, a : /\ Walk(L, "run", i, h, r) /\ Walk(L, "args", i, h, a)
                  /\ c \in {"absent", r[0]} /\ r[Len(L)] = a[0] /\ a[Len(L)] = to
  BY DEF Follows
<1>2. PICK q : Walk(M, "run", i, h, q) /\ q[0] = r[1] /\ q[Len(M)] = r[Len(L)]
  BY <1>1, WalkThinned
<1>3. PICK b : Walk(M, "args", i, h, b) /\ b[0] = a[1] /\ b[Len(M)] = a[Len(L)]
  BY <1>1, WalkThinned
<1>4. 1 \in 1 .. Len(L) /\ 1 - 1 = 0
  BY DEF Thinned
<1>5. a[1] = a[0]
  BY <1>1, <1>4 DEF Walk
<1>6. d \in {"absent", r[1]}
  <2>1. CASE Mine(L[1], "run", i, h)
    <3>1. Moves(L[1].intent.action, r[0], r[1])
      BY <1>1, <1>4, <2>1 DEF Walk
    <3> QED BY <1>1, <2>1, <3>1, AnswerFollows
  <2>2. CASE ~Mine(L[1], "run", i, h)
    <3>1. r[1] = r[0]
      BY <1>1, <1>4, <2>2 DEF Walk
    <3> QED BY <1>1, <2>2, <3>1
  <2> QED BY <2>1, <2>2
<1> QED BY <1>1, <1>2, <1>3, <1>5, <1>6, WalksFollow

\* The first message is an intent, and posted.
LEMMA FollowsPosted ==
    ASSUME NEW L, NEW M, Thinned(L, M), NEW i, NEW h, NEW c, NEW to,
           Follows(L, i, h, c, to), L[1].kind = "args",
           NEW m \in Messages, m.kind = "run", m.inst = L[1].inst, m.intent = L[1].intent
    PROVE  Follows(Append(M, m), i, h, c, to)
<1>1. PICK r, a : /\ Walk(L, "run", i, h, r) /\ Walk(L, "args", i, h, a)
                  /\ c \in {"absent", r[0]} /\ r[Len(L)] = a[0] /\ a[Len(L)] = to
  BY DEF Follows
<1>2. PICK q : Walk(M, "run", i, h, q) /\ q[0] = r[1] /\ q[Len(M)] = r[Len(L)]
  BY <1>1, WalkThinned
<1>3. PICK b : Walk(M, "args", i, h, b) /\ b[0] = a[1] /\ b[Len(M)] = a[Len(L)]
  BY <1>1, WalkThinned
<1>4. 1 \in 1 .. Len(L) /\ 1 - 1 = 0 /\ M \in Seq(Messages) /\ Len(M) \in Nat /\ Len(L) \in Nat
  BY DEF Thinned
<1>5. r[1] = r[0]
  BY <1>1, <1>4 DEF Walk, Mine
<1>6. /\ Mine(m, "run", i, h) <=> Mine(L[1], "args", i, h)
      /\ ~Mine(m, "args", i, h)
  BY DEF Mine
<1>7. IF Mine(m, "run", i, h) THEN Moves(m.intent.action, q[Len(M)], a[1])
      ELSE a[1] = q[Len(M)]
  BY <1>1, <1>2, <1>4, <1>6 DEF Walk
<1>8. a[1] \in HostStates /\ b[Len(M)] \in HostStates
  <2>1. 1 \in 0 .. Len(L) /\ Len(M) \in 0 .. Len(M)
    BY <1>4
  <2> QED BY <1>1, <1>3, <2>1 DEF Walk
<1>9. PICK u : /\ Walk(Append(M, m), "run", i, h, u)
               /\ u[0] = q[0] /\ u[Len(Append(M, m))] = a[1]
  BY <1>2, <1>4, <1>7, <1>8, WalkAppend
<1>10. PICK v : /\ Walk(Append(M, m), "args", i, h, v)
                /\ v[0] = b[0] /\ v[Len(Append(M, m))] = b[Len(M)]
  BY <1>3, <1>4, <1>6, <1>8, WalkAppend
<1> QED BY <1>1, <1>2, <1>3, <1>5, <1>9, <1>10, WalksFollow

\* A message is put behind the others, an intent about a move from state from to state to,
\* or none about this host application.
LEMMA FollowsSent ==
    ASSUME NEW L \in Seq(Messages), NEW i, NEW h, NEW c, NEW from, NEW to \in HostStates,
           Follows(L, i, h, c, from),
           NEW m \in Messages, ~Mine(m, "run", i, h),
           IF Mine(m, "args", i, h) THEN Moves(m.intent.action, from, to) ELSE to = from
    PROVE  Follows(Append(L, m), i, h, c, to)
<1>1. PICK r, a : /\ Walk(L, "run", i, h, r) /\ Walk(L, "args", i, h, a)
                  /\ c \in {"absent", r[0]} /\ r[Len(L)] = a[0] /\ a[Len(L)] = from
  BY DEF Follows
<1>2. r[Len(L)] \in HostStates
  <2>1. Len(L) \in 0 .. Len(L)
    OBVIOUS
  <2> QED BY <1>1, <2>1 DEF Walk
<1>3. PICK u : /\ Walk(Append(L, m), "run", i, h, u)
               /\ u[0] = r[0] /\ u[Len(Append(L, m))] = r[Len(L)]
  BY <1>1, <1>2, WalkAppend
<1>4. PICK v : /\ Walk(Append(L, m), "args", i, h, v)
               /\ v[0] = a[0] /\ v[Len(Append(L, m))] = to
  BY <1>1, WalkAppend
<1> QED BY <1>1, <1>3, <1>4, WalksFollow

\* A service object to which no intent about h is on its way has no control yet.
LEMMA FollowsFresh ==
    ASSUME NEW L \in Seq(Messages), NEW i, NEW h, NEW to \in HostStates,
           \A k \in 1 .. Len(L) : ~Mine(L[k], "run", i, h) /\ ~Mine(L[k], "args", i, h)
    PROVE  Follows(L, i, h, "absent", to)
<1>1. PICK r : Walk(L, "run", i, h, r) /\ r[0] = to /\ r[Len(L)] = to
  BY WalkStill
<1>2. PICK a : Walk(L, "args", i, h, a) /\ a[0] = to /\ a[Len(L)] = to
  BY WalkStill
<1> QED BY <1>1, <1>2, WalksFollow

\* A function on an initial interval of the numbers is a sequence.
LEMMA FunctionIsSeq ==
    ASSUME NEW E, NEW n \in Nat, NEW U \in [1 .. n -> E]
    PROVE  U \in Seq(E) /\ Len(U) = n
<1>1. U = [k \in 1 .. n |-> U[k]] /\ \A k \in 1 .. n : U[k] \in E
  OBVIOUS
<1> QED BY <1>1, IsASeq

\* Queue M is the one of a process that is started again after it had queue L: the creation
\* of service object i2, then, as N, the intents for service object i that were not posted.
Redelivers(L, i, M, i2, N, at) ==
    /\ N \in Seq(Messages) /\ Len(N) \in Nat
    /\ M \in Seq(Messages) /\ Len(M) = Len(N) + 1 /\ M[1] = Create(i2)
    /\ \A k \in 2 .. Len(M) : M[k] = N[k - 1]
    /\ at \in [1 .. Len(N) -> 1 .. Len(L)]
    /\ \A k \in 1 .. Len(N) : L[at[k]].kind = "args" /\ L[at[k]].inst = i
    /\ \A k \in 1 .. Len(L) : L[k].kind = "args" /\ L[k].inst = i =>
          \E j \in 1 .. Len(N) : at[j] = k
    /\ \A j, k \in 1 .. Len(N) : j < k => at[j] < at[k]
    /\ \A k \in 1 .. Len(N) : /\ N[k].kind = "args" /\ N[k].inst = i2
                               /\ N[k].id = L[at[k]].id /\ N[k].intent = L[at[k]].intent

\* That is the queue the model puts together.
LEMMA RestartHolds ==
    ASSUME NEW L \in Seq(Messages), NEW i, NEW i2 \in Instances,
           NEW at \in Ascending({k \in DOMAIN L : L[k].kind = "args" /\ L[k].inst = i})
    PROVE  Redelivers(L, i, <<Create(i2)>> \o [k \in DOMAIN at |-> [L[at[k]] EXCEPT !.inst = i2]],
                      i2, [k \in DOMAIN at |-> [L[at[k]] EXCEPT !.inst = i2]], at)
<1> DEFINE U == {k \in DOMAIN L : L[k].kind = "args" /\ L[k].inst = i}
           N == [k \in DOMAIN at |-> [L[at[k]] EXCEPT !.inst = i2]]
           M == <<Create(i2)>> \o N
           n == Cardinality(U)
           l == Len(L)
<1>0. l \in Nat /\ DOMAIN L = 1 .. l /\ \A k \in 1 .. l : L[k] \in Messages
  BY ElementOfSeq
<1>u. \A k : k \in U <=> k \in 1 .. l /\ L[k].kind = "args" /\ L[k].inst = i
  BY <1>0
<1> HIDE DEF U, l, N, M
<1>1. n \in Nat
  <2>1. IsFiniteSet(1 .. l)
    BY <1>0, FS_Interval
  <2>2. U \subseteq 1 .. l
    BY <1>u
  <2> QED BY <2>1, <2>2, FS_Subset, FS_CardinalityType
<1>2. at \in [1 .. n -> U] /\ U = {at[k] : k \in DOMAIN at}
      /\ \A j, k \in DOMAIN at : j < k => at[j] < at[k]
  BY DEF Ascending, U
<1> HIDE DEF n
<1>3. DOMAIN at = 1 .. n /\ \A k \in 1 .. n : at[k] \in U
  BY <1>2
<1>4. ASSUME NEW k \in 1 .. n
      PROVE  /\ N[k] \in Messages
             /\ N[k].kind = "args" /\ N[k].inst = i2
             /\ N[k].id = L[at[k]].id /\ N[k].intent = L[at[k]].intent
  <2> DEFINE m == L[at[k]]
  <2>1. at[k] \in U
    BY <1>3
  <2>2. m \in Messages /\ m.kind = "args"
    BY <2>1, <1>0, <1>u
  <2>3. N[k] = [m EXCEPT !.inst = i2]
    BY <1>3 DEF N
  <2> HIDE DEF m
  <2>4. m \in Carriers
    BY <2>2 DEF Messages, Notes
  <2>5. /\ [m EXCEPT !.inst = i2] \in Carriers
        /\ [m EXCEPT !.inst = i2].kind = m.kind /\ [m EXCEPT !.inst = i2].inst = i2
        /\ [m EXCEPT !.inst = i2].id = m.id /\ [m EXCEPT !.inst = i2].intent = m.intent
    BY <2>4 DEF Carriers
  <2> QED BY <2>2, <2>3, <2>5 DEF Messages, m
<1>5. N \in Seq(Messages) /\ Len(N) = n
  <2>1. N = [k \in 1 .. n |-> N[k]]
    BY <1>3 DEF N
  <2>2. N \in [1 .. n -> Messages]
    BY <1>4, <2>1
  <2> QED BY <1>1, <2>2, FunctionIsSeq
<1>6. /\ M \in Seq(Messages) /\ Len(M) = n + 1 /\ M[1] = Create(i2)
      /\ \A k \in 2 .. n + 1 : M[k] = N[k - 1]
  <2> DEFINE c == <<Create(i2)>>
  <2>1. c \in Seq(Messages) /\ Len(c) = 1 /\ c[1] = Create(i2)
    <3>1. Create(i2) \in Messages
      BY DEF Create, Messages, Notes
    <3> QED BY <3>1
  <2>2. M = c \o N
    BY DEF M
  <2> HIDE DEF c
  <2>3. /\ c \o N \in Seq(Messages)
        /\ Len(c \o N) = Len(c) + Len(N)
        /\ \A k \in 1 .. Len(c) + Len(N) :
              (c \o N)[k] = IF k <= Len(c) THEN c[k] ELSE N[k - Len(c)]
    BY <1>5, <2>1, ConcatProperties
  <2>4. Len(M) = 1 + n /\ \A k \in 1 .. 1 + n : M[k] = IF k <= 1 THEN c[k] ELSE N[k - 1]
    BY <1>5, <2>1, <2>2, <2>3
  <2>5. 1 + n = n + 1 /\ 1 \in 1 .. 1 + n /\ \A k \in 2 .. n + 1 : k \in 1 .. 1 + n /\ ~(k <= 1)
    BY <1>1
  <2>6. M \in Seq(Messages)
    BY <2>2, <2>3
  <2> QED BY <2>1, <2>4, <2>5, <2>6
<1>7. /\ at \in [1 .. n -> 1 .. l]
      /\ \A k \in 1 .. n : L[at[k]].kind = "args" /\ L[at[k]].inst = i
      /\ \A k \in 1 .. l : L[k].kind = "args" /\ L[k].inst = i => \E j \in 1 .. n : at[j] = k
  <2>1. at \in [1 .. n -> 1 .. l]
    BY <1>2, <1>3, <1>u
  <2>2. \A k \in 1 .. n : L[at[k]].kind = "args" /\ L[at[k]].inst = i
    BY <1>3, <1>u
  <2>3. ASSUME NEW k \in 1 .. l, L[k].kind = "args", L[k].inst = i
        PROVE  \E j \in 1 .. n : at[j] = k
    <3>1. k \in U
      BY <1>u, <2>3
    <3> QED BY <1>2, <1>3, <3>1
  <2> QED BY <2>1, <2>2, <2>3
<1>8. Redelivers(L, i, M, i2, N, at)
  BY <1>1, <1>2, <1>3, <1>4, <1>5, <1>6, <1>7 DEF Redelivers, l
<1> QED BY <1>8 DEF M, N

\* The start ids of the intents that were not seen rise to the last one given.
LEMMA RestartNumbers ==
    ASSUME NEW L \in Seq(Messages), NEW i, NEW M, NEW i2, NEW N, NEW at,
           Redelivers(L, i, M, i2, N, at), Len(N) # 0,
           NEW a, NEW z, Numbers(L, i, a, z)
    PROVE  Numbers(M, i2, 0, z) /\ z > 0
<1>1. /\ N \in Seq(Messages) /\ Len(N) \in Nat
      /\ M \in Seq(Messages) /\ Len(M) = Len(N) + 1 /\ M[1] = Create(i2)
      /\ \A k \in 2 .. Len(M) : M[k] = N[k - 1]
      /\ at \in [1 .. Len(N) -> 1 .. Len(L)]
      /\ \A k \in 1 .. Len(N) : L[at[k]].kind = "args" /\ L[at[k]].inst = i
      /\ \A k \in 1 .. Len(L) : L[k].kind = "args" /\ L[k].inst = i =>
            \E j \in 1 .. Len(N) : at[j] = k
      /\ \A j, k \in 1 .. Len(N) : j < k => at[j] < at[k]
      /\ \A k \in 1 .. Len(N) : /\ N[k].kind = "args" /\ N[k].inst = i2
                                 /\ N[k].id = L[at[k]].id /\ N[k].intent = L[at[k]].intent
  BY DEF Redelivers
<1>2. a \in Nat /\ z \in Nat
  BY DEF Numbers
<1> DEFINE U == {k \in 1 .. Len(L) : L[k].kind = "args" /\ L[k].inst = i}
<1>u. \A k \in 1 .. Len(N) : at[k] \in U
  BY <1>1
<1>3. \A u \in U : /\ u \in 1 .. Len(L) /\ Waiting(L, i, u) /\ L[u].kind = "args"
                    /\ L[u].id \in Nat /\ a < L[u].id /\ L[u].id <= z
  <2> SUFFICES ASSUME NEW u \in U
               PROVE  /\ u \in 1 .. Len(L) /\ Waiting(L, i, u) /\ L[u].kind = "args"
                      /\ L[u].id \in Nat /\ a < L[u].id /\ L[u].id <= z
    OBVIOUS
  <2>1. u \in 1 .. Len(L) /\ L[u].kind = "args" /\ L[u].inst = i
    OBVIOUS
  <2>2. L[u] \in Messages
    BY <2>1, ElementOfSeq
  <2> QED BY <2>1, <2>2, MessageFields DEF Numbers, Waiting
<1>4. \A k \in 1 .. Len(M) : Waiting(M, i2, k) =>
          k - 1 \in 1 .. Len(N) /\ at[k - 1] \in U /\ M[k].id = L[at[k - 1]].id /\ M[k].kind = "args"
  <2> SUFFICES ASSUME NEW k \in 1 .. Len(M), Waiting(M, i2, k)
               PROVE  k - 1 \in 1 .. Len(N) /\ at[k - 1] \in U /\ M[k].id = L[at[k - 1]].id
                      /\ M[k].kind = "args"
    OBVIOUS
  <2>1. M[1].kind = "create"
    BY <1>1 DEF Create
  <2>2. k # 1
    BY <2>1 DEF Waiting
  <2>3. k \in 2 .. Len(M) /\ k - 1 \in 1 .. Len(N)
    BY <1>1, <2>2
  <2> HIDE DEF U
  <2>4. at[k - 1] \in U /\ M[k] = N[k - 1]
    BY <1>1, <1>u, <2>3
  <2> QED BY <1>1, <2>3, <2>4
<1>5. ASSUME NEW k \in 1 .. Len(M), Waiting(M, i2, k) PROVE 0 < M[k].id /\ M[k].id <= z
  <2>1. M[k].id \in Nat /\ a < M[k].id /\ M[k].id <= z
    BY <1>3, <1>4, <1>5
  <2> QED BY <1>2, <2>1
<1>6. ASSUME NEW j \in 1 .. Len(M), NEW k \in 1 .. Len(M), Before(M, i2, j, k)
      PROVE  M[j].id < M[k].id
  <2>1. Waiting(M, i2, j) /\ Waiting(M, i2, k)
    BY <1>6 DEF Before
  <2>2. j < k
    BY <1>4, <1>6, <2>1 DEF Before
  <2>3. j - 1 \in 1 .. Len(N) /\ k - 1 \in 1 .. Len(N) /\ j - 1 < k - 1
    BY <1>4, <2>1, <2>2
  <2>4. at[j - 1] < at[k - 1] /\ at[j - 1] \in U /\ at[k - 1] \in U
    BY <1>1, <2>3
  <2>5. Before(L, i, at[j - 1], at[k - 1])
    BY <1>3, <2>4 DEF Before
  <2>6. L[at[j - 1]].id < L[at[k - 1]].id
    BY <1>3, <2>4, <2>5 DEF Numbers
  <2> QED BY <1>4, <2>1, <2>6
<1>7. PICK u \in U : TRUE
  <2>1. 1 \in 1 .. Len(N)
    BY <1>1
  <2> QED BY <1>u, <2>1
<1> HIDE DEF U
<1>8. z > 0 /\ a # z
  BY <1>2, <1>3, <1>7
<1>9. \E k \in 1 .. Len(M) : Waiting(M, i2, k) /\ M[k].id = z
  <2>1. PICK k \in 1 .. Len(L) : Waiting(L, i, k) /\ L[k].id = z
    BY <1>8 DEF Numbers
  <2>2. L[k].kind = "args"
    <3>1. SUFFICES ASSUME L[k].kind = "run" PROVE FALSE
      BY <2>1 DEF Waiting
    <3>2. Before(L, i, k, u)
      BY <1>3, <2>1, <3>1 DEF Before
    <3>3. L[k].id < L[u].id
      BY <1>3, <3>2 DEF Numbers
    <3> QED BY <1>2, <1>3, <2>1, <3>3
  <2>4. PICK p \in 1 .. Len(N) : at[p] = k
    BY <1>1, <2>1, <2>2 DEF Waiting
  <2>5. p + 1 \in 2 .. Len(M) /\ (p + 1) - 1 = p /\ p + 1 \in 1 .. Len(M)
    BY <1>1
  <2>6. M[p + 1] = N[p]
    BY <1>1, <2>5
  <2>7. N[p].kind = "args" /\ N[p].inst = i2 /\ N[p].id = z
    BY <1>1, <2>1, <2>4
  <2>8. Waiting(M, i2, p + 1) /\ M[p + 1].id = z
    BY <2>6, <2>7 DEF Waiting
  <2> QED BY <2>5, <2>8
<1>10. 0 \in Nat /\ 0 <= z
  BY <1>2
<1>11. /\ \A k \in 1 .. Len(M) : Waiting(M, i2, k) => 0 < M[k].id /\ M[k].id <= z
       /\ \A j, k \in 1 .. Len(M) : Before(M, i2, j, k) => M[j].id < M[k].id
  BY <1>5, <1>6
<1> QED BY <1>2, <1>8, <1>9, <1>10, <1>11 DEF Numbers

\* The new service object's controls follow the host applications again.
LEMMA RestartFollows ==
    ASSUME NEW L \in Seq(Messages), NEW i, NEW M, NEW i2, NEW N, NEW at,
           Redelivers(L, i, M, i2, N, at),
           NEW h, NEW c, NEW to, Follows(L, i, h, c, to)
    PROVE  Follows(M, i2, h, "absent", to)
<1>1. /\ N \in Seq(Messages) /\ Len(N) \in Nat
      /\ M \in Seq(Messages) /\ Len(M) = Len(N) + 1 /\ M[1] = Create(i2)
      /\ \A k \in 2 .. Len(M) : M[k] = N[k - 1]
      /\ at \in [1 .. Len(N) -> 1 .. Len(L)]
      /\ \A k \in 1 .. Len(N) : L[at[k]].kind = "args" /\ L[at[k]].inst = i
      /\ \A k \in 1 .. Len(L) : L[k].kind = "args" /\ L[k].inst = i =>
            \E j \in 1 .. Len(N) : at[j] = k
      /\ \A j, k \in 1 .. Len(N) : j < k => at[j] < at[k]
      /\ \A k \in 1 .. Len(N) : /\ N[k].kind = "args" /\ N[k].inst = i2
                                 /\ N[k].id = L[at[k]].id /\ N[k].intent = L[at[k]].intent
  BY DEF Redelivers
<1>2. PICK a : Walk(L, "args", i, h, a) /\ a[Len(L)] = to
  BY DEF Follows
<1> DEFINE n == Len(N)
           f == [k \in 0 .. n |-> IF k = 0 THEN 0 ELSE at[k]]
<1> HIDE DEF n
<1>3. Len(L) \in Nat /\ n \in Nat
  BY <1>1 DEF n
<1>4. at \in [1 .. n -> 1 .. Len(L)] /\ \A j, k \in 1 .. n : j < k => at[j] < at[k]
  BY <1>1 DEF n
<1>5. f[0] = 0 /\ \A k \in 1 .. n : f[k] = at[k] /\ at[k] \in 1 .. Len(L)
  BY <1>3, <1>4
<1>6. f \in [0 .. n -> 0 .. Len(L)]
  BY <1>3, <1>4
<1> HIDE DEF f
<1>7. \A j, k \in 0 .. n : j < k => f[j] < f[k]
  <2> SUFFICES ASSUME NEW j \in 0 .. n, NEW k \in 0 .. n, j < k PROVE f[j] < f[k]
    OBVIOUS
  <2>1. k \in 1 .. n /\ (j = 0 \/ j \in 1 .. n)
    OBVIOUS
  <2>2. CASE j = 0
    <3>1. f[j] = 0 /\ f[k] \in 1 .. Len(L)
      BY <1>5, <2>1, <2>2
    <3> QED BY <3>1
  <2>3. CASE j \in 1 .. n
    BY <1>4, <1>5, <2>1, <2>3
  <2> QED BY <2>1, <2>2, <2>3
<1>8. \A k \in 1 .. n : /\ Mine(N[k], "args", i2, h) <=> Mine(L[f[k]], "args", i, h)
                        /\ Mine(N[k], "args", i2, h) => N[k].intent = L[f[k]].intent
  <2> SUFFICES ASSUME NEW k \in 1 .. n
               PROVE  /\ Mine(N[k], "args", i2, h) <=> Mine(L[f[k]], "args", i, h)
                      /\ Mine(N[k], "args", i2, h) => N[k].intent = L[f[k]].intent
    OBVIOUS
  <2>1. f[k] = at[k]
    BY <1>4, <1>5
  <2>2. L[at[k]].kind = "args" /\ L[at[k]].inst = i
    BY <1>1 DEF n
  <2> QED BY <1>1, <2>1, <2>2 DEF Mine, n
<1>9. \A k \in 1 .. Len(L) : k > f[0] /\ Mine(L[k], "args", i, h) => \E j \in 1 .. n : f[j] = k
  <2> SUFFICES ASSUME NEW k \in 1 .. Len(L), Mine(L[k], "args", i, h)
               PROVE  \E j \in 1 .. n : f[j] = k
    OBVIOUS
  <2>1. L[k].kind = "args" /\ L[k].inst = i
    BY DEF Mine
  <2>2. PICK j \in 1 .. n : at[j] = k
    BY <1>1, <2>1 DEF n
  <2> QED BY <1>5, <2>2
<1>10. Keeps(L, N, "args", i, i2, h, f)
  BY <1>3, <1>6, <1>7, <1>8, <1>9 DEF Keeps, n
<1>11. PICK q : Walk(N, "args", i2, h, q) /\ q[Len(N)] = a[Len(L)]
  BY <1>2, <1>10, WalkKept
<1>12. ~Mine(M[1], "args", i2, h)
  BY <1>1 DEF Mine, Create
<1>13. PICK b : Walk(M, "args", i2, h, b) /\ b[Len(M)] = q[Len(N)]
  BY <1>1, <1>11, <1>12, WalkFront
<1>14. b[0] \in HostStates
  <2>1. Len(M) \in Nat
    BY <1>1
  <2> QED BY <1>13, <2>1 DEF Walk
<1>15. \A k \in 1 .. Len(M) : ~Mine(M[k], "run", i2, h)
  <2> SUFFICES ASSUME NEW k \in 1 .. Len(M) PROVE M[k].kind # "run"
    BY DEF Mine
  <2>1. CASE k = 1
    BY <1>1, <2>1 DEF Create
  <2>2. CASE k # 1
    <3>1. k \in 2 .. Len(M) /\ k - 1 \in 1 .. Len(N)
      BY <1>1, <2>2
    <3> QED BY <1>1, <3>1
  <2> QED BY <2>1, <2>2
<1>16. PICK first \in HostStates : first = b[0]
  BY <1>14
<1>17. PICK r : Walk(M, "run", i2, h, r) /\ r[0] = first /\ r[Len(M)] = first
  BY <1>1, <1>15, WalkStill
<1> QED BY <1>2, <1>11, <1>13, <1>16, <1>17, WalksFollow

-----------------------------------------------------------------------------
(* The lives of the service objects. *)

Queued(L, m) == \E k \in 1 .. Len(L) : L[k] = m
Alive(obj, i) == obj[i].life = "alive"

\* With queue L, service object srv started and md of them made: a service object is blank
\* until its creation is handled; one that is not the started one any more waits for its
\* end; so there is at most one alive.
Lives(L, srv, md, obj) ==
    /\ md \in 0 .. MaxInstances /\ srv \in {0, md}
    /\ Ranked(L, md)
    /\ \A i \in Instances : i > md \/ Queued(L, Create(i)) => obj[i] = NoInstance
    /\ \A i \in Instances : Alive(obj, i) =>
          \A k \in 1 .. Len(L) : L[k].kind = "create" => i < L[k].inst
    /\ \A i \in Instances : Alive(obj, i) \/ Queued(L, Create(i)) =>
          i = srv \/ Queued(L, Destroy(i))
    /\ srv # 0 => Alive(obj, srv) \/ Queued(L, Create(srv))
    /\ srv # 0 => ~Queued(L, Destroy(srv))
    /\ \A i, j \in Instances : Alive(obj, i) /\ Alive(obj, j) => i = j

\* The started service object is one of those made.
LEMMA StartedIsMade ==
    ASSUME NEW L, NEW srv, NEW md, NEW obj, Lives(L, srv, md, obj)
    PROVE  /\ md \in Nat /\ md <= MaxInstances /\ MaxInstances \in Nat
           /\ srv # 0 => srv \in Instances /\ srv = md
BY WatchAssumption DEF Lives, Instances

\* A blank service object is not alive.
LEMMA BlankFields ==
    /\ NoInstance \in Objects
    /\ NoInstance.life = "none" /\ NoInstance.task = "none" /\ NoInstance.startId = 0
    /\ ~NoInstance.pending /\ NoInstance.receivers = {}
    /\ \A h \in Hosts : NoInstance.controls[h] = "absent"
BY DEF NoInstance, Objects, ControlStates, HostStates

\* The head of a queue is the only message of its kind for its service object if it creates
\* or destroys it, and nothing else goes before the creation.
LEMMA HeadIsFirst ==
    ASSUME NEW L, NEW M, Thinned(L, M), NEW n \in Nat, Ranked(L, n)
    PROVE  /\ L[1] \in Messages /\ L[1].inst \in Instances /\ L[1].inst <= n
           /\ \A g \in Instances : Queued(M, Create(g)) => Queued(L, Create(g)) /\ L[1].inst < g
           /\ \A g \in Instances : Queued(M, Destroy(g)) => Queued(L, Destroy(g))
           /\ \A g \in Instances : /\ L[1].kind = "destroy" /\ Queued(M, Destroy(g)) => L[1].inst < g
                                   /\ L[1].kind = "create" /\ Queued(M, Destroy(g)) => L[1].inst <= g
           /\ \A g \in Instances : Queued(L, Create(g)) => L[1] = Create(g) \/ Queued(M, Create(g))
           /\ \A g \in Instances : Queued(L, Destroy(g)) => L[1] = Destroy(g) \/ Queued(M, Destroy(g))
<1>1. L \in Seq(Messages) /\ 1 \in 1 .. Len(L) /\ Len(L) \in Nat
  BY DEF Thinned
<1>2. L[1] \in Messages /\ L[1].inst \in Instances /\ L[1].inst <= n
  BY <1>1, ElementOfSeq, MessageFields DEF Ranked
<1>3. \A g \in Instances : Create(g).kind = "create" /\ Create(g).inst = g
                            /\ Destroy(g).kind = "destroy" /\ Destroy(g).inst = g
  BY DEF Create, Destroy
<1>4. ASSUME NEW m, Queued(M, m) PROVE \E j \in 1 .. Len(L) : 1 < j /\ L[j] = m
  <2>1. PICK k \in 1 .. Len(M) : M[k] = m
    BY <1>4 DEF Queued
  <2>2. PICK j \in 1 .. Len(L) : j # 1 /\ M[k] = L[j]
    BY ThinnedHolds
  <2> QED BY <1>1, <2>1, <2>2
<1>5. ASSUME NEW m, Queued(L, m), m.kind # "result" PROVE L[1] = m \/ Queued(M, m)
  <2>1. PICK k \in 1 .. Len(L) : L[k] = m
    BY <1>5 DEF Queued
  <2>2. CASE k = 1
    BY <2>1, <2>2
  <2>3. CASE k # 1
    BY <1>5, <2>1, <2>3, ThinnedHolds DEF Queued
  <2> QED BY <2>2, <2>3
<1>6. ASSUME NEW g \in Instances, Queued(M, Create(g)) PROVE Queued(L, Create(g)) /\ L[1].inst < g
  <2>1. PICK j \in 1 .. Len(L) : 1 < j /\ L[j] = Create(g)
    BY <1>4, <1>6
  <2> QED BY <1>1, <1>3, <2>1 DEF Ranked, Queued
<1>7. ASSUME NEW g \in Instances, Queued(M, Destroy(g))
      PROVE  /\ Queued(L, Destroy(g))
             /\ L[1].kind = "destroy" => L[1].inst < g
             /\ L[1].kind = "create" => L[1].inst <= g
  <2>1. PICK j \in 1 .. Len(L) : 1 < j /\ L[j] = Destroy(g)
    BY <1>4, <1>7
  <2> QED BY <1>1, <1>3, <2>1 DEF Ranked, Queued
<1> QED BY <1>2, <1>3, <1>5, <1>6, <1>7

\* Handling an intent or a result leaves the lives as they are.
LEMMA LivesHandled ==
    ASSUME NEW L, NEW M, Thinned(L, M), NEW srv, NEW md, NEW obj, Lives(L, srv, md, obj),
           L[1].kind \in {"args", "run", "result"},
           NEW obj2, obj2[L[1].inst].life = obj[L[1].inst].life,
           \A g \in Instances : g # L[1].inst => obj2[g] = obj[g]
    PROVE  Lives(M, srv, md, obj2)
<1>1. md \in Nat /\ Ranked(L, md) /\ Ranked(M, md)
  BY StartedIsMade, ThinnedRanked DEF Lives
<1>2. /\ L[1].inst \in Instances /\ L[1].inst <= md
      /\ \A g \in Instances : Queued(M, Create(g)) => Queued(L, Create(g)) /\ L[1].inst < g
      /\ \A g \in Instances : Queued(M, Destroy(g)) => Queued(L, Destroy(g))
      /\ \A g \in Instances : Queued(L, Create(g)) => Queued(M, Create(g))
      /\ \A g \in Instances : Queued(L, Destroy(g)) => Queued(M, Destroy(g))
  BY <1>1, HeadIsFirst DEF Create, Destroy
<1>3. \A g \in Instances : Alive(obj2, g) <=> Alive(obj, g)
  BY DEF Alive
<1>4. ASSUME NEW g \in Instances, g > md \/ Queued(M, Create(g)) PROVE obj2[g] = NoInstance
  <2>1. g \in Nat /\ L[1].inst \in Nat
    BY <1>2 DEF Instances
  <2>2. g # L[1].inst
    BY <1>1, <1>2, <1>4, <2>1
  <2> QED BY <1>2, <1>4, <2>2 DEF Lives
<1>5. \A k \in 1 .. Len(M) : \E j \in 1 .. Len(L) : M[k] = L[j]
  BY ThinnedHolds
<1>6. \A g \in Instances : Alive(obj2, g) =>
          \A k \in 1 .. Len(M) : M[k].kind = "create" => g < M[k].inst
  BY <1>3, <1>5 DEF Lives
<1>7. srv # 0 => srv \in Instances
  BY StartedIsMade
<1> QED BY <1>1, <1>2, <1>3, <1>4, <1>6, <1>7 DEF Lives

\* The creation of a service object makes it alive, the only one.
LEMMA LivesCreated ==
    ASSUME NEW L, NEW M, Thinned(L, M), NEW srv, NEW md, NEW obj, Lives(L, srv, md, obj),
           L[1].kind = "create",
           NEW obj2, obj2[L[1].inst].life = "alive",
           \A g \in Instances : g # L[1].inst => obj2[g] = obj[g]
    PROVE  Lives(M, srv, md, obj2)
<1> DEFINE i == L[1].inst
<1>1. md \in Nat /\ Ranked(L, md) /\ Ranked(M, md)
  BY StartedIsMade, ThinnedRanked DEF Lives
<1>2. /\ L[1] \in Messages /\ i \in Instances /\ i <= md
      /\ \A g \in Instances : Queued(M, Create(g)) => Queued(L, Create(g)) /\ i < g
      /\ \A g \in Instances : Queued(M, Destroy(g)) => Queued(L, Destroy(g)) /\ i <= g
      /\ \A g \in Instances : Queued(L, Create(g)) => L[1] = Create(g) \/ Queued(M, Create(g))
      /\ \A g \in Instances : Queued(L, Destroy(g)) => L[1] = Destroy(g) \/ Queued(M, Destroy(g))
  BY <1>1, HeadIsFirst
<1>3. L[1] = Create(i) /\ Queued(L, Create(i)) /\ 1 \in 1 .. Len(L)
  <2>1. L[1] = Create(i)
    BY <1>2, MessageFields DEF Create
  <2>2. 1 \in 1 .. Len(L)
    BY DEF Thinned
  <2> QED BY <2>1, <2>2 DEF Queued
<1>4. /\ \A g \in Instances : Queued(L, Create(g)) => g = i \/ Queued(M, Create(g))
      /\ \A g \in Instances : Queued(L, Destroy(g)) => Queued(M, Destroy(g))
  BY <1>2, <1>3 DEF Create, Destroy
<1>5. \A g \in Instances : g \in Nat
  BY DEF Instances
<1> HIDE DEF i
<1>6. \A g \in Instances : ~Alive(obj, g)
  <2> SUFFICES ASSUME NEW g \in Instances, Alive(obj, g) PROVE FALSE
    OBVIOUS
  <2>1. g < i
    BY <1>3 DEF Lives, i
  <2>2. g = srv \/ Queued(L, Destroy(g))
    BY DEF Lives
  <2>3. g # srv
    <3>1. srv = md \/ srv = 0
      BY DEF Lives
    <3>2. g \in Nat /\ g # 0 /\ i \in Nat
      BY <1>2 DEF Instances
    <3> QED BY <1>1, <1>2, <2>1, <3>1, <3>2
  <2>4. i <= g
    BY <1>2, <1>4, <2>2, <2>3
  <2> QED BY <1>2, <1>5, <2>1, <2>4
<1>7. \A g \in Instances : Alive(obj2, g) <=> g = i
  BY <1>6 DEF Alive, i
<1>8. ASSUME NEW g \in Instances, g > md \/ Queued(M, Create(g)) PROVE obj2[g] = NoInstance
  <2>1. g # i
    BY <1>1, <1>2, <1>5, <1>8
  <2> QED BY <1>2, <1>8, <2>1 DEF Lives, i
<1>9. ASSUME NEW k \in 1 .. Len(M), M[k].kind = "create" PROVE i < M[k].inst
  <2>1. M[k] \in Messages
    BY ElementOfSeq DEF Thinned
  <2>2. M[k] = Create(M[k].inst) /\ M[k].inst \in Instances
    BY <1>9, <2>1, MessageFields DEF Create
  <2>3. Queued(M, Create(M[k].inst))
    BY <2>2 DEF Queued
  <2> QED BY <1>2, <2>2, <2>3
<1>10. \A g \in Instances : Alive(obj2, g) \/ Queued(M, Create(g)) =>
           g = srv \/ Queued(M, Destroy(g))
  BY <1>2, <1>3, <1>4, <1>7 DEF Lives
<1>11. srv # 0 => Alive(obj2, srv) \/ Queued(M, Create(srv))
  BY <1>4, <1>6, <1>7, StartedIsMade DEF Lives
<1>12. srv # 0 => ~Queued(M, Destroy(srv))
  BY <1>2, StartedIsMade DEF Lives
<1> QED BY <1>1, <1>7, <1>8, <1>9, <1>10, <1>11, <1>12 DEF Lives

\* The end of a service object.
LEMMA LivesDestroyed ==
    ASSUME NEW L, NEW M, Thinned(L, M), NEW srv, NEW md, NEW obj, Lives(L, srv, md, obj),
           L[1].kind = "destroy",
           NEW obj2, obj2[L[1].inst].life = "destroyed",
           \A g \in Instances : g # L[1].inst => obj2[g] = obj[g]
    PROVE  Lives(M, srv, md, obj2) /\ L[1].inst # srv
<1> DEFINE i == L[1].inst
<1>1. md \in Nat /\ Ranked(L, md) /\ Ranked(M, md)
  BY StartedIsMade, ThinnedRanked DEF Lives
<1>2. /\ L[1] \in Messages /\ i \in Instances /\ i <= md
      /\ \A g \in Instances : Queued(M, Create(g)) => Queued(L, Create(g)) /\ i < g
      /\ \A g \in Instances : Queued(M, Destroy(g)) => Queued(L, Destroy(g)) /\ i < g
      /\ \A g \in Instances : Queued(L, Create(g)) => L[1] = Create(g) \/ Queued(M, Create(g))
      /\ \A g \in Instances : Queued(L, Destroy(g)) => L[1] = Destroy(g) \/ Queued(M, Destroy(g))
  BY <1>1, HeadIsFirst
<1>3. L[1] = Destroy(i) /\ Queued(L, Destroy(i))
  <2>1. L[1] = Destroy(i)
    BY <1>2, MessageFields DEF Destroy
  <2>2. 1 \in 1 .. Len(L)
    BY DEF Thinned
  <2> QED BY <2>1, <2>2 DEF Queued
<1>4. /\ \A g \in Instances : Queued(L, Create(g)) => Queued(M, Create(g))
      /\ \A g \in Instances : Queued(L, Destroy(g)) => g = i \/ Queued(M, Destroy(g))
  BY <1>2, <1>3 DEF Create, Destroy
<1>5. \A g \in Instances : g \in Nat
  BY DEF Instances
<1> HIDE DEF i
<1>6. \A g \in Instances : Alive(obj2, g) => g # i /\ Alive(obj, g)
  BY DEF Alive, i
<1>7. i # srv
  BY <1>2, <1>3, <1>5 DEF Lives, Instances
<1>8. ASSUME NEW g \in Instances, g > md \/ Queued(M, Create(g)) PROVE obj2[g] = NoInstance
  <2>1. g # i
    BY <1>1, <1>2, <1>5, <1>8
  <2> QED BY <1>2, <1>8, <2>1 DEF Lives, i
<1>9. \A k \in 1 .. Len(M) : \E j \in 1 .. Len(L) : M[k] = L[j]
  BY ThinnedHolds
<1>10. \A g \in Instances : Alive(obj2, g) =>
           \A k \in 1 .. Len(M) : M[k].kind = "create" => g < M[k].inst
  BY <1>6, <1>9 DEF Lives
<1>11. \A g \in Instances : Alive(obj2, g) \/ Queued(M, Create(g)) =>
           g = srv \/ Queued(M, Destroy(g))
  <2> SUFFICES ASSUME NEW g \in Instances, Alive(obj2, g) \/ Queued(M, Create(g)), g # srv
               PROVE  Queued(M, Destroy(g))
    OBVIOUS
  <2>1. g # i
    BY <1>2, <1>5, <1>6
  <2>2. Queued(L, Destroy(g))
    BY <1>2, <1>6 DEF Lives
  <2> QED BY <1>4, <2>1, <2>2
<1>12. srv # 0 => Alive(obj2, srv) \/ Queued(M, Create(srv))
  <2>1. srv # 0 => srv \in Instances /\ (Alive(obj, srv) \/ Queued(L, Create(srv)))
    BY StartedIsMade DEF Lives
  <2>2. srv # 0 => (Alive(obj, srv) => Alive(obj2, srv))
    BY <1>7, <2>1 DEF Alive, i
  <2> QED BY <1>4, <2>1, <2>2
<1>13. srv # 0 => ~Queued(M, Destroy(srv))
  BY <1>2, StartedIsMade DEF Lives
<1>14. \A g, h \in Instances : Alive(obj2, g) /\ Alive(obj2, h) => g = h
  BY <1>6 DEF Lives
<1> QED BY <1>1, <1>7, <1>8, <1>10, <1>11, <1>12, <1>13, <1>14 DEF Lives, i

\* What is queued when a message was put behind the others.
LEMMA AppendQueued ==
    ASSUME NEW L \in Seq(Messages), NEW m \in Messages
    PROVE  /\ \A x : Queued(Append(L, m), x) <=> Queued(L, x) \/ x = m
           /\ \A k \in 1 .. Len(Append(L, m)) :
                  Append(L, m)[k] = m \/ \E j \in 1 .. Len(L) : Append(L, m)[k] = L[j]
<1> DEFINE M == Append(L, m)
<1>1. /\ Len(M) = Len(L) + 1 /\ Len(L) \in Nat
      /\ \A k \in 1 .. Len(L) : M[k] = L[k] /\ k \in 1 .. Len(M)
      /\ M[Len(L) + 1] = m /\ Len(L) + 1 \in 1 .. Len(M)
      /\ \A k \in 1 .. Len(M) : k \in 1 .. Len(L) \/ k = Len(L) + 1
  BY AppendHolds
<1> HIDE DEF M
<1> QED BY <1>1 DEF Queued, M

\* An intent, its runner or a result is put behind the others.
LEMMA LivesPosted ==
    ASSUME NEW L \in Seq(Messages), NEW srv, NEW md, NEW obj, Lives(L, srv, md, obj),
           NEW m \in Messages, m.kind \in {"args", "run", "result"}, m.inst <= md
    PROVE  Lives(Append(L, m), srv, md, obj)
<1> DEFINE M == Append(L, m)
<1>1. md \in Nat /\ Ranked(L, md)
  BY StartedIsMade DEF Lives
<1>2. Ranked(M, md)
  BY <1>1, AppendRanked
<1>3. /\ \A x : Queued(M, x) <=> Queued(L, x) \/ x = m
      /\ \A k \in 1 .. Len(M) : M[k] = m \/ \E j \in 1 .. Len(L) : M[k] = L[j]
  BY AppendQueued
<1>4. \A g : Create(g) # m /\ Destroy(g) # m
  BY DEF Create, Destroy
<1> HIDE DEF M
<1>5. \A g : /\ Queued(M, Create(g)) <=> Queued(L, Create(g))
             /\ Queued(M, Destroy(g)) <=> Queued(L, Destroy(g))
  BY <1>3, <1>4
<1>6. \A g \in Instances : Alive(obj, g) =>
          \A k \in 1 .. Len(M) : M[k].kind = "create" => g < M[k].inst
  BY <1>3 DEF Lives
<1> QED BY <1>2, <1>5, <1>6 DEF Lives, M

\* The service is stopped.
LEMMA LivesStopped ==
    ASSUME NEW L \in Seq(Messages), NEW srv, NEW md, NEW obj, Lives(L, srv, md, obj), srv # 0
    PROVE  Lives(Append(L, Destroy(srv)), 0, md, obj)
<1> DEFINE m == Destroy(srv)
           M == Append(L, m)
<1>1. md \in Nat /\ Ranked(L, md) /\ srv \in Instances /\ srv = md
  <2>1. md \in Nat /\ srv \in Instances /\ srv = md
    BY StartedIsMade
  <2>2. Ranked(L, md)
    BY DEF Lives
  <2> QED BY <2>1, <2>2
<1>2. m \in Messages /\ m.kind = "destroy" /\ m.inst = srv
  BY <1>1 DEF Destroy, Messages, Notes
<1>3. \A k \in 1 .. Len(L) : L[k] # m
  BY DEF Lives, Queued
<1> HIDE DEF m
<1>4. Ranked(M, md)
  BY <1>1, <1>2, <1>3, AppendRanked
<1>5. /\ \A x : Queued(M, x) <=> Queued(L, x) \/ x = m
      /\ \A k \in 1 .. Len(M) : M[k] = m \/ \E j \in 1 .. Len(L) : M[k] = L[j]
  BY <1>2, AppendQueued
<1>6. \A g : Create(g) # m /\ (Destroy(g) = m <=> g = srv)
  BY DEF Create, Destroy, m
<1> HIDE DEF M
<1>7. \A g : /\ Queued(M, Create(g)) <=> Queued(L, Create(g))
             /\ Queued(M, Destroy(g)) <=> Queued(L, Destroy(g)) \/ g = srv
  BY <1>5, <1>6
<1>8. \A g \in Instances : Alive(obj, g) =>
          \A k \in 1 .. Len(M) : M[k].kind = "create" => g < M[k].inst
  BY <1>2, <1>5 DEF Lives
<1> QED BY <1>4, <1>7, <1>8 DEF Lives, M, m

\* The service is started, as the next service object.
LEMMA LivesStarted ==
    ASSUME NEW L \in Seq(Messages), NEW md, NEW obj, Lives(L, 0, md, obj), md < MaxInstances
    PROVE  Lives(Append(L, Create(md + 1)), md + 1, md + 1, obj)
<1> DEFINE n == md + 1
           m == Create(n)
           M == Append(L, m)
<1>1. md \in Nat /\ Ranked(L, md) /\ n \in Instances /\ n \in Nat /\ n # 0
      /\ md <= n /\ md < n /\ n \in 0 .. MaxInstances
  <2>1. md \in Nat /\ MaxInstances \in Nat
    BY StartedIsMade
  <2>2. Ranked(L, md)
    BY DEF Lives
  <2> QED BY <2>1, <2>2 DEF Instances
<1>2. m \in Messages /\ m.kind = "create" /\ m.inst = n
  BY <1>1 DEF Create, Messages, Notes
<1> HIDE DEF m
<1>3. Ranked(M, n)
  <2>1. n <= n
    BY <1>1
  <2> HIDE DEF n
  <2> QED BY <1>1, <1>2, <2>1, AppendRanked
<1>4. /\ \A x : Queued(M, x) <=> Queued(L, x) \/ x = m
      /\ \A k \in 1 .. Len(M) : M[k] = m \/ \E j \in 1 .. Len(L) : M[k] = L[j]
  BY <1>2, AppendQueued
<1>5. \A g : Destroy(g) # m /\ (Create(g) = m <=> g = n)
  BY DEF Create, Destroy, m
<1> HIDE DEF M
<1>6. \A g : /\ Queued(M, Create(g)) <=> Queued(L, Create(g)) \/ g = n
             /\ Queued(M, Destroy(g)) <=> Queued(L, Destroy(g))
  BY <1>4, <1>5
<1>7. \A g \in Instances : g \in Nat /\ (g > n => g > md)
  BY <1>1 DEF Instances
<1>8. obj[n] = NoInstance
  BY <1>1 DEF Lives
<1>9. \A g \in Instances : Alive(obj, g) => g < n
  <2> SUFFICES ASSUME NEW g \in Instances, ~(g < n) PROVE ~Alive(obj, g)
    OBVIOUS
  <2>1. g > md
    BY <1>1, <1>7
  <2>2. obj[g] = NoInstance
    BY <2>1 DEF Lives
  <2> QED BY <2>2, BlankFields DEF Alive
<1>10. \A g \in Instances : Alive(obj, g) =>
           \A k \in 1 .. Len(M) : M[k].kind = "create" => g < M[k].inst
  BY <1>2, <1>4, <1>9 DEF Lives
<1>11. ~Queued(L, Destroy(n))
  <2>1. \A k \in 1 .. Len(L) : L[k].inst <= md
    BY <1>1 DEF Ranked
  <2>2. ~(n <= md)
    BY <1>1
  <2> QED BY <2>1, <2>2 DEF Queued, Destroy
<1> HIDE DEF n
<1>12. \A g \in Instances : g > n \/ Queued(M, Create(g)) => obj[g] = NoInstance
  BY <1>6, <1>7, <1>8 DEF Lives
<1>13. \A g \in Instances : Alive(obj, g) \/ Queued(M, Create(g)) => g = n \/ Queued(M, Destroy(g))
  <2>1. \A g \in Instances : Alive(obj, g) \/ Queued(L, Create(g)) => g = 0 \/ Queued(L, Destroy(g))
    BY DEF Lives
  <2>2. 0 \notin Instances
    BY DEF Instances
  <2> QED BY <1>6, <2>1, <2>2
<1>14. \A g, h \in Instances : Alive(obj, g) /\ Alive(obj, h) => g = h
  BY DEF Lives
<1>15. Queued(M, Create(n)) /\ ~Queued(M, Destroy(n))
  BY <1>6, <1>11
<1>16. Lives(M, n, n, obj)
  BY <1>1, <1>3, <1>10, <1>12, <1>13, <1>14, <1>15 DEF Lives
<1> QED BY <1>16 DEF M, m, n

\* A process that is started again has only the service object that is to be created.
LEMMA LivesRestarted ==
    ASSUME NEW M \in Seq(Messages), NEW n \in Instances, Len(M) # 0,
           M[1] = Create(n),
           \A k \in 2 .. Len(M) : M[k].kind = "args" /\ M[k].inst = n,
           NEW obj, \A g \in Instances : obj[g] = NoInstance
    PROVE  Lives(M, n, n, obj)
<1>1. n \in 0 .. MaxInstances /\ n \in Nat /\ Len(M) \in Nat /\ 1 \in 1 .. Len(M)
  BY WatchAssumption DEF Instances
<1>2. \A k \in 1 .. Len(M) : k = 1 \/ k \in 2 .. Len(M)
  BY <1>1
<1>3. M[1].kind = "create" /\ M[1].inst = n
  BY DEF Create
<1>4. \A k \in 1 .. Len(M) : M[k].inst = n /\ (M[k].kind = "args" \/ M[k].kind = "create")
  BY <1>2, <1>3
<1>5. \A j, k \in 1 .. Len(M) : j < k => M[k].kind = "args"
  <2> SUFFICES ASSUME NEW j \in 1 .. Len(M), NEW k \in 1 .. Len(M), j < k PROVE k # 1
    BY <1>2
  <2> QED OBVIOUS
<1>6. Ranked(M, n)
  <2>1. n <= n
    BY <1>1
  <2> QED BY <1>4, <1>5, <2>1 DEF Ranked
<1>7. \A g : ~Queued(M, Destroy(g))
  BY <1>4 DEF Queued, Destroy
<1>8. \A g : Queued(M, Create(g)) => g = n
  BY <1>4 DEF Queued, Create
<1>9. Queued(M, Create(n))
  BY <1>1 DEF Queued
<1>10. \A g \in Instances : ~Alive(obj, g)
  BY BlankFields DEF Alive
<1> QED BY <1>1, <1>6, <1>7, <1>8, <1>9, <1>10 DEF Lives

\* A process that is not has none.
LEMMA LivesEnded ==
    ASSUME NEW md \in 0 .. MaxInstances,
           NEW obj, \A g \in Instances : obj[g] = NoInstance
    PROVE  Lives(<<>>, 0, md, obj)
<1>1. Len(<<>>) = 0 /\ 1 .. 0 = {}
  BY EmptySeq
<1>2. \A g \in Instances : ~Alive(obj, g)
  BY BlankFields DEF Alive
<1>3. \A m : ~Queued(<<>>, m)
  BY <1>1 DEF Queued
<1>4. Ranked(<<>>, md)
  BY <1>1 DEF Ranked
<1> QED BY <1>1, <1>2, <1>3, <1>4 DEF Lives

-----------------------------------------------------------------------------
(* The inductive invariant. *)

WatchTyped ==
    /\ looper \in Seq(Messages)
    /\ lastId \in Nat
    /\ insts \in [Instances -> Objects]
    /\ shown \in [Hosts -> HostStates]
    /\ connected \in BOOLEAN /\ activity \in BOOLEAN
    /\ owed \in {"nothing", "waiting", "running"}

\* A live service object keeps receivers and running controls together, and queues a
\* request only behind a registration.
Kept(obj) == \A i \in Instances : Alive(obj, i) => Clean(obj[i]) /\ Queues(obj[i])

\* A request is owed only by a live service object whose registration runs.
Owes(obj, what) ==
    /\ what = "running" => \E i \in Instances : Alive(obj, i) /\ obj[i].task # "none"
    /\ what = "waiting" =>
          \E i \in Instances : Alive(obj, i) /\ obj[i].task # "none" /\ obj[i].pending

\* The started service is given its intents in the order of their start ids.
Ordered(L, srv, obj, last) ==
    srv # 0 => last > 0 /\ Numbers(L, srv, obj[srv].startId, last)

\* A service that has handled its last intent and registers nothing shows a control.
Resting(srv, obj, last) ==
    srv # 0 /\ Alive(obj, srv) /\ obj[srv].task = "none" /\ obj[srv].startId = last =>
        ~Cleared(obj[srv])

\* Its controls follow the host applications.
Following(L, srv, obj, show) ==
    srv # 0 => \A h \in Hosts : Follows(L, srv, h, obj[srv].controls[h], show[h])

WatchInv ==
    /\ WatchTyped
    /\ Lives(looper, service, made, insts)
    /\ Kept(insts)
    /\ Owes(insts, owed)
    /\ Ordered(looper, service, insts, lastId)
    /\ Resting(service, insts, lastId)
    /\ Following(looper, service, insts, shown)

\* It holds when the process starts.
LEMMA WatchInitial == WatchInit => WatchInv
<1> SUFFICES ASSUME WatchInit PROVE WatchInv
  OBVIOUS
<1> USE DEF WatchInit
<1>1. \A i \in Instances : insts[i] = NoInstance
  OBVIOUS
<1>2. WatchTyped
  <2>1. insts \in [Instances -> Objects]
    BY <1>1, BlankFields
  <2>2. shown \in [Hosts -> HostStates]
    BY DEF HostStates
  <2>3. looper \in Seq(Messages)
    <3>1. looper = <<>>
      OBVIOUS
    <3> QED BY <3>1, EmptySeq
  <2>4. lastId \in Nat /\ connected \in BOOLEAN /\ activity \in BOOLEAN
    OBVIOUS
  <2>5. owed \in {"nothing", "waiting", "running"}
    OBVIOUS
  <2> QED BY <2>1, <2>2, <2>3, <2>4, <2>5 DEF WatchTyped
<1>3. Lives(looper, service, made, insts)
  <2>1. 0 \in 0 .. MaxInstances
    BY WatchAssumption
  <2>2. Lives(<<>>, 0, 0, insts)
    BY <1>1, <2>1, LivesEnded
  <2> QED BY <2>2
<1>4. Kept(insts)
  BY <1>1, BlankFields DEF Kept, Alive
<1> QED BY <1>2, <1>3, <1>4 DEF WatchInv, Owes, Ordered, Resting, Following

\* No intent for a service object that is still to be made is on its way.
LEMMA NoneForTheNext ==
    ASSUME NEW L, NEW n \in Nat, NEW i \in Nat, n < i, Ranked(L, n),
           L \in Seq(Messages)
    PROVE  \A k \in 1 .. Len(L) : L[k].inst # i
<1>1. \A k \in 1 .. Len(L) : L[k].inst <= n
  BY DEF Ranked
<1>2. ~(i <= n)
  OBVIOUS
<1> QED BY <1>1, <1>2

\* A start is counted, and its intent sent, to the started service or to a new one.
LEMMA StartServiceKeeps ==
    ASSUME WatchInv, NEW intent \in Intents, StartService(intent),
           insts' = insts, owed' = owed, connected' \in BOOLEAN, activity' \in BOOLEAN,
           shown' \in [Hosts -> HostStates],
           \A h \in Hosts : IF intent.host = h THEN Moves(intent.action, shown[h], shown'[h])
                            ELSE shown'[h] = shown[h]
    PROVE  WatchInv'
<1>1. WatchTyped /\ Lives(looper, service, made, insts)
  BY DEF WatchInv
<1>2. looper \in Seq(Messages) /\ lastId \in Nat
  BY <1>1 DEF WatchTyped
<1>3. made \in Nat /\ (service # 0 => service \in Instances /\ service = made)
  BY <1>1, StartedIsMade
<1>4. \A h \in Hosts : shown[h] \in HostStates /\ shown'[h] \in HostStates
  BY <1>1 DEF WatchTyped
<1>5. Kept(insts') /\ Owes(insts', owed')
  BY DEF WatchInv
<1>6. CASE service # 0
  <2> DEFINE m == Args(service, lastId + 1, intent)
  <2>1. looper' = Append(looper, m) /\ lastId' = lastId + 1 /\ service' = service /\ made' = made
    BY <1>6 DEF StartService
  <2>2. /\ m \in Messages /\ m.kind = "args" /\ m.inst = service /\ m.id = lastId + 1
        /\ m.intent = intent /\ m.inst <= made
    BY <1>2, <1>3, <1>6, PostedMessages
  <2> HIDE DEF m
  <2>3. looper' \in Seq(Messages) /\ lastId' \in Nat
    BY <1>2, <2>1, <2>2, AppendHolds
  <2>4. WatchTyped'
    BY <1>1, <2>3 DEF WatchTyped
  <2>5. Lives(looper', service', made', insts')
    BY <1>1, <1>2, <2>1, <2>2, LivesPosted
  <2>6. lastId > 0 /\ Numbers(looper, service, insts[service].startId, lastId)
    BY <1>6 DEF WatchInv, Ordered
  <2>7. Numbers(looper', service, insts[service].startId, lastId + 1)
    BY <1>2, <2>1, <2>2, <2>6, AppendStart
  <2>8. Ordered(looper', service', insts', lastId')
    BY <1>2, <2>1, <2>6, <2>7 DEF Ordered
  <2>9. Resting(service', insts', lastId')
    <3>1. insts[service].startId \in Nat /\ insts[service].startId <= lastId
      BY <2>6 DEF Numbers
    <3>2. insts[service].startId # lastId + 1
      BY <1>2, <3>1
    <3> QED BY <2>1, <3>2 DEF Resting
  <2>10. ASSUME NEW h \in Hosts
         PROVE  Follows(looper', service, h, insts[service].controls[h], shown'[h])
    <3>1. Follows(looper, service, h, insts[service].controls[h], shown[h])
      BY <1>6 DEF WatchInv, Following
    <3>2. /\ ~Mine(m, "run", service, h)
          /\ IF Mine(m, "args", service, h) THEN Moves(m.intent.action, shown[h], shown'[h])
             ELSE shown'[h] = shown[h]
      BY <2>2 DEF Mine
    <3>3. PICK to \in HostStates : to = shown'[h]
      BY <1>4
    <3>4. Follows(Append(looper, m), service, h, insts[service].controls[h], to)
      BY <1>2, <2>2, <3>1, <3>2, <3>3, FollowsSent
    <3> QED BY <2>1, <3>3, <3>4
  <2>11. Following(looper', service', insts', shown')
    BY <2>1, <2>10 DEF Following
  <2> QED BY <1>5, <2>4, <2>5, <2>8, <2>9, <2>11 DEF WatchInv
<1>7. CASE service = 0
  <2> DEFINE n == made + 1
             c == Create(n)
             m == Args(n, 1, intent)
             K == Append(looper, c)
  <2>1. /\ made < MaxInstances /\ made' = n /\ service' = n /\ lastId' = 1
        /\ looper' = looper \o <<c, m>>
    BY <1>7 DEF StartService
  <2>2. n \in Instances /\ n \in Nat /\ n # 0 /\ made < n /\ n <= n
    <3>1. MaxInstances \in Nat
      BY WatchAssumption
    <3> QED BY <1>3, <2>1, <3>1 DEF Instances
  <2>3. /\ c \in Messages /\ c.kind = "create" /\ c.inst = n
        /\ m \in Messages /\ m.kind = "args" /\ m.inst = n /\ m.id = 1 /\ m.intent = intent
    <3> HIDE DEF n
    <3>1. 1 \in Nat
      OBVIOUS
    <3> QED BY <2>2, <3>1, PostedMessages
  <2>4. Lives(K, n, n, insts)
    BY <1>1, <1>2, <1>7, <2>1, LivesStarted
  <2> HIDE DEF n, c, m
  <2>5. looper' = Append(K, m)
    BY <1>2, <2>1, <2>3
  <2>6. K \in Seq(Messages)
    BY <1>2, <2>3, AppendHolds
  <2>7. looper' \in Seq(Messages)
    <3> HIDE DEF K
    <3> QED BY <2>3, <2>5, <2>6, AppendHolds
  <2>8. WatchTyped'
    BY <1>1, <2>1, <2>7 DEF WatchTyped
  <2>9. Lives(looper', service', made', insts')
    <3> HIDE DEF K
    <3> QED BY <2>1, <2>2, <2>3, <2>4, <2>5, <2>6, LivesPosted
  <2>10. insts[n] = NoInstance
    <3>1. n > made
      BY <1>3, <2>2
    <3> QED BY <1>1, <2>2, <3>1 DEF Lives
  <2>11. \A k \in 1 .. Len(K) : K[k].kind \notin {"args", "run"} \/ K[k].inst # n
    <3>1. \A k \in 1 .. Len(looper) : looper[k].inst # n
      <4>1. Ranked(looper, made)
        BY <1>1 DEF Lives
      <4> QED BY <1>2, <1>3, <2>2, <4>1, NoneForTheNext
    <3>2. \A k \in 1 .. Len(K) : K[k] = c \/ \E j \in 1 .. Len(looper) : K[k] = looper[j]
      BY <1>2, <2>3, AppendQueued
    <3> QED BY <2>3, <3>1, <3>2
  <2> HIDE DEF K
  <2>12. Ordered(looper', service', insts', lastId')
    <3>1. Numbers(K, n, 0, 0)
      BY <2>11 DEF Numbers, Waiting, Before
    <3>2. m.id = 0 + 1
      BY <2>3
    <3>3. Numbers(Append(K, m), n, 0, 0 + 1)
      BY <2>3, <2>6, <3>1, <3>2, AppendStart
    <3>4. insts'[n].startId = 0
      BY <2>10, BlankFields
    <3>5. 0 + 1 = 1 /\ 1 > 0
      OBVIOUS
    <3>6. Numbers(looper', n, insts'[n].startId, 1)
      BY <2>5, <3>3, <3>4, <3>5
    <3> QED BY <2>1, <3>5, <3>6 DEF Ordered
  <2>13. Resting(service', insts', lastId')
    BY <2>1, <2>10, BlankFields DEF Resting, Alive
  <2>14. ASSUME NEW h \in Hosts
         PROVE  Follows(looper', n, h, insts[n].controls[h], shown'[h])
    <3>1. \A k \in 1 .. Len(K) : ~Mine(K[k], "run", n, h) /\ ~Mine(K[k], "args", n, h)
      BY <2>11 DEF Mine
    <3>2. PICK from \in HostStates : from = shown[h]
      BY <1>4
    <3>3. PICK to \in HostStates : to = shown'[h]
      BY <1>4
    <3>4. Follows(K, n, h, "absent", from)
      BY <2>6, <3>1, FollowsFresh
    <3>5. /\ ~Mine(m, "run", n, h)
          /\ IF Mine(m, "args", n, h) THEN Moves(m.intent.action, from, to) ELSE to = from
      BY <2>3, <3>2, <3>3 DEF Mine
    <3>6. Follows(Append(K, m), n, h, "absent", to)
      BY <2>3, <2>6, <3>4, <3>5, FollowsSent
    <3>7. insts[n].controls[h] = "absent"
      BY <2>10, BlankFields
    <3> QED BY <2>5, <3>3, <3>6, <3>7
  <2>15. Following(looper', service', insts', shown')
    BY <2>1, <2>14 DEF Following
  <2> QED BY <1>5, <2>8, <2>9, <2>12, <2>13, <2>15 DEF WatchInv
<1> QED BY <1>6, <1>7

\* The activity stops the service, which then waits for its end.
LEMMA CloseKeeps == WatchInv /\ CloseActivity => WatchInv'
<1> SUFFICES ASSUME WatchInv, CloseActivity PROVE WatchInv'
  OBVIOUS
<1>1. WatchTyped /\ Lives(looper, service, made, insts)
  BY DEF WatchInv
<1>2. looper \in Seq(Messages)
  BY <1>1 DEF WatchTyped
<1>3. /\ service' = 0 /\ activity' = FALSE
      /\ UNCHANGED <<lastId, made, insts, shown, connected, owed>>
      /\ looper' = IF service = 0 THEN looper ELSE Append(looper, Destroy(service))
  BY DEF CloseActivity
<1>4. /\ Kept(insts)' /\ Owes(insts, owed)' /\ Ordered(looper, service, insts, lastId)'
      /\ Resting(service, insts, lastId)' /\ Following(looper, service, insts, shown)'
  BY <1>3 DEF WatchInv, Kept, Owes, Ordered, Resting, Following, Alive
<1>5. looper' \in Seq(Messages) /\ Lives(looper, service, made, insts)'
  <2>1. CASE service = 0
    BY <1>1, <1>2, <1>3, <2>1
  <2>2. CASE service # 0
    <3>1. service \in Instances
      BY <1>1, <2>2, StartedIsMade
    <3>2. Destroy(service) \in Messages
      <4>1. 0 \in Nat
        OBVIOUS
      <4> QED BY <3>1 DEF Destroy, Messages, Notes
    <3>3. looper' = Append(looper, Destroy(service))
      BY <1>3, <2>2
    <3>4. Append(looper, Destroy(service)) \in Seq(Messages)
      BY <1>2, <3>2, AppendHolds
    <3>5. Lives(Append(looper, Destroy(service)), 0, made, insts)
      BY <1>1, <1>2, <2>2, LivesStopped
    <3> QED BY <1>3, <3>3, <3>4, <3>5
  <2> QED BY <2>1, <2>2
<1>6. WatchTyped'
  BY <1>1, <1>3, <1>5 DEF WatchTyped
<1> QED BY <1>4, <1>5, <1>6 DEF WatchInv

\* The process dies, and the service with it unless the system restarts it: then it has
\* the intents it has not seen before it, and its controls follow the host applications.
LEMMA DiesKeeps ==
    ASSUME WatchInv, NEW unasked \in BOOLEAN, Dies(unasked), shown' = shown,
           connected' = connected
    PROVE  WatchInv'
<1> DEFINE unseen == {k \in DOMAIN looper : looper[k].kind = "args" /\ looper[k].inst = service}
           n == made + 1
<1>1. WatchTyped /\ Lives(looper, service, made, insts)
  BY DEF WatchInv
<1>2. looper \in Seq(Messages) /\ lastId \in Nat /\ shown \in [Hosts -> HostStates]
  BY <1>1 DEF WatchTyped
<1>3. /\ insts' = [i \in Instances |-> NoInstance] /\ activity' = FALSE /\ owed' = "nothing"
  BY DEF Dies
<1>4. \A i \in Instances : insts'[i] = NoInstance
  BY <1>3
<1>5. insts' \in [Instances -> Objects]
  BY <1>3, BlankFields
<1>6. Kept(insts') /\ Owes(insts', owed')
  BY <1>3, <1>4, BlankFields DEF Kept, Owes, Alive
<1>7. Resting(service', insts', lastId')
  <2>1. CASE service' = 0
    BY <2>1 DEF Resting
  <2>2. CASE service' # 0 /\ service' \in Instances
    BY <1>4, <2>2, BlankFields DEF Resting, Alive
  <2>3. service' = 0 \/ service' \in Instances
    <3>1. made \in 0 .. MaxInstances /\ MaxInstances \in Nat
      BY <1>1, WatchAssumption DEF Lives
    <3>2. service' = 0 \/ (service' = made + 1 /\ made < MaxInstances)
      BY DEF Dies
    <3> QED BY <3>1, <3>2 DEF Instances
  <2> QED BY <2>1, <2>2, <2>3
<1>8. SUFFICES /\ looper' \in Seq(Messages) /\ lastId' \in Nat
               /\ Lives(looper', service', made', insts')
               /\ Ordered(looper', service', insts', lastId')
               /\ Following(looper', service', insts', shown')
  <2>1. ASSUME looper' \in Seq(Messages), lastId' \in Nat PROVE WatchTyped'
    BY <1>1, <1>3, <1>5, <2>1 DEF WatchTyped
  <2> QED BY <1>6, <1>7, <2>1 DEF WatchInv
<1>9. made \in 0 .. MaxInstances
  BY <1>1 DEF Lives
<1>10. CASE service # 0 /\ (unseen # {} \/ unasked)
  <2>1. made < MaxInstances /\ made' = n /\ service' = n
    BY <1>10 DEF Dies
  <2>2. n \in Instances /\ n \in Nat /\ n # 0
    <3>1. MaxInstances \in Nat
      BY WatchAssumption
    <3> QED BY <1>9, <2>1, <3>1 DEF Instances
  <2>3. insts'[n].startId = 0 /\ \A h \in Hosts : insts'[n].controls[h] = "absent"
    BY <1>4, <2>2, BlankFields
  <2>4. lastId > 0 /\ Numbers(looper, service, insts[service].startId, lastId)
    BY <1>10 DEF WatchInv, Ordered
  <2>5. CASE unseen # {}
    <3> DEFINE N(at) == [k \in DOMAIN at |-> [looper[at[k]] EXCEPT !.inst = n]]
    <3>1. lastId' = lastId
      BY <1>10, <2>5 DEF Dies
    <3>2. PICK at \in Ascending(unseen) : looper' = <<Create(n)>> \o N(at)
      BY <1>10, <2>5 DEF Dies
    <3>3. Redelivers(looper, service, looper', n, N(at), at)
      <4> HIDE DEF n
      <4> QED BY <1>2, <2>2, <3>2, RestartHolds
    <3> HIDE DEF N, n
    <3>4. /\ looper' \in Seq(Messages) /\ looper'[1] = Create(n)
          /\ Len(N(at)) \in Nat /\ Len(looper') = Len(N(at)) + 1
      BY <3>3 DEF Redelivers
    <3>5. Len(N(at)) # 0
      <4>1. PICK k \in unseen : TRUE
        BY <2>5
      <4>2. k \in 1 .. Len(looper) /\ looper[k].kind = "args" /\ looper[k].inst = service
        BY <1>2, <4>1
      <4>3. PICK j \in 1 .. Len(N(at)) : at[j] = k
        BY <3>3, <4>2 DEF Redelivers
      <4> QED BY <3>4, <4>3
    <3>6. \A k \in 2 .. Len(looper') : looper'[k].kind = "args" /\ looper'[k].inst = n
      <4> SUFFICES ASSUME NEW k \in 2 .. Len(looper')
                   PROVE  looper'[k].kind = "args" /\ looper'[k].inst = n
        OBVIOUS
      <4>1. k - 1 \in 1 .. Len(N(at))
        BY <3>4
      <4>2. looper'[k] = N(at)[k - 1]
        BY <3>3 DEF Redelivers
      <4> QED BY <3>3, <4>1, <4>2 DEF Redelivers
    <3>7. Lives(looper', service', made', insts')
      <4>1. Len(looper') # 0
        BY <3>4
      <4> QED BY <1>4, <2>1, <2>2, <3>4, <3>6, <4>1, LivesRestarted
    <3>8. Ordered(looper', service', insts', lastId')
      <4>1. Numbers(looper', n, 0, lastId)
        BY <1>2, <2>4, <3>3, <3>5, RestartNumbers
      <4> QED BY <2>1, <2>3, <2>4, <3>1, <4>1 DEF Ordered
    <3>9. Following(looper', service', insts', shown')
      <4> SUFFICES ASSUME NEW h \in Hosts
                   PROVE  Follows(looper', n, h, "absent", shown[h])
        BY <2>1, <2>3 DEF Following
      <4>1. Follows(looper, service, h, insts[service].controls[h], shown[h])
        BY <1>10 DEF WatchInv, Following
      <4> QED BY <1>2, <3>3, <4>1, RestartFollows
    <3> QED BY <1>2, <3>1, <3>4, <3>7, <3>8, <3>9
  <2>6. CASE unseen = {}
    <3> DEFINE c == Create(n)
               m == Args(n, lastId + 1, NullIntent)
    <3>1. lastId' = lastId + 1 /\ looper' = <<c, m>>
      BY <1>10, <2>6 DEF Dies
    <3> HIDE DEF n
    <3>2. /\ c \in Messages /\ c.kind = "create"
          /\ m \in Messages /\ m.kind = "args" /\ m.inst = n /\ m.id = lastId + 1
          /\ m.intent = NullIntent
      <4>1. lastId + 1 \in Nat
        BY <1>2
      <4>2. NullIntent \in Intents
        BY DEF NullIntent, Intent, Intents
      <4> QED BY <2>2, <4>1, <4>2, PostedMessages
    <3>3. c = Create(n)
      OBVIOUS
    <3> HIDE DEF c, m
    <3>4. /\ looper' \in Seq(Messages) /\ Len(looper') = 2 /\ looper'[1] = c /\ looper'[2] = m
      BY <3>1, <3>2
    <3>5. \A k \in 1 .. Len(looper') : k = 1 \/ k = 2
      BY <3>4
    <3>6. \A k \in 2 .. Len(looper') : looper'[k] = m
      BY <3>4
    <3>7. Lives(looper', service', made', insts')
      <4>1. Len(looper') # 0
        BY <3>4
      <4> QED BY <1>4, <2>1, <2>2, <3>2, <3>3, <3>4, <3>6, <4>1, LivesRestarted
    <3>8. Ordered(looper', service', insts', lastId')
      <4>1. \A k \in 1 .. Len(looper') : Waiting(looper', n, k) => k = 2
        BY <3>2, <3>4, <3>5 DEF Waiting
      <4>2. 2 \in 1 .. Len(looper') /\ Waiting(looper', n, 2) /\ looper'[2].id = lastId + 1
        BY <3>2, <3>4 DEF Waiting
      <4>3. \A j, k \in 1 .. Len(looper') : ~Before(looper', n, j, k)
        BY <4>1 DEF Before
      <4>4. 0 \in Nat /\ lastId + 1 \in Nat /\ 0 <= lastId + 1 /\ 0 < lastId + 1
            /\ lastId + 1 <= lastId + 1
        BY <1>2
      <4>5. Numbers(looper', n, 0, lastId + 1)
        BY <4>1, <4>2, <4>3, <4>4 DEF Numbers
      <4> QED BY <2>1, <2>3, <3>1, <4>4, <4>5 DEF Ordered
    <3>9. Following(looper', service', insts', shown')
      <4> SUFFICES ASSUME NEW h \in Hosts
                   PROVE  Follows(looper', n, h, "absent", shown[h])
        BY <2>1, <2>3 DEF Following
      <4>1. m.intent.host # h
        BY <3>2, WatchAssumption DEF NullIntent, Intent
      <4>2. \A k \in 1 .. Len(looper') : ~Mine(looper'[k], "run", n, h)
                                         /\ ~Mine(looper'[k], "args", n, h)
        BY <3>2, <3>4, <3>5, <4>1 DEF Mine
      <4> QED BY <1>2, <3>4, <4>2, FollowsFresh
    <3> QED BY <1>2, <3>1, <3>4, <3>7, <3>8, <3>9
  <2> QED BY <2>5, <2>6
<1>11. CASE ~(service # 0 /\ (unseen # {} \/ unasked))
  <2>1. service' = 0 /\ looper' = <<>> /\ made' = made /\ lastId' = lastId
    BY <1>11 DEF Dies
  <2>2. looper' \in Seq(Messages)
    BY <2>1, EmptySeq
  <2>3. Lives(looper', service', made', insts')
    BY <1>4, <1>9, <2>1, LivesEnded
  <2> QED BY <1>2, <2>1, <2>2, <2>3 DEF Ordered, Following
<1> QED BY <1>10, <1>11

-----------------------------------------------------------------------------
(* The main thread keeps the invariant. *)

\* The message that a handler takes from the queue.
LEMMA HeadTaken ==
    ASSUME WatchInv, looper # <<>>
    PROVE  /\ looper \in Seq(Messages) /\ Head(looper) = looper[1] /\ looper[1] \in Messages
           /\ looper[1].inst \in Instances /\ looper[1].inst <= made /\ made \in Nat
           /\ 1 \in 1 .. Len(looper)
           /\ Thinned(looper, Tail(looper)) /\ Tail(looper) \in Seq(Messages)
<1>1. looper \in Seq(Messages) /\ Lives(looper, service, made, insts)
  BY DEF WatchInv, WatchTyped
<1>2. /\ Head(looper) = looper[1] /\ looper[1] \in Messages /\ 1 \in 1 .. Len(looper)
      /\ Thinned(looper, Tail(looper))
  BY <1>1, TailThins
<1>3. made \in Nat
  BY <1>1, StartedIsMade
<1>4. looper[1].inst \in Instances /\ looper[1].inst <= made
  <2>1. Ranked(looper, made)
    BY <1>1 DEF Lives
  <2> QED BY <1>2, <1>3, <2>1, HeadIsFirst
<1>5. Tail(looper) \in Seq(Messages)
  BY <1>2 DEF Thinned
<1> QED BY <1>1, <1>2, <1>3, <1>4, <1>5

\* A message that is no intent leaves the intents of the started service as they are.
LEMMA QuietKeeps ==
    ASSUME WatchInv, NEW M, Thinned(looper, M), looper[1].kind \notin {"args", "run"}, NEW obj,
           service # 0 => /\ obj[service].startId = insts[service].startId
                          /\ \A h \in Hosts : obj[service].controls[h] = insts[service].controls[h]
    PROVE  Ordered(M, service, obj, lastId) /\ Following(M, service, obj, shown)
<1>1. Ordered(M, service, obj, lastId)
  <2> SUFFICES ASSUME service # 0
               PROVE  lastId > 0 /\ Numbers(M, service, obj[service].startId, lastId)
    BY DEF Ordered
  <2>1. lastId > 0 /\ Numbers(looper, service, insts[service].startId, lastId)
    BY DEF WatchInv, Ordered
  <2>2. ~Waiting(looper, service, 1)
    BY DEF Waiting
  <2>3. Numbers(M, service, insts[service].startId, lastId)
    BY <2>1, <2>2, ThinnedNumbers
  <2> QED BY <2>1, <2>3
<1>2. Following(M, service, obj, shown)
  <2> SUFFICES ASSUME service # 0, NEW h \in Hosts
               PROVE  Follows(M, service, h, insts[service].controls[h], shown[h])
    BY DEF Following
  <2>1. Follows(looper, service, h, insts[service].controls[h], shown[h])
    BY DEF WatchInv, Following
  <2>2. ~Mine(looper[1], "args", service, h) /\ ~Mine(looper[1], "run", service, h)
    BY DEF Mine
  <2> QED BY <2>1, <2>2, FollowsHandled
<1> QED BY <1>1, <1>2

\* A service object begins to live, with no control and nothing handled.
LEMMA CreateKeeps == WatchInv /\ OnCreate => WatchInv'
<1> SUFFICES ASSUME WatchInv, OnCreate PROVE WatchInv'
  OBVIOUS
<1> DEFINE i == looper[1].inst
<1>1. /\ looper # <<>> /\ Head(looper).kind = "create" /\ looper' = Tail(looper)
      /\ insts' = [insts EXCEPT ![Head(looper).inst].life = "alive",
                                ![Head(looper).inst].update = UpdateAtCreation]
      /\ UNCHANGED <<service, lastId, made, shown, connected, activity, owed>>
  BY DEF OnCreate, Message
<1>2. /\ Head(looper) = looper[1] /\ looper[1] \in Messages /\ i \in Instances
      /\ 1 \in 1 .. Len(looper)
      /\ Thinned(looper, looper') /\ looper' \in Seq(Messages)
  BY <1>1, HeadTaken
<1>3. WatchTyped /\ Lives(looper, service, made, insts)
  BY DEF WatchInv
<1>4. looper[1] = Create(i)
  BY <1>1, <1>2, MessageFields DEF Create
<1>5. insts[i] = NoInstance
  BY <1>2, <1>3, <1>4 DEF Lives, Queued
<1>6. insts \in [Instances -> Objects] /\ UpdateAtCreation \in BOOLEAN
  BY <1>3, WatchAssumption DEF WatchTyped
<1> HIDE DEF i
<1>7. /\ insts' = [insts EXCEPT ![i] = [insts[i] EXCEPT !.life = "alive",
                                                          !.update = UpdateAtCreation]]
  BY <1>1, <1>2, <1>6 DEF i
<1>8. /\ insts'[i] = [NoInstance EXCEPT !.life = "alive", !.update = UpdateAtCreation]
      /\ \A g \in Instances : g # i => insts'[g] = insts[g]
  BY <1>2, <1>5, <1>6, <1>7
<1>9. /\ insts'[i] \in Objects /\ insts'[i].life = "alive" /\ insts'[i].task = "none"
      /\ insts'[i].startId = 0 /\ ~insts'[i].pending /\ insts'[i].receivers = {}
      /\ \A h \in Hosts : insts'[i].controls[h] = "absent"
  BY <1>6, <1>8, BlankFields DEF NoInstance, Objects
<1>10. insts' \in [Instances -> Objects]
  BY <1>2, <1>6, <1>7, <1>8, <1>9
<1>11. WatchTyped'
  BY <1>1, <1>2, <1>3, <1>10 DEF WatchTyped
<1>12. Lives(looper', service', made', insts')
  <2>1. looper[1].kind = "create"
    BY <1>1, <1>2
  <2>2. /\ insts'[looper[1].inst].life = "alive"
        /\ \A g \in Instances : g # looper[1].inst => insts'[g] = insts[g]
    BY <1>8, <1>9 DEF i
  <2>3. Lives(looper', service, made, insts')
    BY <1>2, <1>3, <2>1, <2>2, LivesCreated
  <2> QED BY <1>1, <2>3
<1>13. Kept(insts')
  <2>1. Clean(insts'[i]) /\ Queues(insts'[i])
    BY <1>9 DEF Clean, Undestroyed, Queues
  <2> QED BY <1>8, <2>1 DEF WatchInv, Kept, Alive
<1>14. Owes(insts', owed')
  <2>1. \A g \in Instances : Alive(insts, g) => g # i
    BY <1>5, BlankFields DEF Alive
  <2> QED BY <1>1, <1>8, <2>1 DEF WatchInv, Owes, Alive
<1>15. Ordered(looper', service', insts', lastId') /\ Following(looper', service', insts', shown')
  <2>1. service # 0 => /\ insts'[service].startId = insts[service].startId
                       /\ \A h \in Hosts : insts'[service].controls[h] = insts[service].controls[h]
    <3> SUFFICES ASSUME service # 0
                 PROVE  /\ insts'[service].startId = insts[service].startId
                        /\ \A h \in Hosts : insts'[service].controls[h] = insts[service].controls[h]
      OBVIOUS
    <3>1. service \in Instances
      BY <1>3, StartedIsMade
    <3>2. CASE service = i
      BY <1>5, <1>9, <3>2, BlankFields
    <3>3. CASE service # i
      BY <1>8, <3>1, <3>3
    <3> QED BY <3>2, <3>3
  <2>2. looper[1].kind \notin {"args", "run"}
    BY <1>1, <1>2
  <2>3. Ordered(looper', service, insts', lastId) /\ Following(looper', service, insts', shown)
    BY <1>2, <2>1, <2>2, QuietKeeps
  <2> QED BY <1>1, <2>3
<1>16. Resting(service', insts', lastId')
  <2> SUFFICES ASSUME service # 0, Alive(insts', service), insts'[service].task = "none",
                      insts'[service].startId = lastId
               PROVE  ~Cleared(insts'[service])
    BY <1>1 DEF Resting
  <2>1. service \in Instances
    BY <1>3, StartedIsMade
  <2>2. lastId > 0
    BY DEF WatchInv, Ordered
  <2>3. service # i
    <3>1. ~(0 > 0)
      OBVIOUS
    <3> QED BY <1>9, <2>2, <3>1
  <2>4. insts'[service] = insts[service]
    BY <1>8, <2>1, <2>3
  <2> QED BY <2>4 DEF WatchInv, Resting, Alive
<1> QED BY <1>11, <1>12, <1>13, <1>14, <1>15, <1>16 DEF WatchInv

\* onStartCommand posts the runner of an intent, or crashes when there is none.
LEMMA StartCommandKeeps == WatchInv /\ OnStartCommand => WatchInv'
<1> SUFFICES ASSUME WatchInv, OnStartCommand PROVE WatchInv'
  OBVIOUS
<1>1. looper # <<>> /\ Head(looper).kind = "args"
  BY DEF OnStartCommand, Message
<1>2. /\ looper \in Seq(Messages) /\ Head(looper) = looper[1] /\ looper[1] \in Messages
      /\ looper[1].inst \in Instances /\ looper[1].inst <= made
      /\ 1 \in 1 .. Len(looper)
      /\ Thinned(looper, Tail(looper)) /\ Tail(looper) \in Seq(Messages)
  BY <1>1, HeadTaken
<1>3. CASE Crash
  <2>1. Dies(FALSE) /\ shown' = shown /\ connected' = connected
    BY <1>3 DEF Crash
  <2> QED BY <2>1, DiesKeeps
<1>4. CASE ~Crash
  <2> DEFINE i == looper[1].inst
             m == Runner(i, looper[1].id, looper[1].intent)
  <2>1. /\ looper' = Append(Tail(looper), m)
        /\ UNCHANGED <<service, lastId, made, insts, shown, connected, activity, owed>>
    BY <1>2, <1>4 DEF OnStartCommand
  <2>2. looper[1].id \in Nat /\ looper[1].intent \in Intents
    BY <1>1, <1>2, MessageFields
  <2>3. /\ m \in Messages /\ m.kind = "run" /\ m.inst = i /\ m.id = looper[1].id
        /\ m.intent = looper[1].intent
    BY <1>2, <2>2, PostedMessages
  <2> HIDE DEF m
  <2>4. WatchTyped /\ Lives(looper, service, made, insts)
    BY DEF WatchInv
  <2>5. WatchTyped'
    <3>1. looper' \in Seq(Messages)
      BY <1>2, <2>1, <2>3, AppendHolds
    <3> QED BY <2>1, <2>4, <3>1 DEF WatchTyped
  <2>6. Lives(looper', service', made', insts')
    <3>1. looper[1].kind \in {"args", "run", "result"}
      BY <1>1, <1>2
    <3>2. Lives(Tail(looper), service, made, insts)
      BY <1>2, <2>4, <3>1, LivesHandled
    <3>3. m.kind \in {"args", "run", "result"} /\ m.inst <= made
      BY <1>2, <2>3
    <3>4. Lives(Append(Tail(looper), m), service, made, insts)
      BY <1>2, <2>3, <3>2, <3>3, LivesPosted
    <3> QED BY <2>1, <3>4
  <2>7. Ordered(looper', service', insts', lastId')
    <3> SUFFICES ASSUME service # 0
                 PROVE  /\ lastId > 0
                        /\ Numbers(Append(Tail(looper), m), service, insts[service].startId, lastId)
      BY <2>1 DEF Ordered
    <3>1. lastId > 0 /\ Numbers(looper, service, insts[service].startId, lastId)
      BY DEF WatchInv, Ordered
    <3> QED BY <1>1, <1>2, <2>3, <3>1, PostedNumbers
  <2>8. Following(looper', service', insts', shown')
    <3> SUFFICES ASSUME service # 0, NEW h \in Hosts
                 PROVE  Follows(Append(Tail(looper), m), service, h,
                                insts[service].controls[h], shown[h])
      BY <2>1 DEF Following
    <3>1. Follows(looper, service, h, insts[service].controls[h], shown[h])
      BY DEF WatchInv, Following
    <3> QED BY <1>1, <1>2, <2>3, <3>1, FollowsPosted
  <2> QED BY <2>1, <2>5, <2>6, <2>7, <2>8 DEF WatchInv
<1> QED BY <1>3, <1>4

\* What a service object is made to be by a runner or a result, and whether it stops itself.
Made(i, t, stops) ==
    /\ looper # <<>> /\ i \in Instances /\ i = looper[1].inst
    /\ looper[1].kind \in {"run", "result"}
    /\ t \in Objects /\ t.life = insts[i].life
    /\ t.startId = IF looper[1].kind = "run" THEN looper[1].id ELSE insts[i].startId
    /\ \A h \in Hosts : t.controls[h] = IF Mine(looper[1], "run", i, h)
                                       THEN Answer(looper[1].intent.action, insts[i].controls[h])
                                       ELSE insts[i].controls[h]
    /\ Alive(insts, i) => Clean(t) /\ Queues(t)
    /\ ~stops /\ t.task = "none" => ~Cleared(t)

\* Of the intents that are left, it has the next start ids to come.
LEMMA BecomesOrdered ==
    ASSUME WatchInv, NEW i, NEW t, NEW stops, Made(i, t, stops), Becomes(i, t, stops)
    PROVE  Ordered(Tail(looper), service, insts', lastId)
<1> DEFINE T == Tail(looper)
<1>1. looper # <<>> /\ i \in Instances /\ i = looper[1].inst
      /\ looper[1].kind \in {"run", "result"}
  BY DEF Made
<1>2. /\ looper[1] \in Messages /\ Thinned(looper, T)
  BY <1>1, HeadTaken
<1> HIDE DEF T
<1>3. WatchTyped /\ Lives(looper, service, made, insts)
  BY DEF WatchInv
<1>4. insts'[i] = t /\ \A g \in Instances : g # i => insts'[g] = insts[g]
  BY <1>1, <1>3 DEF WatchTyped, Becomes
<1>5. service # 0 => service \in Instances
  BY <1>3, StartedIsMade
<1>6. Ordered(T, service, insts', lastId)
  <2> SUFFICES ASSUME service # 0
               PROVE  lastId > 0 /\ Numbers(T, service, insts'[service].startId, lastId)
    BY DEF Ordered
  <2>1. lastId > 0 /\ Numbers(looper, service, insts[service].startId, lastId)
    BY DEF WatchInv, Ordered
  <2>2. CASE service = i /\ looper[1].kind = "run"
    <3>1. insts'[service].startId = looper[1].id
      BY <1>4, <2>2 DEF Made
    <3>2. looper[1].id \in Nat
      BY <1>2, <2>2, MessageFields
    <3>3. Numbers(T, service, looper[1].id, lastId)
      BY <1>1, <1>2, <2>1, <2>2, <3>2, HandledNumbers
    <3> QED BY <2>1, <3>1, <3>3
  <2>3. CASE ~(service = i /\ looper[1].kind = "run")
    <3>1. insts'[service].startId = insts[service].startId
      BY <1>1, <1>4, <1>5, <2>3 DEF Made
    <3>2. ~Waiting(looper, service, 1)
      BY <1>1, <2>3 DEF Waiting
    <3>3. Numbers(T, service, insts[service].startId, lastId)
      BY <1>2, <2>1, <3>2, ThinnedNumbers
    <3> QED BY <2>1, <3>1, <3>3
  <2> QED BY <2>2, <2>3
<1> QED BY <1>6 DEF T

\* Then it has handled the intents up to this one, its controls follow, and if it stays with
\* its last intent handled and nothing to register, a control is kept.
LEMMA BecomesKeeps ==
    ASSUME WatchInv, NEW i, NEW t, NEW stops, Made(i, t, stops), Becomes(i, t, stops),
           owed' \in {"nothing", "waiting", "running"}, Owes(insts', owed')
    PROVE  WatchInv'
<1> DEFINE T == Tail(looper)
<1>1. /\ looper # <<>> /\ i \in Instances /\ i = looper[1].inst
      /\ looper[1].kind \in {"run", "result"} /\ t \in Objects /\ t.life = insts[i].life
  BY DEF Made
<1>2. /\ looper \in Seq(Messages) /\ looper[1] \in Messages /\ 1 \in 1 .. Len(looper)
      /\ Thinned(looper, T) /\ T \in Seq(Messages)
  BY <1>1, HeadTaken
<1>3. /\ insts' = [insts EXCEPT ![i] = t]
      /\ UNCHANGED <<lastId, made, shown, connected, activity>>
  BY DEF Becomes
<1> HIDE DEF T
<1>4. WatchTyped /\ Lives(looper, service, made, insts)
  BY DEF WatchInv
<1>5. insts' \in [Instances -> Objects] /\ insts'[i] = t
      /\ \A g \in Instances : g # i => insts'[g] = insts[g]
  BY <1>1, <1>3, <1>4 DEF WatchTyped
<1>6. service # 0 => service \in Instances
  BY <1>4, StartedIsMade
<1>7. Lives(T, service, made, insts')
  <2>1. looper[1].kind \in {"args", "run", "result"}
    BY <1>1
  <2>2. insts'[looper[1].inst].life = insts[looper[1].inst].life
    BY <1>1, <1>5
  <2>3. \A g \in Instances : g # looper[1].inst => insts'[g] = insts[g]
    BY <1>1, <1>5
  <2> QED BY <1>2, <1>4, <2>1, <2>2, <2>3, LivesHandled
<1>8. Kept(insts')
  <2> SUFFICES ASSUME NEW g \in Instances, Alive(insts', g)
               PROVE  Clean(insts'[g]) /\ Queues(insts'[g])
    BY DEF Kept
  <2>1. CASE g = i
    <3>1. Alive(insts, i)
      BY <1>1, <1>5, <2>1 DEF Alive
    <3> QED BY <1>5, <2>1, <3>1 DEF Made
  <2>2. CASE g # i
    BY <1>5, <2>2 DEF WatchInv, Kept, Alive
  <2> QED BY <2>1, <2>2
<1>9. Ordered(T, service, insts', lastId)
  BY BecomesOrdered DEF T
<1>10. Following(T, service, insts', shown)
  <2> SUFFICES ASSUME service # 0, NEW h \in Hosts
               PROVE  Follows(T, service, h, insts'[service].controls[h], shown[h])
    BY DEF Following
  <2>1. Follows(looper, service, h, insts[service].controls[h], shown[h])
    BY DEF WatchInv, Following
  <2>2. ~Mine(looper[1], "args", service, h)
    BY <1>1 DEF Mine
  <2>3. insts'[service].controls[h] =
           IF Mine(looper[1], "run", service, h)
           THEN Answer(looper[1].intent.action, insts[service].controls[h])
           ELSE insts[service].controls[h]
    <3>1. CASE service = i
      BY <1>5, <3>1 DEF Made
    <3>2. CASE service # i
      BY <1>1, <1>5, <1>6, <3>2 DEF Mine
    <3> QED BY <3>1, <3>2
  <2> DEFINE d == insts'[service].controls[h]
  <2> HIDE DEF d
  <2>4. d = IF Mine(looper[1], "run", service, h)
            THEN Answer(looper[1].intent.action, insts[service].controls[h])
            ELSE insts[service].controls[h]
    BY <2>3 DEF d
  <2>5. Follows(T, service, h, d, shown[h])
    BY <1>2, <2>1, <2>2, <2>4, FollowsHandled
  <2> QED BY <2>5 DEF d
<1>11. CASE stops /\ StopsSelf(i, t)
  <2>1. /\ service' = 0 /\ looper' = Append(T, Destroy(service)) /\ service # 0
        /\ service \in Instances
    <3>1. i # 0
      BY <1>1 DEF Instances
    <3> QED BY <1>1, <1>11, <3>1 DEF Becomes, StopsSelf, T
  <2>2. Destroy(service) \in Messages
    BY <2>1 DEF Destroy, Messages, Notes
  <2>3. looper' \in Seq(Messages)
    BY <1>2, <2>1, <2>2, AppendHolds
  <2>4. Lives(looper', service', made', insts')
    <3>1. Lives(Append(T, Destroy(service)), 0, made, insts')
      BY <1>2, <1>7, <2>1, LivesStopped
    <3> QED BY <1>3, <2>1, <3>1
  <2>5. WatchTyped'
    BY <1>3, <1>4, <1>5, <2>3 DEF WatchTyped
  <2> QED BY <1>8, <2>1, <2>4, <2>5 DEF WatchInv, Ordered, Resting, Following
<1>12. CASE ~(stops /\ StopsSelf(i, t))
  <2>1. service' = service /\ looper' = T
    BY <1>12 DEF Becomes, T
  <2>2. WatchTyped'
    BY <1>2, <1>3, <1>4, <1>5, <2>1 DEF WatchTyped
  <2>3. Resting(service', insts', lastId')
    <3> SUFFICES ASSUME service # 0, Alive(insts', service), insts'[service].task = "none",
                        insts'[service].startId = lastId
                 PROVE  ~Cleared(insts'[service])
      BY <1>3, <2>1 DEF Resting
    <3>1. CASE service = i
      <4>1. StopsSelf(i, t)
        BY <1>5, <3>1 DEF StopsSelf
      <4> QED BY <1>5, <1>12, <3>1, <4>1 DEF Made
    <3>2. CASE service # i
      <4>1. insts'[service] = insts[service]
        BY <1>5, <1>6, <3>2
      <4> QED BY <4>1 DEF WatchInv, Resting, Alive
    <3> QED BY <3>1, <3>2
  <2> QED BY <1>3, <1>7, <1>8, <1>9, <1>10, <2>1, <2>2, <2>3 DEF WatchInv
<1> QED BY <1>11, <1>12

\* The runner of an intent: what it makes of the service object, if it does not throw.
LEMMA HandleMakes ==
    ASSUME WatchInv, HandleIntent, ~Crash
    PROVE  \E i, t, stops :
              /\ Made(i, t, stops) /\ Becomes(i, t, stops)
              /\ owed' \in {"nothing", "waiting", "running"} /\ Owes(insts', owed')
              /\ stops => /\ owed' = owed /\ insts[i].task = "none" /\ (connected => Cleared(t))
<1> DEFINE i == looper[1].inst
           intent == looper[1].intent
           s == [insts[i] EXCEPT !.startId = looper[1].id]
           t == After(s, intent)
           stops == Ends(s, intent)
<1>1. looper # <<>> /\ Head(looper).kind = "run"
  BY DEF HandleIntent, Message
<1>2. /\ looper \in Seq(Messages) /\ Head(looper) = looper[1] /\ looper[1] \in Messages
      /\ i \in Instances /\ looper[1].kind = "run"
  BY <1>1, HeadTaken
<1>3. looper[1].id \in Nat /\ intent \in Intents
  BY <1>2, MessageFields
<1>4. insts \in [Instances -> Objects] /\ connected \in BOOLEAN
      /\ owed \in {"nothing", "waiting", "running"}
  BY DEF WatchInv, WatchTyped
<1>5. /\ Becomes(i, t, stops)
      /\ owed' = IF s.life # "alive" \/ intent.action \notin Registrations THEN owed
                 ELSE IF s.task = "none" /\ t.task = "full" THEN "running"
                 ELSE "waiting"
  BY <1>2 DEF HandleIntent, After, Ends
<1> HIDE DEF i, intent
<1>6. /\ s \in Objects /\ s.life = insts[i].life /\ s.controls = insts[i].controls
      /\ s.receivers = insts[i].receivers /\ s.task = insts[i].task
      /\ s.pending = insts[i].pending /\ s.startId = looper[1].id
  BY <1>2, <1>3, <1>4 DEF Objects
<1> HIDE DEF s
<1>7. /\ t \in Objects
      /\ t.life = s.life /\ t.startId = s.startId
      /\ Clean(s) => Clean(t)
      /\ \A h \in Hosts : t.controls[h] = IF intent.host = h THEN Answer(intent.action, s.controls[h])
                                         ELSE s.controls[h]
      /\ Queues(s) => Queues(t)
      /\ s.task # "none" => t.task # "none" /\ (s.pending => t.pending)
      /\ intent.action \in Registrations =>
             /\ t.task # "none"
             /\ s.task = "none" => t.task = "full"
             /\ s.task # "none" => t.pending
      /\ stops => /\ s.task = "none"
                  /\ intent.action \notin Registrations
                  /\ connected => Cleared(t)
      /\ ~stops /\ t.task = "none" => ~Cleared(t)
  BY <1>3, <1>4, <1>6, AfterFields
<1> HIDE DEF t, stops
<1>8. Made(i, t, stops)
  <2>1. Alive(insts, i) => Clean(t) /\ Queues(t)
    <3> SUFFICES ASSUME Alive(insts, i) PROVE Clean(t) /\ Queues(t)
      OBVIOUS
    <3>1. Clean(insts[i]) /\ Queues(insts[i])
      BY <1>2 DEF WatchInv, Kept
    <3>2. Clean(s) /\ Queues(s)
      BY <1>6, <3>1 DEF Clean, Undestroyed, Queues
    <3> QED BY <1>7, <3>2
  <2>2. \A h \in Hosts : Mine(looper[1], "run", i, h) <=> intent.host = h
    BY <1>2 DEF Mine, i, intent
  <2>3. \A h \in Hosts : t.controls[h] = IF Mine(looper[1], "run", i, h)
                                        THEN Answer(looper[1].intent.action, insts[i].controls[h])
                                        ELSE insts[i].controls[h]
    BY <1>6, <1>7, <2>2 DEF intent
  <2>4. i = looper[1].inst
    BY DEF i
  <2> QED BY <1>1, <1>2, <1>6, <1>7, <2>1, <2>3, <2>4 DEF Made
<1>9. insts'[i] = t /\ \A g \in Instances : g # i => insts'[g] = insts[g]
  BY <1>2, <1>4, <1>5 DEF Becomes
<1>10. owed' \in {"nothing", "waiting", "running"}
  BY <1>4, <1>5
<1>11. Owes(insts', owed')
  <2>1. CASE owed' = owed
    <3>1. \A g \in Instances : Alive(insts, g) /\ insts[g].task # "none" =>
             /\ Alive(insts', g) /\ insts'[g].task # "none"
             /\ insts[g].pending => insts'[g].pending
      BY <1>6, <1>7, <1>9 DEF Alive
    <3> QED BY <2>1, <3>1 DEF WatchInv, Owes
  <2>2. CASE owed' # owed
    <3>1. /\ Alive(insts', i) /\ t.task # "none"
          /\ owed' = "waiting" => t.pending
      BY <1>5, <1>6, <1>7, <1>9, <2>2 DEF Alive
    <3> QED BY <1>2, <1>9, <3>1 DEF Owes
  <2> QED BY <2>1, <2>2
<1>12. stops => owed' = owed /\ insts[i].task = "none" /\ (connected => Cleared(t))
  BY <1>5, <1>6, <1>7
<1> QED BY <1>5, <1>8, <1>10, <1>11, <1>12

\* The result of a registration: what it makes of the service object.
LEMMA ResultMakes ==
    ASSUME WatchInv, OnExtensionRegisterResult
    PROVE  \E i, t, stops :
              /\ Made(i, t, stops) /\ Becomes(i, t, stops)
              /\ owed' \in {"nothing", "waiting", "running"} /\ Owes(insts', owed')
              /\ stops => /\ (Alive(insts, i) => owed' = "nothing")
                          /\ (connected => Cleared(t))
<1> DEFINE i == looper[1].inst
           s == insts[i]
           t == Finished(s)
           stops == FinishEnds(s)
<1>1. looper # <<>> /\ Head(looper).kind = "result"
  BY DEF OnExtensionRegisterResult, Message
<1>2. /\ looper \in Seq(Messages) /\ Head(looper) = looper[1] /\ looper[1] \in Messages
      /\ i \in Instances /\ looper[1].kind = "result"
  BY <1>1, HeadTaken
<1>3. insts \in [Instances -> Objects] /\ connected \in BOOLEAN
      /\ owed \in {"nothing", "waiting", "running"}
  BY DEF WatchInv, WatchTyped
<1> HIDE DEF i
<1>4. s \in Objects
  BY <1>2, <1>3
<1>5. Freed(s).pending = s.pending /\ Freed(s).life = s.life
  BY <1>4 DEF Freed, Objects
<1>6. Becomes(i, t, stops)
  BY <1>2, <1>5 DEF OnExtensionRegisterResult, Finished, FinishEnds, Freed, i
<1>7. owed' = IF s.life # "alive" THEN owed
              ELSE IF owed = "waiting" /\ t.task = "full" THEN "running"
              ELSE IF owed = "running" THEN "nothing" ELSE owed
  BY <1>2, <1>5 DEF OnExtensionRegisterResult, Finished, Freed, i
<1>8. /\ t \in Objects
      /\ t.life = s.life /\ t.controls = s.controls /\ t.receivers = s.receivers
      /\ t.startId = s.startId
      /\ Queues(t)
      /\ s.pending => t.task = "full"
      /\ stops => ~s.pending /\ (connected => Cleared(t))
      /\ ~stops /\ t.task = "none" => ~Cleared(t)
  BY <1>3, <1>4, FinishedFields
<1> HIDE DEF t, stops
<1>9. Made(i, t, stops)
  <2>1. Alive(insts, i) => Clean(t)
    BY <1>2, <1>8 DEF WatchInv, Kept, Clean, Undestroyed
  <2>2. i = looper[1].inst /\ \A h \in Hosts : ~Mine(looper[1], "run", i, h)
    BY <1>2 DEF i, Mine
  <2> QED BY <1>1, <1>2, <1>8, <2>1, <2>2 DEF Made
<1>10. insts'[i] = t /\ \A g \in Instances : g # i => insts'[g] = insts[g]
  BY <1>2, <1>3, <1>6 DEF Becomes
<1>11. owed' \in {"nothing", "waiting", "running"}
  BY <1>3, <1>7
<1>12. Owes(insts, owed)
  BY DEF WatchInv
<1>13. CASE ~Alive(insts, i)
  <2>1. owed' = owed
    BY <1>7, <1>13 DEF Alive
  <2>2. \A g \in Instances : Alive(insts, g) => insts'[g] = insts[g]
    BY <1>10, <1>13
  <2>3. Owes(insts', owed')
    BY <1>12, <2>1, <2>2 DEF Owes, Alive
  <2> QED BY <1>6, <1>8, <1>9, <1>11, <1>13, <2>3
<1>14. CASE Alive(insts, i)
  <2>1. \A g \in Instances : Alive(insts, g) => g = i
    BY <1>2, <1>14 DEF WatchInv, Lives
  <2>2. owed = "waiting" => s.pending
    BY <1>12, <2>1 DEF Owes
  <2>3. CASE owed = "waiting"
    <3>1. owed' = "running" /\ t.task # "none" /\ s.pending
      BY <1>7, <1>8, <1>14, <2>2, <2>3 DEF Alive
    <3>2. Owes(insts', owed')
      BY <1>2, <1>8, <1>10, <1>14, <3>1 DEF Owes, Alive
    <3> QED BY <1>6, <1>8, <1>9, <1>11, <3>1, <3>2
  <2>4. CASE owed # "waiting"
    <3>1. owed' = "nothing"
      BY <1>3, <1>7, <1>14, <2>4 DEF Alive
    <3>2. Owes(insts', owed')
      BY <3>1 DEF Owes
    <3> QED BY <1>6, <1>8, <1>9, <1>11, <3>1, <3>2
  <2> QED BY <2>3, <2>4
<1> QED BY <1>13, <1>14

\* Both keep the invariant, and so does the crash of a runner that throws.
LEMMA HandlersKeep == WatchInv /\ (HandleIntent \/ OnExtensionRegisterResult) => WatchInv'
<1> SUFFICES ASSUME WatchInv, HandleIntent \/ OnExtensionRegisterResult PROVE WatchInv'
  OBVIOUS
<1>1. CASE Crash
  <2>1. Dies(FALSE) /\ shown' = shown /\ connected' = connected
    BY <1>1 DEF Crash
  <2> QED BY <2>1, DiesKeeps
<1>2. CASE ~Crash
  <2>1. PICK i, t, stops :
              /\ Made(i, t, stops) /\ Becomes(i, t, stops)
              /\ owed' \in {"nothing", "waiting", "running"} /\ Owes(insts', owed')
    BY <1>2, HandleMakes, ResultMakes
  <2> QED BY <2>1, BecomesKeeps
<1> QED BY <1>1, <1>2

\* A service object comes to its end, and the registration with it.
LEMMA DestroyKeeps == WatchInv /\ OnDestroy => WatchInv'
<1> SUFFICES ASSUME WatchInv, OnDestroy PROVE WatchInv'
  OBVIOUS
<1> DEFINE i == looper[1].inst
           t == [DestroyAllControls(insts[i]) EXCEPT !.life = "destroyed", !.task = "none"]
<1>1. looper # <<>> /\ Head(looper).kind = "destroy"
  BY DEF OnDestroy, Message
<1>2. /\ looper \in Seq(Messages) /\ Head(looper) = looper[1] /\ looper[1] \in Messages
      /\ i \in Instances /\ looper[1].kind = "destroy"
  BY <1>1, HeadTaken
<1>3. /\ insts' = [insts EXCEPT ![i] = t] /\ looper' = Cancelled(Tail(looper), i)
      /\ owed' = "nothing"
      /\ UNCHANGED <<service, lastId, made, shown, connected, activity>>
  BY <1>2 DEF OnDestroy
<1>4. WatchTyped /\ Lives(looper, service, made, insts)
  BY DEF WatchInv
<1>5. Thinned(looper, looper')
  BY <1>1, <1>2, <1>3, CancelledThins
<1> HIDE DEF i
<1>6. insts \in [Instances -> Objects]
  BY <1>4 DEF WatchTyped
<1>7. t \in Objects /\ t.life = "destroyed"
  <2>1. insts[i] \in Objects
    BY <1>2, <1>6
  <2>2. DestroyAllControls(insts[i]) \in Objects
    BY <2>1 DEF DestroyAllControls, Undestroyed, Objects, ControlStates, HostStates
  <2> QED BY <2>2 DEF Objects
<1> HIDE DEF t
<1>8. insts' \in [Instances -> Objects] /\ insts'[i] = t
      /\ \A g \in Instances : g # i => insts'[g] = insts[g]
  BY <1>2, <1>3, <1>6, <1>7
<1>9. Lives(looper', service, made, insts') /\ i # service
  <2>1. /\ insts'[looper[1].inst].life = "destroyed"
        /\ \A g \in Instances : g # looper[1].inst => insts'[g] = insts[g]
    BY <1>7, <1>8 DEF i
  <2>2. Lives(looper', service, made, insts') /\ looper[1].inst # service
    BY <1>2, <1>4, <1>5, <2>1, LivesDestroyed
  <2> QED BY <2>2 DEF i
<1>10. service # 0 => service \in Instances /\ insts'[service] = insts[service]
  BY <1>4, <1>8, <1>9, StartedIsMade
<1>11. Ordered(looper', service', insts', lastId') /\ Following(looper', service', insts', shown')
  <2>1. Ordered(looper', service, insts', lastId) /\ Following(looper', service, insts', shown)
    BY <1>2, <1>5, <1>10, QuietKeeps
  <2> QED BY <1>3, <2>1
<1>12. Resting(service', insts', lastId')
  BY <1>3, <1>10 DEF WatchInv, Resting, Alive
<1>13. Kept(insts') /\ Owes(insts', owed')
  BY <1>3, <1>7, <1>8 DEF WatchInv, Kept, Owes, Alive
<1>14. WatchTyped'
  <2>1. looper' \in Seq(Messages)
    BY <1>5 DEF Thinned
  <2> QED BY <1>3, <1>4, <1>8, <2>1 DEF WatchTyped
<1> QED BY <1>3, <1>9, <1>11, <1>12, <1>13, <1>14 DEF WatchInv

\* The result of a registration is put behind the other messages.
LEMMA TaskKeeps ==
    ASSUME WatchInv, NEW i \in Instances, TaskDone(i)
    PROVE  WatchInv'
<1>1. WatchTyped /\ Lives(looper, service, made, insts)
  BY DEF WatchInv
<1>2. looper \in Seq(Messages) /\ shown \in [Hosts -> HostStates]
  BY <1>1 DEF WatchTyped
<1>3. /\ insts[i].task # "none" /\ looper' = Append(looper, Result(i))
      /\ UNCHANGED <<service, lastId, made, insts, shown, connected, activity, owed>>
  BY DEF TaskDone, UnderWay
<1>4. Result(i) \in Messages /\ Result(i).kind = "result" /\ Result(i).inst = i
  BY DEF Result, Messages, Notes
<1>5. i <= made
  <2>1. ~(i > made)
    BY <1>1, <1>3, BlankFields DEF Lives
  <2>2. i \in Nat /\ made \in Nat
    BY <1>1, StartedIsMade DEF Instances
  <2> QED BY <2>1, <2>2
<1>6. WatchTyped'
  <2>1. looper' \in Seq(Messages)
    BY <1>2, <1>3, <1>4, AppendHolds
  <2> QED BY <1>1, <1>3, <2>1 DEF WatchTyped
<1>7. Lives(looper', service', made', insts')
  <2>1. Lives(Append(looper, Result(i)), service, made, insts)
    BY <1>1, <1>2, <1>4, <1>5, LivesPosted
  <2> QED BY <1>3, <2>1
<1>8. Ordered(looper', service', insts', lastId')
  <2> SUFFICES ASSUME service # 0
               PROVE  /\ lastId > 0
                      /\ Numbers(Append(looper, Result(i)), service, insts[service].startId, lastId)
    BY <1>3 DEF Ordered
  <2>1. lastId > 0 /\ Numbers(looper, service, insts[service].startId, lastId)
    BY DEF WatchInv, Ordered
  <2> QED BY <1>2, <1>4, <2>1, AppendNumbers
<1>9. Following(looper', service', insts', shown')
  <2> SUFFICES ASSUME service # 0, NEW h \in Hosts
               PROVE  Follows(Append(looper, Result(i)), service, h,
                              insts[service].controls[h], shown[h])
    BY <1>3 DEF Following
  <2>1. Follows(looper, service, h, insts[service].controls[h], shown[h])
    BY DEF WatchInv, Following
  <2>2. PICK to \in HostStates : to = shown[h]
    BY <1>2
  <2>3. ~Mine(Result(i), "run", service, h) /\ ~Mine(Result(i), "args", service, h)
    BY <1>4 DEF Mine
  <2> QED BY <1>2, <1>4, <2>1, <2>2, <2>3, FollowsSent
<1> QED BY <1>3, <1>6, <1>7, <1>8, <1>9 DEF WatchInv

-----------------------------------------------------------------------------
(* The host applications and the activity keep it. *)

\* An intent tells of the move the host application makes.
LEMMA ControlKeeps ==
    ASSUME WatchInv, NEW h \in Hosts, HostControl(h)
    PROVE  WatchInv'
<1>1. shown \in [Hosts -> HostStates] /\ connected \in BOOLEAN /\ activity \in BOOLEAN
  BY DEF WatchInv, WatchTyped
<1>2. PICK from, action, to :
         /\ action \in HostControls /\ to \in HostStates
         /\ \A at \in from : Moves(action, at, to)
         /\ Shows(h, from, action, to)
  <2>1. CASE \E at \in {"started", "foreground"} : Shows(h, {at}, "ERROR", at)
    BY <2>1 DEF HostControls, HostStates, Moves
  <2>2. CASE Shows(h, {"absent"}, "START", "started")
    BY <2>2 DEF HostControls, HostStates, Moves
  <2>3. CASE Shows(h, {"started"}, "RESUME", "foreground")
    BY <2>3 DEF HostControls, HostStates, Moves
  <2>4. CASE Shows(h, {"foreground"}, "PAUSE", "started")
    BY <2>4 DEF HostControls, HostStates, Moves
  <2>5. CASE Shows(h, {"started", "foreground"}, "STOP", "absent")
    BY <2>5 DEF HostControls, HostStates, Moves
  <2>6. CASE Shows(h, {"foreground"}, "TOUCH", "foreground")
    BY <2>6 DEF HostControls, HostStates, Moves
  <2>7. CASE Shows(h, {"started"}, "START", "started")
    BY <2>7 DEF HostControls, HostStates, Moves
  <2> QED BY <2>1, <2>2, <2>3, <2>4, <2>5, <2>6, <2>7 DEF HostControl
<1> DEFINE intent == Intent(action, h)
<1>3. /\ StartService(intent) /\ shown' = [shown EXCEPT ![h] = to]
      /\ insts' = insts /\ owed' = owed /\ connected' = connected /\ activity' = activity
      /\ Moves(action, shown[h], to)
  BY <1>2 DEF Shows, OnReceive
<1>4. intent \in Intents /\ intent.action = action /\ intent.host = h
  BY <1>2 DEF Intent, Intents
<1> HIDE DEF intent
<1>5. shown' \in [Hosts -> HostStates]
  BY <1>1, <1>2, <1>3
<1>6. \A g \in Hosts : IF intent.host = g THEN Moves(intent.action, shown[g], shown'[g])
                      ELSE shown'[g] = shown[g]
  BY <1>1, <1>3, <1>4
<1> QED BY <1>1, <1>3, <1>4, <1>5, <1>6, StartServiceKeeps

\* No other intent is about a control.
LEMMA OthersKeep ==
    ASSUME WatchInv, HostRegistration \/ HostConnection \/ OpenActivity
    PROVE  WatchInv'
<1>1. shown \in [Hosts -> HostStates] /\ connected \in BOOLEAN /\ activity \in BOOLEAN
  BY DEF WatchInv, WatchTyped
<1>2. PICK action \in Registrations \cup Connections \cup {"UNKEYED", "NULL"} :
         StartService(Intent(action, NoHost))
  BY DEF HostRegistration, HostConnection, OpenActivity, OnReceive, Connections
<1>3. /\ insts' = insts /\ owed' = owed /\ connected' \in BOOLEAN /\ activity' \in BOOLEAN
      /\ shown' = shown
  BY <1>1 DEF HostRegistration, HostConnection, OpenActivity, OnReceive
<1> DEFINE intent == Intent(action, NoHost)
<1>4. intent \in Intents /\ intent.host = NoHost /\ StartService(intent)
  BY <1>2 DEF Intent, Intents
<1> HIDE DEF intent
<1>5. \A g \in Hosts : IF intent.host = g THEN Moves(intent.action, shown[g], shown'[g])
                      ELSE shown'[g] = shown[g]
  BY <1>3, <1>4, WatchAssumption
<1> QED BY <1>1, <1>3, <1>4, <1>5, StartServiceKeeps

\* Every step keeps the invariant.
LEMMA WatchStep == WatchInv /\ [WatchNext]_watchVars => WatchInv'
<1> SUFFICES ASSUME WatchInv, [WatchNext]_watchVars PROVE WatchInv'
  OBVIOUS
<1>1. CASE OnCreate
  BY <1>1, CreateKeeps
<1>2. CASE OnStartCommand
  BY <1>2, StartCommandKeeps
<1>3. CASE HandleIntent \/ OnExtensionRegisterResult
  BY <1>3, HandlersKeep
<1>4. CASE OnDestroy
  BY <1>4, DestroyKeeps
<1>5. CASE \E h \in Hosts : HostControl(h)
  BY <1>5, ControlKeeps
<1>6. CASE HostRegistration \/ HostConnection \/ OpenActivity
  BY <1>6, OthersKeep
<1>7. CASE CloseActivity
  BY <1>7, CloseKeeps
<1>8. CASE Kill
  <2>1. Dies(TRUE) /\ shown' = shown /\ connected' = connected
    BY <1>8 DEF Kill
  <2> QED BY <2>1, DiesKeeps
<1>9. CASE \E i \in Instances : TaskDone(i)
  BY <1>9, TaskKeeps
<1>10. CASE UNCHANGED watchVars
  BY <1>10 DEF watchVars, WatchInv, WatchTyped, Lives, Kept, Owes, Ordered, Resting, Following,
               Alive, Queued
<1> QED BY <1>1, <1>2, <1>3, <1>4, <1>5, <1>6, <1>7, <1>8, <1>9, <1>10
        DEF WatchNext, MainThread, Outside

-----------------------------------------------------------------------------
(* What follows for the service. *)

\* The invariant holds in every state of the service.
THEOREM WatchInductive == WatchSpec => []WatchInv
<1>1. WatchInit => WatchInv
  BY WatchInitial
<1>2. WatchInv /\ [WatchNext]_watchVars => WatchInv'
  BY WatchStep
<1> QED BY <1>1, <1>2, PTL DEF WatchSpec

\* The queue, the service objects and the history are of their types, and a live service
\* object queues a request only behind a registration.
THEOREM WatchTypeCorrect == WatchSpec => []WatchTypeOK
<1>1. WatchInv => WatchTypeOK
  <2> SUFFICES ASSUME WatchInv PROVE WatchTypeOK
    OBVIOUS
  <2> DEFINE S == {Create(i) : i \in Instances} \cup {Destroy(i) : i \in Instances}
                  \cup {Result(i) : i \in Instances}
                  \cup [kind : {"args", "run"}, inst : Instances, id : Nat,
                        intent : [action : Registrations \cup Connections \cup Controls
                                           \cup {"NULL"}, host : Hosts \cup {NoHost}]]
  <2>1. WatchTyped /\ Lives(looper, service, made, insts) /\ Kept(insts)
    BY DEF WatchInv
  <2>2. ASSUME NEW m \in Messages PROVE m \in S
    <3>1. CASE m \in Notes
      <4>1. /\ m.inst \in Instances /\ m.kind \in {"create", "destroy", "result"}
            /\ m = [kind |-> m.kind, inst |-> m.inst]
        BY <3>1 DEF Notes
      <4> QED BY <4>1 DEF Create, Destroy, Result
    <3>2. CASE m \in Carriers
      <4>1. Intents \subseteq [action : Registrations \cup Connections \cup Controls \cup {"NULL"},
                               host : Hosts \cup {NoHost}]
        BY DEF Intents, HostControls, Controls
      <4> QED BY <3>2, <4>1 DEF Carriers
    <3> QED BY <3>1, <3>2 DEF Messages
  <2>3. looper \in Seq(S)
    <3> HIDE DEF S
    <3>1. looper \in Seq(Messages)
      BY <2>1 DEF WatchTyped
    <3>2. Len(looper) \in Nat /\ looper \in [1 .. Len(looper) -> S]
      BY <2>2, <3>1
    <3> QED BY <3>2, FunctionIsSeq
  <2>4. service \in 0 .. made /\ made \in 0 .. MaxInstances
    BY <2>1 DEF Lives
  <2>5. insts \in [Instances ->
           [life : {"none", "alive", "destroyed"},
            controls : [Hosts -> {"absent", "created", "started", "foreground"}],
            receivers : SUBSET Hosts, task : {"none", "sources", "full"},
            pending : BOOLEAN, update : BOOLEAN, startId : Nat]]
    <3>1. ControlStates = {"absent", "created", "started", "foreground"}
      BY DEF ControlStates, HostStates
    <3> QED BY <2>1, <3>1 DEF WatchTyped, Objects
  <2>6. \A i \in Instances : insts[i].life = "alive" /\ insts[i].pending => insts[i].task # "none"
    BY <2>1 DEF Kept, Alive, Queues
  <2> QED BY <2>1, <2>3, <2>4, <2>5, <2>6 DEF WatchTypeOK, WatchTyped, HostStates
<1> QED BY <1>1, WatchInductive, PTL

\* Once the main thread is idle, whatever was lost with a process or came to a service that
\* was being destroyed, the service has no control that a host application does not show.
THEOREM ControlsFollow == WatchSpec => []ControlFollowsHost
<1>1. WatchInv => ControlFollowsHost
  <2> SUFFICES ASSUME WatchInv, looper = <<>>, service # 0, NEW h \in Hosts
               PROVE  insts[service].controls[h] \in {"absent", shown[h]}
    BY DEF ControlFollowsHost
  <2>1. Follows(looper, service, h, insts[service].controls[h], shown[h])
    BY DEF WatchInv, Following
  <2>2. Len(looper) = 0
    BY EmptySeq
  <2> QED BY <2>1, <2>2 DEF Follows
<1> QED BY <1>1, WatchInductive, PTL

\* In a live service a control is registered for images exactly while it runs.
THEOREM ReceiversHeld == WatchSpec => []ReceiverHeld
<1>1. WatchInv => ReceiverHeld
  BY DEF WatchInv, Kept, Alive, Clean, ReceiverHeld
<1> QED BY <1>1, WatchInductive, PTL

\* A started service without a message has handled its last intent and lives.
LEMMA IdleHandledAll ==
    ASSUME WatchInv, looper = <<>>, service # 0
    PROVE  Alive(insts, service) /\ insts[service].startId = lastId
<1>1. Len(looper) = 0
  BY EmptySeq
<1>2. 1 .. Len(looper) = {}
  BY <1>1
<1>3. Alive(insts, service)
  BY <1>2 DEF WatchInv, Lives, Queued
<1>4. Numbers(looper, service, insts[service].startId, lastId)
  BY DEF WatchInv, Ordered
<1>5. insts[service].startId = lastId
  BY <1>2, <1>4 DEF Numbers
<1> QED BY <1>3, <1>5

\* An idle service with nothing on show does not stay.
THEOREM NeverIdle == WatchSpec => []NoIdleService
<1>1. WatchInv => NoIdleService
  <2> SUFFICES ASSUME WatchInv, looper = <<>>, service # 0, insts[service].task = "none"
               PROVE  \E h \in Hosts : insts[service].controls[h] # "absent"
    BY DEF NoIdleService
  <2>1. Alive(insts, service) /\ insts[service].startId = lastId
    BY IdleHandledAll
  <2> QED BY <2>1 DEF WatchInv, Resting, Cleared
<1> QED BY <1>1, WatchInductive, PTL

\* What StopsSelfAtRest says of a step.
AtRest ==
    service # 0 /\ service' = 0 /\ UNCHANGED mishaps =>
       /\ \A k \in DOMAIN looper' : ~Waits(looper'[k], service)
       /\ owed' = "nothing"
       /\ connected => \A h \in Hosts : insts'[service].controls[h] = "absent"

\* A service object that stops itself was given its last intent, so none is left for it.
LEMMA StopsAfterAll ==
    ASSUME WatchInv, NEW i, NEW t, NEW stops, Made(i, t, stops), Becomes(i, t, stops),
           service # 0, service' = 0
    PROVE  /\ stops /\ service = i /\ Alive(insts, i) /\ insts'[i] = t
           /\ \A k \in DOMAIN looper' : ~Waits(looper'[k], service)
<1> DEFINE T == Tail(looper)
<1>1. /\ stops /\ service = i /\ t.startId = lastId /\ looper' = Append(T, Destroy(i))
  BY DEF Becomes, StopsSelf
<1>2. /\ looper # <<>> /\ i \in Instances /\ i = looper[1].inst
      /\ looper[1].kind \in {"run", "result"}
  BY DEF Made
<1>3. Thinned(looper, T) /\ T \in Seq(Messages)
  BY <1>2, HeadTaken
<1>4. Ordered(T, service, insts', lastId)
  BY BecomesOrdered
<1> HIDE DEF T
<1>5. insts'[i] = t
  BY <1>2 DEF Becomes, WatchInv, WatchTyped
<1>6. Numbers(T, i, lastId, lastId)
  BY <1>1, <1>4, <1>5 DEF Ordered
<1>7. \A k \in 1 .. Len(T) : ~Waiting(T, i, k)
  <2> SUFFICES ASSUME NEW k \in 1 .. Len(T), Waiting(T, i, k) PROVE FALSE
    OBVIOUS
  <2>1. lastId < T[k].id /\ T[k].id <= lastId /\ lastId \in Nat
    BY <1>6 DEF Numbers
  <2>2. T[k].id \in Nat
    <3>1. T[k] \in Messages /\ T[k].kind \in {"args", "run"}
      BY <1>3 DEF Waiting
    <3> QED BY <3>1, MessageFields
  <2> QED BY <2>1, <2>2
<1>8. \A k \in DOMAIN looper' : ~Waits(looper'[k], i)
  <2> DEFINE m == Destroy(i)
  <2>1. m \in Messages /\ m.kind = "destroy"
    BY <1>2 DEF Destroy, Messages, Notes
  <2> HIDE DEF m
  <2>2. looper' = Append(T, m)
    BY <1>1 DEF m
  <2>3. \A k \in DOMAIN looper' : looper'[k] = m \/ \E j \in 1 .. Len(T) : looper'[k] = T[j]
    <3>1. DOMAIN looper' = 1 .. Len(looper')
      BY <1>3, <2>1, <2>2, AppendHolds
    <3> QED BY <1>3, <2>1, <2>2, <3>1, AppendQueued
  <2> QED BY <1>7, <2>1, <2>3 DEF Waits, Waiting
<1>9. Alive(insts, i)
  <2>1. Lives(looper, service, made, insts)
    BY DEF WatchInv
  <2>2. made \in Nat /\ Ranked(looper, made)
    BY <2>1, StartedIsMade DEF Lives
  <2>3. ~Queued(looper, Create(i))
    <3> SUFFICES ASSUME Queued(looper, Create(i)) PROVE FALSE
      OBVIOUS
    <3>1. looper[1] = Create(i) \/ Queued(T, Create(i))
      BY <1>2, <1>3, <2>2, HeadIsFirst
    <3>2. looper[1] # Create(i)
      BY <1>2 DEF Create
    <3>3. looper[1].inst < i
      BY <1>2, <1>3, <2>2, <3>1, <3>2, HeadIsFirst
    <3> QED BY <1>2, <3>3 DEF Instances
  <2> QED BY <1>1, <1>2, <2>1, <2>3 DEF Lives, Instances
<1> QED BY <1>1, <1>5, <1>8, <1>9

\* A service that stops itself is at rest.
LEMMA StepAtRest ==
    ASSUME WatchInv, mishaps \in Nat, [WatchNext]_watchVars
    PROVE  AtRest
<1> SUFFICES ASSUME service # 0, service' = 0, mishaps' = mishaps
             PROVE  /\ \A k \in DOMAIN looper' : ~Waits(looper'[k], service)
                    /\ owed' = "nothing"
                    /\ connected => \A h \in Hosts : insts'[service].controls[h] = "absent"
  BY DEF AtRest
<1>1. service \in Instances /\ made \in Nat
  BY StartedIsMade DEF WatchInv
<1>2. ~(service' = service)
  OBVIOUS
<1>3. ~(mishaps' = mishaps + 1)
  OBVIOUS
<1>4. \A intent : ~StartService(intent)
  <2>1. made + 1 # 0
    BY <1>1
  <2> QED BY <2>1 DEF StartService
<1>5. CASE Crash
  <2>1. looper' = <<>>
    <3>1. made + 1 # 0
      BY <1>1
    <3> QED BY <1>5, <3>1 DEF Crash, Dies
  <2>2. owed' = "nothing" /\ insts'[service] = NoInstance
    BY <1>1, <1>5 DEF Crash, Dies
  <2>3. DOMAIN looper' = {}
    BY <2>1, EmptySeq
  <2> QED BY <2>2, <2>3, BlankFields
<1>6. CASE HandleIntent /\ ~Crash
  <2>1. PICK i, t, stops :
              /\ Made(i, t, stops) /\ Becomes(i, t, stops)
              /\ stops => owed' = owed /\ insts[i].task = "none" /\ (connected => Cleared(t))
    BY <1>6, HandleMakes
  <2>2. /\ stops /\ service = i /\ Alive(insts, i) /\ insts'[i] = t
        /\ \A k \in DOMAIN looper' : ~Waits(looper'[k], service)
    BY <2>1, StopsAfterAll
  <2>3. \A g \in Instances : Alive(insts, g) => g = i
    BY <1>1, <2>2 DEF WatchInv, Lives
  <2>4. owed = "nothing"
    BY <2>1, <2>2, <2>3 DEF WatchInv, WatchTyped, Owes
  <2> QED BY <2>1, <2>2, <2>4 DEF Cleared
<1>7. CASE OnExtensionRegisterResult
  <2>1. PICK i, t, stops :
              /\ Made(i, t, stops) /\ Becomes(i, t, stops)
              /\ stops => (Alive(insts, i) => owed' = "nothing") /\ (connected => Cleared(t))
    BY <1>7, ResultMakes
  <2>2. /\ stops /\ service = i /\ Alive(insts, i) /\ insts'[i] = t
        /\ \A k \in DOMAIN looper' : ~Waits(looper'[k], service)
    BY <2>1, StopsAfterAll
  <2> QED BY <2>1, <2>2 DEF Cleared
<1>8. ~(OnCreate \/ OnDestroy \/ \E i \in Instances : TaskDone(i))
  BY <1>2 DEF OnCreate, OnDestroy, TaskDone, UnderWay
<1>9. OnStartCommand => Crash
  BY <1>2 DEF OnStartCommand
<1>10. ~Outside
  BY <1>3, <1>4 DEF Outside, HostControl, Shows, OnReceive, HostRegistration, HostConnection,
                    OpenActivity, CloseActivity, Kill
<1>11. ~UNCHANGED watchVars
  BY <1>2 DEF watchVars
<1> QED BY <1>5, <1>6, <1>7, <1>8, <1>9, <1>10, <1>11 DEF WatchNext, MainThread

\* The mishaps are counted.
Counted == mishaps \in Nat
LEMMA MishapsCounted == WatchSpec => []Counted
<1>1. WatchInit => Counted
  BY DEF WatchInit, Counted
<1>2. Counted /\ [WatchNext]_watchVars => Counted'
  <2> SUFFICES ASSUME mishaps \in Nat, [WatchNext]_watchVars PROVE mishaps' \in Nat
    BY DEF Counted
  <2>1. mishaps' = mishaps \/ mishaps' = mishaps + 1
    BY DEF WatchNext, watchVars, MainThread, OnCreate, OnStartCommand, Crash, HandleIntent, Becomes,
           OnExtensionRegisterResult, OnDestroy, Outside, HostControl, Shows, OnReceive,
           HostRegistration, HostConnection, OpenActivity, CloseActivity, Kill, TaskDone
  <2> QED BY <2>1
<1> QED BY <1>1, <1>2, PTL DEF WatchSpec

\* A service that stops itself leaves no intent unhandled, no registration unfinished, and
\* no control on show while an accessory is connected.
THEOREM StopsAtRest == WatchSpec => StopsSelfAtRest
<1>1. WatchInv /\ Counted /\ [WatchNext]_watchVars => [AtRest]_watchVars
  BY StepAtRest DEF Counted
<1>2. [][AtRest]_watchVars => StopsSelfAtRest
  BY DEF StopsSelfAtRest, AtRest
<1> QED BY <1>1, <1>2, WatchInductive, MishapsCounted, PTL DEF WatchSpec
=============================================================================
