------------------------------ MODULE MCDaemon ------------------------------
(* The event table, the threads that execute commands, and a display that    *)
(* the driver talks with through events.  One instance of them for TLC:      *)
(* every behaviour is one of a single part, and the other parts rest.        *)
EXTENDS EventTable, ExecThreads, TeakLCM

CONSTANTS
    dbusRead, dbusWrite, display, bus, tty,   \* model values: watches and descriptors
    event, exec, lcm                          \* model values: the parts

VARIABLE part

\* A connection of libdbus with two watches of its descriptor, and the display with one.
MCWatches == {dbusRead, dbusWrite, display}
MCFd == [w \in MCWatches |-> IF w = display THEN tty ELSE bus]
MCKind == [w \in MCWatches |-> IF w = dbusWrite THEN "write" ELSE "read"]

daemonVars == <<part, eventVars, execVars, lcmVars>>

DaemonInit ==
    /\ part \in {event, exec, lcm}
    /\ EventInit
    /\ ExecInit /\ (part # exec => usable)
    /\ LcmInit /\ (part # lcm => cut)

DaemonNext ==
    \/ part = event /\ EventNext /\ UNCHANGED <<part, execVars, lcmVars>>
    \/ part = exec /\ ExecNext /\ UNCHANGED <<part, eventVars, lcmVars>>
    \/ part = lcm /\ LcmNext /\ UNCHANGED <<part, eventVars, execVars>>

\* The fairness of each part's specification, as long as that part is at work.
DaemonSpec ==
    /\ DaemonInit /\ [][DaemonNext]_daemonVars
    /\ WF_eventVars(part = event /\ (Loop \/ (closing # {} /\ \E w \in Watches : EventDel(w))))
    /\ \A p \in Processes : WF_execVars(part = exec /\ (RunCommand(p) \/ WriteBuffer(p) \/ UnlockBuffer(p)))
    /\ SF_execVars(part = exec /\ LockForCopy)
    /\ WF_execVars(part = exec /\ CopyText)
    /\ WF_execVars(part = exec /\ DestroyExecThread)
    /\ WF_lcmVars(part = lcm /\ InitialConnect)
    /\ WF_lcmVars(part = lcm /\ Receive)
    /\ WF_lcmVars(part = lcm /\ Obey)
=============================================================================
