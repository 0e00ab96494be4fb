--------------------------- MODULE SchedulerDaemon ---------------------------
(***************************************************************************)
(* The processes around the due scan: `scheduler daemon start`, in the     *)
(* background (a launcher that spawns a daemon) or in the foreground (the  *)
(* daemon alone), `scheduler daemon stop`, and the three files they share: *)
(* the owner lease, the pid record and the status file.                    *)
(*                                                                         *)
(* A start command is its instance token; its launcher and its daemon are  *)
(* two processes.  A process stands for its pid together with its birth    *)
(* identity, which is what the records hold.  Acquire, replace and release *)
(* of the lease run under one flock and are one action each; everything    *)
(* between two file operations of one process is a step of somebody else.  *)
(* daemon_status reads its three files in one step.                        *)
(*                                                                         *)
(* What the operating system shows of a recorded process is only what      *)
(* _pid_running and _process_identity can tell: a dead pid may have been   *)
(* given to a stranger, an identity may be unreadable, and a child that    *)
(* exited still looks alive while its launcher has not ended.              *)
(*                                                                         *)
(* Definitions whose name starts with Bad are faulty variants, used by no  *)
(* specification.                                                          *)
(***************************************************************************)
EXTENDS Naturals

CONSTANTS
  Starts,    \* start commands, one instance token each
  None,      \* a file that does not exist
  Torn,      \* an owner file that was created and never written
  Reuse,     \* starts whose processes' pids strangers may be given after them
  Opaque,    \* starts whose processes' identities may be unreadable
  MaxKills   \* bound on the processes that are killed

Launcher(s) == <<s, "launcher">>
Daemon(s)   == <<s, "daemon">>
Processes   == Starts \X {"launcher", "daemon"}
Token(p)    == p[1]

ASSUME SightsAreOfStarts == Reuse \subseteq Starts /\ Opaque \subseteq Starts
ASSUME KillsAreNatural    == MaxKills \in Nat
ASSUME FilesAreNotProcesses ==
  None \notin Processes /\ Torn \notin Processes /\ None # Torn

Phases == {"none", "gone",                             \* not begun, exited
           "check", "acquire",                         \* both kinds
           "spawn", "inspect", "replace", "writePid", "writeStatus",
           "new", "inherit", "await", "record",
           "first", "scan", "sleep",                   \* the scan loop
           "stopping", "release"}

VARIABLES
  phase,    \* how far each process is
  owner,    \* <pid file>.owner: the process it names
  pidFile,  \* the pid record: the process it names
  status,   \* the status file: the process it names, and whether it runs
  stop,     \* daemons whose stop_requested is set
  target,   \* the process that a stop command is about to signal
  kills     \* kills so far, for the bound MaxKills

files == <<owner, pidFile, status>>
sent  == <<stop, target, kills>>
vars  == <<phase, files, sent>>

NoStatus == [proc |-> None, running |-> FALSE]

Init ==
  /\ phase = [p \in Processes |-> "none"]
  /\ owner = None /\ pidFile = None /\ status = NoStatus
  /\ stop = {} /\ target = None /\ kills = 0

-----------------------------------------------------------------------------
\* What can be seen of a process

Alive(p) == phase[p] \notin {"none", "gone"}

\* A daemon that exited is a zombie until its launcher ends.
BadRunning(p) == Alive(p)                    \* children are reaped at once
Running(p) ==
  \/ Alive(p)
  \/ /\ p = Daemon(Token(p)) /\ phase[p] = "gone"
     /\ Alive(Launcher(Token(p)))

\* _pid_running and _process_identity of a recorded process.
ReadAs(p, id) == IF Token(p) \in Opaque THEN {id, "unknown"} ELSE {id}
Sightings(p) ==
  IF Running(p)
  THEN [runs : {TRUE}, id : ReadAs(p, "same")]
  ELSE [runs : {FALSE}, id : {"unknown"}]
       \cup (IF Token(p) \in Reuse THEN [runs : {TRUE}, id : ReadAs(p, "other")]
             ELSE {})
NoSight == [runs |-> FALSE, id |-> "unknown"]
Seen(f) == IF f \in Processes THEN Sightings(f) ELSE {NoSight}

\* _lease_is_stale: an identity that cannot be read is not a stale one.
BadStale(o) == o.id # "same"                 \* unknown counts as stale
BadStaleIdentity(o) == o.id = "other"        \* a pid nobody has is not looked at
Stale(o) == ~o.runs \/ o.id = "other"

\* daemon_status
Subject == IF owner \in Processes THEN owner
           ELSE IF status # NoStatus THEN status.proc ELSE pidFile
RecordsMatch ==
  owner \in Processes /\ pidFile = owner /\ status.proc = owner
Verified(o) == RecordsMatch /\ o.id = "same"
ReportedStopped == status # NoStatus /\ ~status.running
ReportsRunning(o) == ~ReportedStopped /\ o.runs /\ Verified(o)

-----------------------------------------------------------------------------
\* Steps shared by launchers and daemons

Goto(p, to) == phase' = [phase EXCEPT ![p] = to]

\* _acquire_owner_lease: create the owner file, or replace a stale one.
BadFree(o) == TRUE
Free(o) == owner = None \/ (owner \in Processes /\ Stale(o))
Acquire(p, next) ==
  /\ phase[p] = "acquire"
  /\ \E o \in Seen(owner) :
       IF Free(o) THEN owner' = p /\ Goto(p, next)
                  ELSE UNCHANGED owner /\ Goto(p, "gone")
  /\ UNCHANGED <<pidFile, status, sent>>

\* The process dies after it created or unlinked the owner file and before it
\* wrote it.
DieAcquiring(p) ==
  /\ phase[p] = "acquire" /\ kills < MaxKills
  /\ \E o \in Seen(owner) : Free(o)
  /\ owner' \in {Torn, None}
  /\ Goto(p, "gone")
  /\ kills' = kills + 1
  /\ UNCHANGED <<pidFile, status, stop, target>>

\* _release_owner_lease: by instance token.
Owns(s) == owner \in Processes /\ Token(owner) = s
ReleaseLease(s) == owner' = IF Owns(s) THEN None ELSE owner

\* SIGTERM sets stop_requested while the handler is installed; it ends a
\* process that has not installed it yet or has restored the default.
SigtermEnds(p) == phase[p] \in {"new", "stopping", "release"}
StopAfterSigterm(p) ==
  IF Alive(p) /\ ~SigtermEnds(p) THEN stop \cup {p} ELSE stop
AfterSigterm(p) == IF SigtermEnds(p) THEN "gone" ELSE phase[p]

-----------------------------------------------------------------------------
\* start_background_daemon

BeginBackground(s) ==
  /\ phase[Launcher(s)] = "none" /\ phase[Daemon(s)] = "none"
  /\ Goto(Launcher(s), "check")
  /\ UNCHANGED <<files, sent>>

\* It also gives up when it cannot read its own identity.
LauncherCheck(s) ==
  LET l == Launcher(s)
      Refuse(o) == \/ ReportsRunning(o)
                   \/ o.runs /\ ~Verified(o) /\ ~ReportedStopped
  IN
  /\ phase[l] = "check"
  /\ \E o \in Seen(Subject) :
       \/ ~Refuse(o) /\ Goto(l, "acquire")
       \/ (Refuse(o) \/ s \in Opaque) /\ Goto(l, "gone")
  /\ UNCHANGED <<files, sent>>

Spawn(s) ==
  /\ phase[Launcher(s)] = "spawn"
  /\ phase' = [phase EXCEPT ![Launcher(s)] = "inspect", ![Daemon(s)] = "new"]
  /\ UNCHANGED <<files, sent>>

SpawnFails(s) ==
  /\ phase[Launcher(s)] = "spawn"
  /\ Goto(Launcher(s), "release")
  /\ UNCHANGED <<files, sent>>

\* The child's identity is read, a zombie's too ...
Inspect(s) ==
  /\ phase[Launcher(s)] = "inspect"
  /\ Goto(Launcher(s), "replace")
  /\ UNCHANGED <<files, sent>>

\* ... or not within the deadline: terminate the child ...
InspectFails(s) ==
  /\ phase[Launcher(s)] = "inspect" /\ s \in Opaque
  /\ phase' = [phase EXCEPT ![Launcher(s)] = "release",
                            ![Daemon(s)] = AfterSigterm(Daemon(s))]
  /\ stop' = StopAfterSigterm(Daemon(s))
  /\ UNCHANGED <<files, target, kills>>

\* ... and give the lease back.
LauncherRelease(s) ==
  /\ phase[Launcher(s)] = "release"
  /\ ReleaseLease(s)
  /\ Goto(Launcher(s), "gone")
  /\ UNCHANGED <<pidFile, status, sent>>

\* _replace_owner_lease hands the lease to the child, by token.
HandOver(s) ==
  /\ phase[Launcher(s)] = "replace"
  /\ IF Owns(s)
     THEN /\ owner' = Daemon(s)
          /\ Goto(Launcher(s), "writePid")
          /\ UNCHANGED stop
     ELSE /\ phase' = [phase EXCEPT ![Launcher(s)] = "gone",
                                    ![Daemon(s)] = AfterSigterm(Daemon(s))]
          /\ stop' = StopAfterSigterm(Daemon(s))
          /\ UNCHANGED owner
  /\ UNCHANGED <<pidFile, status, target, kills>>

LauncherWritesPid(s) ==
  /\ phase[Launcher(s)] = "writePid"
  /\ pidFile' = Daemon(s)
  /\ Goto(Launcher(s), "writeStatus")
  /\ UNCHANGED <<owner, status, sent>>

LauncherWritesStatus(s) ==
  /\ phase[Launcher(s)] = "writeStatus"
  /\ status' = [proc |-> Daemon(s), running |-> TRUE]
  /\ Goto(Launcher(s), "gone")
  /\ UNCHANGED <<owner, pidFile, sent>>

-----------------------------------------------------------------------------
\* run_foreground_daemon

BeginForeground(s) ==
  /\ phase[Launcher(s)] = "none" /\ phase[Daemon(s)] = "none"
  /\ Goto(Daemon(s), "new")
  /\ UNCHANGED <<files, sent>>

\* The handlers are installed; without an identity of its own it gives up.
InstallHandlers(s) ==
  /\ phase[Daemon(s)] = "new"
  /\ \/ Goto(Daemon(s), "check")
     \/ s \in Opaque /\ Goto(Daemon(s), "gone")
  /\ UNCHANGED <<files, sent>>

DaemonCheck(s) ==
  LET d == Daemon(s)
      Refuse(o) == ReportsRunning(o) \/ (o.runs /\ ~Verified(o))
  IN
  /\ phase[d] = "check"
  /\ \E o \in Seen(Subject) :
       Goto(d, IF Subject # d /\ Refuse(o) THEN "gone" ELSE "inherit")
  /\ UNCHANGED <<files, sent>>

\* A lease that carries the daemon's token is being handed over to it.
Inherit(s) ==
  /\ phase[Daemon(s)] = "inherit"
  /\ Goto(Daemon(s), IF Owns(s) THEN "await" ELSE "acquire")
  /\ UNCHANGED <<files, sent>>

\* All three files name the daemon, or its two seconds are over.
HandedOver(d) == owner = d /\ pidFile = d /\ status.proc = d
Await(s) ==
  /\ phase[Daemon(s)] = "await"
  /\ Goto(Daemon(s), IF HandedOver(Daemon(s)) THEN "record" ELSE "acquire")
  /\ UNCHANGED <<files, sent>>

Record(s) ==
  /\ phase[Daemon(s)] = "record"
  /\ pidFile' = Daemon(s)
  /\ Goto(Daemon(s), "first")
  /\ UNCHANGED <<owner, status, sent>>

\* One due scan (SchedulerClaims) begins ...
BadBeginScan(s) ==                           \* the stop request is not looked at
  /\ phase[Daemon(s)] \in {"first", "sleep"}
  /\ Goto(Daemon(s), "scan")
  /\ UNCHANGED <<files, sent>>
BeginScan(s) ==
  /\ phase[Daemon(s)] \in {"first", "sleep"} /\ Daemon(s) \notin stop
  /\ Goto(Daemon(s), "scan")
  /\ UNCHANGED <<files, sent>>

\* ... ends, and the status says so; --once leaves the loop here.
EndScan(s) ==
  /\ phase[Daemon(s)] = "scan"
  /\ status' = [proc |-> Daemon(s), running |-> TRUE]
  /\ \E to \in {"sleep", "stopping"} : Goto(Daemon(s), to)
  /\ UNCHANGED <<owner, pidFile, sent>>

\* The loop ends at a stop request, and the handlers are restored.
LeaveLoop(s) ==
  /\ phase[Daemon(s)] \in {"first", "sleep"} /\ Daemon(s) \in stop
  /\ Goto(Daemon(s), "stopping")
  /\ UNCHANGED <<files, sent>>

WriteStopped(s) ==
  /\ phase[Daemon(s)] = "stopping"
  /\ status' = [proc |-> Daemon(s), running |-> FALSE]
  /\ Goto(Daemon(s), "release")
  /\ UNCHANGED <<owner, pidFile, sent>>

DaemonRelease(s) ==
  /\ phase[Daemon(s)] = "release"
  /\ ReleaseLease(s)
  /\ Goto(Daemon(s), "gone")
  /\ UNCHANGED <<pidFile, status, sent>>

-----------------------------------------------------------------------------
\* stop_daemon signals only a process that all three files name and whose
\* identity it could read, a moment after it has looked.
BadMayStop(o) == o.runs
MayStop(o) == o.runs /\ Verified(o)
StopCheck ==
  /\ target = None /\ Subject \in Processes
  /\ \E o \in Seen(Subject) : MayStop(o)
  /\ target' = Subject
  /\ UNCHANGED <<phase, files, stop, kills>>
StopSignal ==
  /\ target # None
  /\ phase' = [phase EXCEPT ![target] = AfterSigterm(target)]
  /\ stop' = StopAfterSigterm(target)
  /\ target' = None
  /\ UNCHANGED <<files, kills>>

\* A process is killed.
Kill(p) ==
  /\ Alive(p) /\ kills < MaxKills
  /\ Goto(p, "gone")
  /\ kills' = kills + 1
  /\ UNCHANGED <<files, stop, target>>

LauncherStep(s) ==
  \/ LauncherCheck(s) \/ Acquire(Launcher(s), "spawn")
  \/ Spawn(s) \/ SpawnFails(s) \/ Inspect(s) \/ InspectFails(s)
  \/ LauncherRelease(s) \/ HandOver(s)
  \/ LauncherWritesPid(s) \/ LauncherWritesStatus(s)
DaemonStep(s) ==
  \/ InstallHandlers(s) \/ DaemonCheck(s) \/ Inherit(s) \/ Await(s)
  \/ Acquire(Daemon(s), "record") \/ Record(s)
  \/ BeginScan(s) \/ EndScan(s)
  \/ LeaveLoop(s) \/ WriteStopped(s) \/ DaemonRelease(s)

Next ==
  \/ \E s \in Starts : \/ BeginBackground(s) \/ BeginForeground(s)
                       \/ LauncherStep(s) \/ DaemonStep(s)
  \/ \E p \in Processes : DieAcquiring(p) \/ Kill(p)
  \/ StopCheck \/ StopSignal

Spec == Init /\ [][Next]_vars

\* A process that is alive takes its next step; nobody has to begin, kill or
\* stop anything, but a stop command that has looked goes on to signal.
FairSpec ==
  /\ Spec
  /\ \A s \in Starts : WF_vars(LauncherStep(s)) /\ WF_vars(DaemonStep(s))
  /\ WF_vars(StopSignal)

-----------------------------------------------------------------------------
\* Properties

TypeOK ==
  /\ phase \in [Processes -> Phases]
  /\ owner \in Processes \cup {None, Torn}
  /\ pidFile \in Processes \cup {None}
  /\ status \in [proc : Processes \cup {None}, running : BOOLEAN]
  /\ stop \subseteq Processes
  /\ target \in Processes \cup {None}
  /\ kills \in 0 .. MaxKills

Looping == {"first", "scan", "sleep"}

\* At most one daemon is in its scan loop, whatever dies, whatever pid is
\* given to a stranger and whichever identity cannot be read
\* (_acquire_owner_lease, _lease_is_stale).
OneScanner ==
  \A p, q \in Processes : phase[p] \in Looping /\ phase[q] \in Looping => p = q

\* The invariant behind it: from taking the lease to giving it away, a process
\* is the one the owner file names.
Holding == Looping \cup {"spawn", "inspect", "replace", "record", "stopping", "release"}
HoldersOwn == \A p \in Processes : phase[p] \in Holding => owner = p
IndInv == TypeOK /\ HoldersOwn

\* A daemon that has scanned can be managed: until it leaves its loop all
\* three files name it, so `status` shows it and `stop` finds it.  No late
\* launcher overwrites its records (start_background_daemon writes them after
\* it gave the lease away; the zombie of its child keeps the lease meanwhile).
ScannerIsManageable ==
  \A p \in Processes : phase[p] = "sleep" => RecordsMatch /\ owner = p

\* The lease of a live process changes only by that process: handed to its own
\* child or given back.
LiveLeaseChange ==
  owner \in Processes /\ Alive(owner) /\ owner' # owner =>
    \/ phase[owner] = "release" /\ owner' = None
    \/ phase[owner] = "replace" /\ owner' = Daemon(Token(owner))
LiveLeaseKept == [][LiveLeaseChange]_vars

\* A stop command that has looked signals the lease holder or nobody: between
\* the look and the signal the process it saw cannot lose the lease and live
\* on, and a launcher is never signalled (stop_daemon).
StopTargetsHolder == target # None => owner = target \/ ~Alive(target)

\* When every other process is gone and the recorded pid is nobody's, a start in
\* the foreground is turned away only by a torn owner file: what a dead owner
\* left behind never blocks it (_lease_is_stale).  The second exception is a child
\* whose launcher died after the hand-over and before it wrote the records:
\* the lease is the child's own and alive, so the child turns itself away.
LoneStartAdmitted ==
  [][\A s \in Starts :
       LET d == Daemon(s) IN
       (/\ Subject \in Processes => Token(Subject) \notin Reuse \cup Opaque
        /\ kills' = kills
        /\ \A p \in Processes \ {d} : ~Alive(p)
        /\ phase[d] \in {"check", "acquire"} /\ phase'[d] = "gone")
         => owner \in {Torn, d}]_vars

\* A daemon that was told to stop ends.
StopIsHonoured ==
  \A s \in Starts : Daemon(s) \in stop ~> phase[Daemon(s)] = "gone"
=============================================================================
