------------------------ MODULE SchedulerDaemonProofs ------------------------
(***************************************************************************)
(* Theorems about SchedulerDaemon: at most one daemon is in its scan loop, *)
(* and the lease of a live process is changed by that process alone.  Both *)
(* follow from HoldersOwn; the step that could break it is the reclaiming  *)
(* of a lease, and FreeLeaseHasNoHolder says why it does not.              *)
(*                                                                         *)
(* A scanning daemon is named by all three files and a stop command        *)
(* signals the lease holder or nobody: for these, Moves is the table of    *)
(* what a step may do to a process and to the files, and Managed what      *)
(* holds between a launcher, its child and the records.  A lone start is   *)
(* admitted because what it sees of a dead process is dead.                *)
(***************************************************************************)
EXTENDS SchedulerDaemon, TLAPS

\* A process and its parts (the pair of an instance token and a kind).
LEMMA ProcessParts ==
  ASSUME NEW s \in Starts
  PROVE  /\ Launcher(s) \in Processes /\ Daemon(s) \in Processes
         /\ Launcher(s) # Daemon(s)
         /\ Token(Launcher(s)) = s /\ Token(Daemon(s)) = s
  BY DEF Processes, Launcher, Daemon, Token

\* What _lease_is_stale may be shown of a live process, or of a zombie, is never
\* stale.
LEMMA RunningIsNotStale ==
  ASSUME NEW p \in Processes, Running(p), NEW o \in Seen(p)
  PROVE  ~Stale(o)
<1>2. o \in [runs : {TRUE}, id : ReadAs(p, "same")]
  BY DEF Seen, Sightings
<1>3. o.runs = TRUE /\ o.id \in ReadAs(p, "same")
  BY <1>2
<1>4. o.id # "other"
  BY <1>3 DEF ReadAs
<1> QED  BY <1>3, <1>4 DEF Stale

\* A lease that can be acquired is nobody's.
LEMMA FreeLeaseHasNoHolder ==
  ASSUME IndInv, NEW o \in Seen(owner), Free(o)
  PROVE  /\ \A p \in Processes : phase[p] \notin Holding
         /\ owner \in Processes => ~Alive(owner) /\ ~Running(owner)
<1>1. owner \in Processes => ~Alive(owner) /\ ~Running(owner)
  BY RunningIsNotStale, FilesAreNotProcesses DEF Free, Running
<1>2. ASSUME NEW p \in Processes, phase[p] \in Holding  PROVE FALSE
  <2>1. owner = p  BY <1>2 DEF IndInv, HoldersOwn
  <2>2. Alive(p)  BY <1>2 DEF Alive, Holding, Looping
  <2> QED  BY <1>1, <2>1, <2>2
<1> QED  BY <1>1, <1>2

\* Nobody holds the lease at first.
LEMMA InitIsInductive == Init => IndInv
<1> SUFFICES ASSUME Init PROVE IndInv
  OBVIOUS
<1>1. TypeOK
  BY KillsAreNatural DEF Init, TypeOK, NoStatus, Phases
<1>2. HoldersOwn
  BY DEF Init, HoldersOwn, Holding, Looping
<1> QED  BY <1>1, <1>2 DEF IndInv

\* A move of one process.
LEMMA GotoMoves ==
  ASSUME TypeOK, NEW p \in Processes, NEW to \in Phases, Goto(p, to)
  PROVE  /\ phase' \in [Processes -> Phases]
         /\ phase'[p] = to
         /\ \A q \in Processes \ {p} : phase'[q] = phase[q]
  BY DEF TypeOK, Goto

\* What SIGTERM does to the phase and the flag of a process.
LEMMA SigtermTypes ==
  ASSUME TypeOK, NEW p \in Processes
  PROVE  /\ AfterSigterm(p) \in {"gone", phase[p]} /\ AfterSigterm(p) \in Phases
         /\ StopAfterSigterm(p) \subseteq Processes
<1>1. AfterSigterm(p) \in {"gone", phase[p]} /\ AfterSigterm(p) \in Phases
  BY DEF AfterSigterm, TypeOK, Phases
<1>2. StopAfterSigterm(p) \subseteq Processes
  BY DEF StopAfterSigterm, TypeOK
<1> QED  BY <1>1, <1>2

\* Every step keeps the shapes: a launcher's ...
LEMMA LauncherTypes ==
  ASSUME TypeOK, NEW s \in Starts, BeginBackground(s) \/ LauncherStep(s)
  PROVE  TypeOK'
<1> DEFINE l == Launcher(s)  d == Daemon(s)
<1>p. l \in Processes /\ d \in Processes
  BY ProcessParts
<1>f. /\ phase \in [Processes -> Phases]
      /\ {"check", "acquire", "spawn", "inspect", "replace", "writePid",
          "writeStatus", "release", "new", "gone"} \subseteq Phases
  BY DEF TypeOK, Phases
<1>g. AfterSigterm(d) \in Phases /\ StopAfterSigterm(d) \subseteq Processes
  BY <1>p, SigtermTypes
<1> HIDE DEF l, d
<1>1. CASE BeginBackground(s)
  BY <1>1, <1>p, <1>f DEF BeginBackground, Goto, files, sent, TypeOK, l
<1>2. CASE LauncherCheck(s)
  BY <1>2, <1>p, <1>f DEF LauncherCheck, Goto, files, sent, TypeOK, l
<1>3. CASE Acquire(Launcher(s), "spawn")
  BY <1>3, <1>p, <1>f DEF Acquire, Goto, sent, TypeOK, l
<1>4. CASE Spawn(s)
  BY <1>4, <1>p, <1>f DEF Spawn, files, sent, TypeOK, l, d
<1>5. CASE SpawnFails(s)
  BY <1>5, <1>p, <1>f DEF SpawnFails, Goto, files, sent, TypeOK, l
<1>6. CASE Inspect(s)
  BY <1>6, <1>p, <1>f DEF Inspect, Goto, files, sent, TypeOK, l
<1>7. CASE InspectFails(s)
  BY <1>7, <1>p, <1>f, <1>g DEF InspectFails, files, TypeOK, l, d
<1>8. CASE LauncherRelease(s)
  BY <1>8, <1>p, <1>f DEF LauncherRelease, ReleaseLease, Goto, sent, TypeOK, l
<1>9. CASE HandOver(s)
  BY <1>9, <1>p, <1>f, <1>g DEF HandOver, Goto, TypeOK, l, d
<1>10. CASE LauncherWritesPid(s)
  BY <1>10, <1>p, <1>f DEF LauncherWritesPid, Goto, sent, TypeOK, l, d
<1>11. CASE LauncherWritesStatus(s)
  BY <1>11, <1>p, <1>f DEF LauncherWritesStatus, Goto, sent, TypeOK, l, d
<1> QED
  BY <1>1, <1>2, <1>3, <1>4, <1>5, <1>6, <1>7, <1>8, <1>9, <1>10, <1>11 DEF LauncherStep

\* ... a daemon's ...
LEMMA DaemonTypes ==
  ASSUME TypeOK, NEW s \in Starts, BeginForeground(s) \/ DaemonStep(s)
  PROVE  TypeOK'
<1> DEFINE d == Daemon(s)
<1>p. d \in Processes
  BY ProcessParts
<1>f. /\ phase \in [Processes -> Phases]
      /\ {"new", "check", "inherit", "await", "acquire", "record", "first",
          "scan", "sleep", "stopping", "release", "gone"} \subseteq Phases
  BY DEF TypeOK, Phases
<1> HIDE DEF d
<1>1. CASE BeginForeground(s)
  BY <1>1, <1>p, <1>f DEF BeginForeground, Goto, files, sent, TypeOK, d
<1>2. CASE InstallHandlers(s)
  BY <1>2, <1>p, <1>f DEF InstallHandlers, Goto, files, sent, TypeOK, d
<1>3. CASE DaemonCheck(s)
  BY <1>3, <1>p, <1>f DEF DaemonCheck, Goto, files, sent, TypeOK, d
<1>4. CASE Inherit(s)
  BY <1>4, <1>p, <1>f DEF Inherit, Goto, files, sent, TypeOK, d
<1>5. CASE Await(s)
  BY <1>5, <1>p, <1>f DEF Await, Goto, files, sent, TypeOK, d
<1>6. CASE Acquire(Daemon(s), "record")
  BY <1>6, <1>p, <1>f DEF Acquire, Goto, sent, TypeOK, d
<1>7. CASE Record(s)
  BY <1>7, <1>p, <1>f DEF Record, Goto, sent, TypeOK, d
<1>8. CASE BeginScan(s)
  BY <1>8, <1>p, <1>f DEF BeginScan, Goto, files, sent, TypeOK, d
<1>9. CASE EndScan(s)
  BY <1>9, <1>p, <1>f DEF EndScan, Goto, sent, TypeOK, d
<1>10. CASE LeaveLoop(s)
  BY <1>10, <1>p, <1>f DEF LeaveLoop, Goto, files, sent, TypeOK, d
<1>11. CASE WriteStopped(s)
  BY <1>11, <1>p, <1>f DEF WriteStopped, Goto, sent, TypeOK, d
<1>12. CASE DaemonRelease(s)
  BY <1>12, <1>p, <1>f DEF DaemonRelease, ReleaseLease, Goto, sent, TypeOK, d
<1> QED
  BY <1>1, <1>2, <1>3, <1>4, <1>5, <1>6, <1>7, <1>8, <1>9, <1>10, <1>11, <1>12
  DEF DaemonStep

\* ... and everybody else's.
LEMMA TypesStep == TypeOK /\ [Next]_vars => TypeOK'
<1> SUFFICES ASSUME TypeOK, [Next]_vars PROVE TypeOK'
  OBVIOUS
<1>1. ASSUME NEW s \in Starts,
             BeginBackground(s) \/ BeginForeground(s) \/ LauncherStep(s) \/ DaemonStep(s)
      PROVE  TypeOK'
  BY <1>1, LauncherTypes, DaemonTypes
<1>2. ASSUME NEW p \in Processes, DieAcquiring(p)  PROVE TypeOK'
  BY <1>2, KillsAreNatural DEF DieAcquiring, Goto, TypeOK, Phases
<1>3. ASSUME NEW p \in Processes, Kill(p)  PROVE TypeOK'
  BY <1>3, KillsAreNatural DEF Kill, Goto, files, TypeOK, Phases
<1>4. CASE StopCheck
  BY <1>4 DEF StopCheck, files, TypeOK
<1>5. CASE StopSignal
  <2>1. target \in Processes  BY <1>5 DEF StopSignal, TypeOK
  <2> QED  BY <1>5, <2>1, SigtermTypes DEF StopSignal, files, TypeOK
<1>6. CASE UNCHANGED vars
  BY <1>6 DEF vars, files, sent, TypeOK
<1> QED  BY <1>1, <1>2, <1>3, <1>4, <1>5, <1>6 DEF Next

-----------------------------------------------------------------------------
\* A step that leaves the owner file alone and lets nobody but its owner begin
\* to hold keeps HoldersOwn.
LEMMA QuietStep ==
  ASSUME IndInv, UNCHANGED owner,
         \A q \in Processes : phase'[q] \in Holding => phase[q] \in Holding \/ owner = q
  PROVE  HoldersOwn'
  BY DEF IndInv, HoldersOwn

\* A move of one process that does not begin to hold.
LEMMA QuietMove ==
  ASSUME IndInv, UNCHANGED owner, NEW p \in Processes, NEW to \in Phases, Goto(p, to),
         to \in Holding => phase[p] \in Holding \/ owner = p
  PROVE  HoldersOwn'
<1>1. phase'[p] = to /\ \A q \in Processes \ {p} : phase'[q] = phase[q]
  BY GotoMoves DEF IndInv
<1> QED  BY <1>1, QuietStep

\* Taking a free lease.
LEMMA AcquireHolds ==
  ASSUME IndInv, NEW p \in Processes, NEW next \in Phases, Acquire(p, next)
  PROVE  HoldersOwn'
<1>1. PICK o \in Seen(owner) :
        IF Free(o) THEN owner' = p /\ Goto(p, next)
                   ELSE UNCHANGED owner /\ Goto(p, "gone")
  BY DEF Acquire
<1>2. CASE Free(o)
  <2>1. \A q \in Processes : phase[q] \notin Holding
    BY <1>2, FreeLeaseHasNoHolder
  <2>2. \A q \in Processes \ {p} : phase'[q] = phase[q]
    BY <1>1, <1>2, GotoMoves DEF IndInv
  <2> QED  BY <1>1, <1>2, <2>1, <2>2 DEF HoldersOwn
<1>3. CASE ~Free(o)
  BY <1>1, <1>3, QuietMove DEF Holding, Looping, Phases
<1> QED  BY <1>2, <1>3

\* Giving the lease back: only the process that gives it back held it.
LEMMA ReleaseHolds ==
  ASSUME IndInv, NEW p \in Processes, phase[p] = "release",
         ReleaseLease(Token(p)), Goto(p, "gone")
  PROVE  HoldersOwn' /\ owner = p /\ owner' = None
<1>1. owner = p
  BY DEF IndInv, HoldersOwn, Holding
<1>2. owner' = None
  BY <1>1 DEF ReleaseLease, Owns
<1>3. /\ phase'[p] = "gone"
      /\ \A q \in Processes \ {p} : phase'[q] = phase[q]
  BY GotoMoves DEF IndInv, Phases
<1>4. \A q \in Processes \ {p} : phase[q] \notin Holding
  BY <1>1 DEF IndInv, HoldersOwn
<1> QED  BY <1>1, <1>2, <1>3, <1>4 DEF HoldersOwn, Holding, Looping

\* Handing the lease over to the child.
LEMMA HandOverHolds ==
  ASSUME IndInv, NEW s \in Starts, HandOver(s)
  PROVE  HoldersOwn' /\ owner = Launcher(s) /\ owner' = Daemon(s)
<1> DEFINE l == Launcher(s)  d == Daemon(s)
<1>p. l \in Processes /\ d \in Processes /\ l # d /\ Token(l) = s
  BY ProcessParts
<1>1. phase[l] = "replace" /\ owner = l
  BY <1>p DEF HandOver, IndInv, HoldersOwn, Holding
<1>2. owner' = d /\ Goto(l, "writePid")
  BY <1>1, <1>p DEF HandOver, Owns
<1>3. /\ phase'[l] = "writePid"
      /\ \A q \in Processes \ {l} : phase'[q] = phase[q]
  BY <1>2, <1>p, GotoMoves DEF IndInv, Phases
<1>4. \A q \in Processes \ {l} : phase[q] \notin Holding
  BY <1>1 DEF IndInv, HoldersOwn
<1> QED  BY <1>1, <1>2, <1>3, <1>4 DEF HoldersOwn, Holding, Looping

\* SIGTERM lets nobody begin to hold.
LEMMA SigtermIsQuiet ==
  ASSUME IndInv, NEW p \in Processes
  PROVE  AfterSigterm(p) \in Holding => phase[p] \in Holding
  BY DEF AfterSigterm, Holding, Looping

\* HoldersOwn survives every step of a launcher ...
LEMMA LauncherHolds ==
  ASSUME IndInv, NEW s \in Starts, BeginBackground(s) \/ LauncherStep(s)
  PROVE  HoldersOwn'
<1> DEFINE l == Launcher(s)  d == Daemon(s)
<1>p. l \in Processes /\ d \in Processes /\ l # d /\ Token(l) = s
  BY ProcessParts
<1>f. {"check", "acquire", "spawn", "inspect", "replace", "writePid",
       "writeStatus", "release", "new", "gone"} \subseteq Phases
  BY DEF Phases
<1>h. /\ {"spawn", "inspect", "replace", "release"} \subseteq Holding
      /\ {"check", "acquire", "writePid", "writeStatus", "new", "gone"} \cap Holding = {}
  BY DEF Holding, Looping
<1>t. phase \in [Processes -> Phases]
  BY DEF IndInv, TypeOK
<1> HIDE DEF l, d
<1>1. CASE BeginBackground(s)
  BY <1>1, <1>p, <1>f, <1>h, QuietMove DEF BeginBackground, files, l
<1>2. CASE LauncherCheck(s)
  BY <1>2, <1>p, <1>f, <1>h, QuietMove DEF LauncherCheck, files, l
<1>3. CASE Acquire(Launcher(s), "spawn")
  BY <1>3, <1>p, <1>f, AcquireHolds DEF l
<1>4. CASE Spawn(s)
  <2>1. \A q \in Processes : phase'[q] \in Holding => phase[q] \in Holding
    BY <1>4, <1>p, <1>h, <1>t DEF Spawn, l, d
  <2> QED  BY <1>4, <2>1, QuietStep DEF Spawn, files
<1>5. CASE SpawnFails(s)
  BY <1>5, <1>p, <1>f, <1>h, QuietMove DEF SpawnFails, files, l
<1>6. CASE Inspect(s)
  BY <1>6, <1>p, <1>f, <1>h, QuietMove DEF Inspect, files, l
<1>7. CASE InspectFails(s)
  <2>1. \A q \in Processes : phase'[q] \in Holding => phase[q] \in Holding
    BY <1>7, <1>p, <1>h, <1>t, SigtermIsQuiet DEF InspectFails, l, d
  <2> QED  BY <1>7, <2>1, QuietStep DEF InspectFails, files
<1>8. CASE LauncherRelease(s)
  BY <1>8, <1>p, ReleaseHolds DEF LauncherRelease, l
<1>9. CASE HandOver(s)
  BY <1>9, HandOverHolds
<1>10. CASE LauncherWritesPid(s)
  BY <1>10, <1>p, <1>f, <1>h, QuietMove DEF LauncherWritesPid, l
<1>11. CASE LauncherWritesStatus(s)
  BY <1>11, <1>p, <1>f, <1>h, QuietMove DEF LauncherWritesStatus, l
<1> QED
  BY <1>1, <1>2, <1>3, <1>4, <1>5, <1>6, <1>7, <1>8, <1>9, <1>10, <1>11 DEF LauncherStep

\* ... of a daemon ...
LEMMA DaemonHolds ==
  ASSUME IndInv, NEW s \in Starts, BeginForeground(s) \/ DaemonStep(s)
  PROVE  HoldersOwn'
<1> DEFINE d == Daemon(s)
<1>p. d \in Processes /\ Token(d) = s
  BY ProcessParts
<1>f. {"new", "check", "inherit", "await", "acquire", "record", "first",
       "scan", "sleep", "stopping", "release", "gone"} \subseteq Phases
  BY DEF Phases
<1>h. /\ {"record", "first", "scan", "sleep", "stopping", "release"} \subseteq Holding
      /\ {"new", "check", "inherit", "await", "acquire", "gone"} \cap Holding = {}
  BY DEF Holding, Looping
<1> HIDE DEF d
<1>1. CASE BeginForeground(s)
  BY <1>1, <1>p, <1>f, <1>h, QuietMove DEF BeginForeground, files, d
<1>2. CASE InstallHandlers(s)
  BY <1>2, <1>p, <1>f, <1>h, QuietMove DEF InstallHandlers, files, d
<1>3. CASE DaemonCheck(s)
  BY <1>3, <1>p, <1>f, <1>h, QuietMove DEF DaemonCheck, files, d
<1>4. CASE Inherit(s)
  BY <1>4, <1>p, <1>f, <1>h, QuietMove DEF Inherit, files, d
<1>5. CASE Await(s)
  BY <1>5, <1>p, <1>f, <1>h, QuietMove DEF Await, HandedOver, files, d
<1>6. CASE Acquire(Daemon(s), "record")
  BY <1>6, <1>p, <1>f, AcquireHolds DEF d
<1>7. CASE Record(s)
  BY <1>7, <1>p, <1>f, <1>h, QuietMove DEF Record, d
<1>8. CASE BeginScan(s)
  BY <1>8, <1>p, <1>f, <1>h, QuietMove DEF BeginScan, files, d
<1>9. CASE EndScan(s)
  BY <1>9, <1>p, <1>f, <1>h, QuietMove DEF EndScan, d
<1>10. CASE LeaveLoop(s)
  BY <1>10, <1>p, <1>f, <1>h, QuietMove DEF LeaveLoop, files, d
<1>11. CASE WriteStopped(s)
  BY <1>11, <1>p, <1>f, <1>h, QuietMove DEF WriteStopped, d
<1>12. CASE DaemonRelease(s)
  BY <1>12, <1>p, ReleaseHolds DEF DaemonRelease, d
<1> QED
  BY <1>1, <1>2, <1>3, <1>4, <1>5, <1>6, <1>7, <1>8, <1>9, <1>10, <1>11, <1>12
  DEF DaemonStep

\* ... and of everybody else.
LEMMA HoldersStep == IndInv /\ [Next]_vars => HoldersOwn'
<1> SUFFICES ASSUME IndInv, [Next]_vars PROVE HoldersOwn'
  OBVIOUS
<1>t. phase \in [Processes -> Phases] /\ "gone" \in Phases /\ "gone" \notin Holding
  BY DEF IndInv, TypeOK, Phases, Holding, Looping
<1>1. ASSUME NEW s \in Starts,
             BeginBackground(s) \/ BeginForeground(s) \/ LauncherStep(s) \/ DaemonStep(s)
      PROVE  HoldersOwn'
  BY <1>1, LauncherHolds, DaemonHolds
<1>2. ASSUME NEW p \in Processes, DieAcquiring(p)  PROVE HoldersOwn'
  <2>1. \A q \in Processes : phase[q] \notin Holding
    BY <1>2, FreeLeaseHasNoHolder DEF DieAcquiring
  <2>2. \A q \in Processes : phase'[q] \notin Holding
    BY <1>2, <1>t, <2>1, GotoMoves DEF DieAcquiring, IndInv
  <2> QED  BY <2>2 DEF HoldersOwn
<1>3. ASSUME NEW p \in Processes, Kill(p)  PROVE HoldersOwn'
  BY <1>3, <1>t, QuietMove DEF Kill, files
<1>4. CASE StopCheck
  BY <1>4, QuietStep DEF StopCheck, files
<1>5. CASE StopSignal
  <2>1. target \in Processes  BY <1>5 DEF StopSignal, IndInv, TypeOK
  <2>2. \A q \in Processes : phase'[q] \in Holding => phase[q] \in Holding
    BY <1>5, <1>t, <2>1, SigtermIsQuiet DEF StopSignal
  <2> QED  BY <1>5, <2>2, QuietStep DEF StopSignal, files
<1>6. CASE UNCHANGED vars
  BY <1>6, QuietStep DEF vars, files
<1> QED  BY <1>1, <1>2, <1>3, <1>4, <1>5, <1>6 DEF Next

\* The two conjuncts together.
LEMMA NextIsInductive == IndInv /\ [Next]_vars => IndInv'
  BY TypesStep, HoldersStep DEF IndInv

\* Whoever takes, scans under or gives back the lease is named by it.
THEOREM LeaseInvariant == Spec => []IndInv
  BY InitIsInductive, NextIsInductive, PTL DEF Spec

\* At most one daemon is in its scan loop.
THEOREM AtMostOneScanner == Spec => []OneScanner
<1>1. IndInv => OneScanner
  BY DEF IndInv, HoldersOwn, OneScanner, Holding
<1> QED  BY <1>1, LeaseInvariant, PTL

-----------------------------------------------------------------------------
\* The lease of a live process changes only when that process gives it away.
LEMMA LeaseStep == IndInv /\ [Next]_vars => LiveLeaseChange
<1> SUFFICES ASSUME IndInv, [Next]_vars, owner \in Processes, Alive(owner), owner' # owner
             PROVE  \/ phase[owner] = "release" /\ owner' = None
                    \/ phase[owner] = "replace" /\ owner' = Daemon(Token(owner))
  BY DEF LiveLeaseChange
<1>a. ASSUME NEW p \in Processes, NEW next, Acquire(p, next)  PROVE FALSE
  BY <1>a, FreeLeaseHasNoHolder DEF Acquire
<1>1. ASSUME NEW s \in Starts, LauncherStep(s)
      PROVE  HandOver(s) \/ LauncherRelease(s)
  <2>1. ~Acquire(Launcher(s), "spawn")
    BY <1>a, ProcessParts
  <2> QED
    BY <1>1, <2>1
    DEF LauncherStep, LauncherCheck, Spawn, SpawnFails, Inspect, InspectFails,
        LauncherWritesPid, LauncherWritesStatus, files
<1>2. ASSUME NEW s \in Starts, DaemonStep(s)
      PROVE  DaemonRelease(s)
  <2>1. ~Acquire(Daemon(s), "record")
    BY <1>a, ProcessParts
  <2> QED
    BY <1>2, <2>1
    DEF DaemonStep, InstallHandlers, DaemonCheck, Inherit, Await, Record, BeginScan,
        EndScan, LeaveLoop, WriteStopped, files
<1>3. ASSUME NEW s \in Starts, BeginBackground(s) \/ BeginForeground(s)  PROVE FALSE
  BY <1>3 DEF BeginBackground, BeginForeground, files
<1>4. ASSUME NEW p \in Processes, DieAcquiring(p) \/ Kill(p)  PROVE FALSE
  BY <1>4, FreeLeaseHasNoHolder DEF DieAcquiring, Kill, files
<1>5. ~StopCheck /\ ~StopSignal /\ ~(UNCHANGED vars)
  BY DEF StopCheck, StopSignal, vars, files
<1>6. PICK s \in Starts : HandOver(s) \/ LauncherRelease(s) \/ DaemonRelease(s)
  BY <1>1, <1>2, <1>3, <1>4, <1>5 DEF Next
<1>p. /\ Launcher(s) \in Processes /\ Token(Launcher(s)) = s
      /\ Daemon(s) \in Processes /\ Token(Daemon(s)) = s
  BY ProcessParts
<1>7. CASE HandOver(s)
  BY <1>7, <1>p, HandOverHolds DEF HandOver
<1>8. CASE LauncherRelease(s)
  BY <1>8, <1>p, ReleaseHolds DEF LauncherRelease
<1>9. CASE DaemonRelease(s)
  BY <1>9, <1>p, ReleaseHolds DEF DaemonRelease
<1> QED  BY <1>6, <1>7, <1>8, <1>9

\* Nobody reclaims the lease of a live process, whatever its pid or identity
\* looks like from outside.
THEOREM LiveLeasesAreKept == Spec => LiveLeaseKept
<1>1. IndInv /\ [Next]_vars => [LiveLeaseChange]_vars
  BY LeaseStep
<1> QED  BY <1>1, LeaseInvariant, PTL DEF Spec, LiveLeaseKept
-----------------------------------------------------------------------------
(* The records, and whom a stop command signals.  The table of moves first. *)

Before == {"check", "acquire", "spawn"}            \* the child does not exist
Beside == {"inspect", "replace", "writePid", "writeStatus"}    \* ... or does
Writing == {"writePid", "writeStatus"}

\* How a launcher may move in one step.
LauncherMove(s) ==
  LET l == Launcher(s)  d == Daemon(s) IN
  \/ phase'[l] \in {phase[l], "gone", "release"} /\ (phase[l] = "none" => phase'[l] = "none")
  \/ phase[l] = "none" /\ phase[d] = "none" /\ phase'[l] = "check"
  \/ phase[l] = "check" /\ phase'[l] = "acquire"
  \/ phase[l] = "acquire" /\ phase'[l] = "spawn"
  \/ phase[l] = "spawn" /\ phase'[l] = "inspect" /\ phase'[d] = "new"
  \/ phase[l] = "inspect" /\ phase'[l] = "replace"
  \/ phase[l] = "replace" /\ phase'[l] = "writePid" /\ owner' = d
  \/ phase[l] = "writePid" /\ phase'[l] = "writeStatus"

\* How a daemon may move in one step.
DaemonMove(s) ==
  LET l == Launcher(s)  d == Daemon(s) IN
  \/ phase'[d] \in {phase[d], "gone"} /\ (phase[d] = "none" => phase'[d] = "none")
  \/ phase[d] = "none" /\ phase'[d] = "new" /\ phase[l] = "none" /\ phase'[l] = "none"
  \/ phase[l] = "spawn" /\ phase'[l] = "inspect" /\ phase'[d] = "new"
  \/ phase[d] = "new" /\ phase'[d] = "check"
  \/ phase[d] = "check" /\ phase'[d] = "inherit"
  \/ phase[d] = "inherit" /\ phase'[d] \in {"await", "acquire"}
  \/ phase[d] = "await" /\ phase'[d] = "record" /\ HandedOver(d)
  \/ phase[d] = "await" /\ phase'[d] = "acquire"
  \/ phase[d] = "acquire" /\ phase'[d] = "record" /\ owner' = d
       /\ (owner \in Processes => ~Running(owner))
  \/ phase[d] = "record" /\ phase'[d] = "first" /\ pidFile' = d
  \/ phase[d] \in {"first", "sleep"} /\ phase'[d] = "scan"
  \/ phase[d] = "scan" /\ phase'[d] = "sleep" /\ status'.proc = d
  \/ phase[d] \in {"first", "scan", "sleep"} /\ phase'[d] = "stopping"
  \/ phase[d] = "stopping" /\ phase'[d] = "release"

\* What may become of the files in one step.
OwnerMove ==
  \/ owner' = owner
  \/ \E p \in Processes : /\ phase[p] = "acquire" /\ owner' \in {p, None, Torn}
                          /\ owner' = p => phase'[p] # "none"
                          /\ owner \in Processes => ~Running(owner)
  \/ \E p \in Processes : phase[p] = "release" /\ owner = p /\ phase'[p] = "gone" /\ owner' = None
  \/ \E s \in Starts : phase[Launcher(s)] = "replace" /\ owner = Launcher(s)
                       /\ owner' = Daemon(s) /\ phase'[Launcher(s)] = "writePid"
PidMove ==
  \/ pidFile' = pidFile
  \/ \E s \in Starts : /\ pidFile' = Daemon(s)
                       /\ phase[Launcher(s)] = "writePid" \/ phase[Daemon(s)] = "record"
StatusMove ==
  \/ status' = status
  \/ \E s \in Starts :
       /\ status'.proc = Daemon(s)
       /\ \/ phase[Launcher(s)] = "writeStatus" /\ phase'[Launcher(s)] = "gone"
          \/ /\ phase[Daemon(s)] \in {"scan", "stopping"}
             /\ phase'[Launcher(s)] = phase[Launcher(s)]
TargetMove ==
  \/ target' \in {target, None}
  \/ target' \in Processes /\ RecordsMatch /\ target' = owner /\ owner' = owner

Moves == /\ \A s \in Starts : LauncherMove(s) /\ DaemonMove(s)
         /\ OwnerMove /\ PidMove /\ StatusMove /\ TargetMove

LEMMA StartMoves ==
  ASSUME IndInv, NEW s \in Starts,
         BeginBackground(s) \/ BeginForeground(s) \/ LauncherStep(s) \/ DaemonStep(s)
  PROVE  /\ LauncherMove(s) /\ DaemonMove(s)
         /\ \A p \in Processes \ {Launcher(s), Daemon(s)} : phase'[p] = phase[p]
         /\ OwnerMove /\ PidMove /\ StatusMove /\ target' = target
<1> DEFINE l == Launcher(s)  d == Daemon(s)
<1>p. /\ l \in Processes /\ d \in Processes /\ l # d /\ Token(l) = s /\ Token(d) = s
  BY ProcessParts
<1>t. phase \in [Processes -> Phases]
  BY DEF IndInv, TypeOK
<1>g. ASSUME NEW p \in Processes, NEW to, Goto(p, to)
      PROVE  phase'[p] = to /\ \A q \in Processes \ {p} : phase'[q] = phase[q]
  BY <1>g, <1>t DEF Goto
<1>q. UNCHANGED files => OwnerMove /\ PidMove /\ StatusMove
  BY DEF files, OwnerMove, PidMove, StatusMove
<1>n. (UNCHANGED owner => OwnerMove) /\ (UNCHANGED pidFile => PidMove)
      /\ (UNCHANGED status => StatusMove)
  BY DEF OwnerMove, PidMove, StatusMove
<1>e. "gone" # "none"
  OBVIOUS
<1>a. ASSUME NEW p \in Processes, NEW next, next # "none", Acquire(p, next)
      PROVE  /\ OwnerMove
             /\ \/ phase'[p] = "gone"
                \/ /\ phase'[p] = next /\ owner' = p
                   /\ owner \in Processes => ~Running(owner)
  <2>1. PICK o \in Seen(owner) :
          IF Free(o) THEN owner' = p /\ Goto(p, next)
                     ELSE UNCHANGED owner /\ Goto(p, "gone")
    BY <1>a DEF Acquire
  <2>2. CASE Free(o)
    <3>1. /\ owner' = p /\ phase'[p] = next
          /\ owner \in Processes => ~Running(owner)
      BY <2>1, <2>2, <1>g, FreeLeaseHasNoHolder
    <3>2. phase[p] = "acquire"
      BY <1>a DEF Acquire
    <3> QED
      BY <3>1, <3>2, <1>a DEF OwnerMove
  <2>3. CASE ~Free(o)
    BY <2>1, <2>3, <1>g, <1>n
  <2> QED
    BY <2>2, <2>3
<1>r. ASSUME NEW p \in Processes, phase[p] = "release", ReleaseLease(Token(p)), Goto(p, "gone")
      PROVE  OwnerMove
  BY <1>r, <1>g, ReleaseHolds DEF OwnerMove
<1>s. AfterSigterm(d) \in {"gone", phase[d]} /\ (phase[d] = "none" => AfterSigterm(d) = "none")
  BY DEF AfterSigterm, SigtermEnds
<1> HIDE DEF l, d
<1>1. CASE BeginBackground(s)
  BY <1>1, <1>p, <1>g, <1>q DEF BeginBackground, sent, LauncherMove, DaemonMove, l, d
<1>2. CASE LauncherCheck(s)
  <2>1. phase[l] = "check" /\ phase'[l] \in {"acquire", "gone"} /\ phase'[d] = phase[d]
    BY <1>2, <1>p, <1>g DEF LauncherCheck, l
  <2> QED
    BY <1>2, <2>1, <1>p, <1>g, <1>q DEF LauncherCheck, sent, LauncherMove, DaemonMove, l, d
<1>3. CASE Acquire(Launcher(s), "spawn")
  <2>1. /\ phase[l] = "acquire" /\ phase'[l] \in {"spawn", "gone"} /\ OwnerMove
        /\ \A q \in Processes \ {l} : phase'[q] = phase[q]
    BY <1>3, <1>p, <1>g, <1>a DEF Acquire, l
  <2> QED
    BY <1>3, <2>1, <1>p, <1>n DEF Acquire, sent, LauncherMove, DaemonMove, l, d
<1>4. CASE Spawn(s)
  BY <1>4, <1>p, <1>t, <1>q DEF Spawn, sent, LauncherMove, DaemonMove, l, d
<1>5. CASE SpawnFails(s)
  BY <1>5, <1>p, <1>g, <1>q DEF SpawnFails, sent, LauncherMove, DaemonMove, l, d
<1>6. CASE Inspect(s)
  BY <1>6, <1>p, <1>g, <1>q DEF Inspect, sent, LauncherMove, DaemonMove, l, d
<1>7. CASE InspectFails(s)
  <2>1. /\ phase[l] = "inspect" /\ phase'[l] = "release" /\ phase'[d] = AfterSigterm(d)
        /\ \A q \in Processes \ {l, d} : phase'[q] = phase[q]
    BY <1>7, <1>p, <1>t DEF InspectFails, l, d
  <2> QED
    BY <1>7, <2>1, <1>s, <1>q DEF InspectFails, LauncherMove, DaemonMove, l, d
<1>8. CASE LauncherRelease(s)
  <2>1. OwnerMove
    BY <1>8, <1>p, <1>r DEF LauncherRelease, l
  <2> QED
    BY <1>8, <2>1, <1>p, <1>g, <1>n DEF LauncherRelease, sent, LauncherMove, DaemonMove, l, d
<1>9. CASE HandOver(s)
  <2>1. owner = l /\ owner' = d
    BY <1>9, HandOverHolds DEF l, d
  <2>2. phase[l] = "replace" /\ Goto(l, "writePid")
    BY <1>9, <2>1, <1>p DEF HandOver, Owns, l
  <2>3. OwnerMove
    BY <2>1, <2>2, <1>p, <1>g DEF OwnerMove, l, d
  <2> QED
    BY <1>9, <2>1, <2>2, <2>3, <1>p, <1>g, <1>n DEF HandOver, LauncherMove, DaemonMove, l, d
<1>10. CASE LauncherWritesPid(s)
  <2>1. PidMove
    BY <1>10 DEF LauncherWritesPid, PidMove
  <2> QED
    BY <1>10, <2>1, <1>p, <1>g, <1>n DEF LauncherWritesPid, sent, LauncherMove, DaemonMove, l, d
<1>11. CASE LauncherWritesStatus(s)
  <2>1. StatusMove
    BY <1>11, <1>p, <1>g DEF LauncherWritesStatus, StatusMove, l
  <2> QED
    BY <1>11, <2>1, <1>p, <1>g, <1>n DEF LauncherWritesStatus, sent, LauncherMove, DaemonMove, l, d
<1>12. CASE BeginForeground(s)
  BY <1>12, <1>p, <1>g, <1>q DEF BeginForeground, sent, LauncherMove, DaemonMove, l, d
<1>13. CASE InstallHandlers(s)
  BY <1>13, <1>p, <1>g, <1>q DEF InstallHandlers, sent, LauncherMove, DaemonMove, l, d
<1>14. CASE DaemonCheck(s)
  <2>1. phase[d] = "check" /\ phase'[d] \in {"inherit", "gone"}
        /\ \A q \in Processes \ {d} : phase'[q] = phase[q]
    BY <1>14, <1>p, <1>g DEF DaemonCheck, d
  <2> QED
    BY <1>14, <2>1, <1>p, <1>q DEF DaemonCheck, sent, LauncherMove, DaemonMove, l, d
<1>15. CASE Inherit(s)
  BY <1>15, <1>p, <1>g, <1>q DEF Inherit, sent, LauncherMove, DaemonMove, l, d
<1>16. CASE Await(s)
  BY <1>16, <1>p, <1>g, <1>q DEF Await, sent, LauncherMove, DaemonMove, l, d
<1>17. CASE Acquire(Daemon(s), "record")
  <2>1. /\ phase[d] = "acquire" /\ OwnerMove
        /\ \/ phase'[d] = "gone"
           \/ /\ phase'[d] = "record" /\ owner' = d
              /\ owner \in Processes => ~Running(owner)
        /\ \A q \in Processes \ {d} : phase'[q] = phase[q]
    BY <1>17, <1>p, <1>g, <1>a DEF Acquire, d
  <2> QED
    BY <1>17, <2>1, <1>p, <1>n DEF Acquire, sent, LauncherMove, DaemonMove, l, d
<1>18. CASE Record(s)
  <2>1. PidMove
    BY <1>18 DEF Record, PidMove
  <2> QED
    BY <1>18, <2>1, <1>p, <1>g, <1>n DEF Record, sent, LauncherMove, DaemonMove, l, d
<1>19. CASE BeginScan(s)
  BY <1>19, <1>p, <1>g, <1>q DEF BeginScan, sent, LauncherMove, DaemonMove, l, d
<1>20. CASE EndScan(s)
  <2>1. /\ phase[d] = "scan" /\ phase'[d] \in {"sleep", "stopping"} /\ status'.proc = d
        /\ \A q \in Processes \ {d} : phase'[q] = phase[q]
    BY <1>20, <1>p, <1>g DEF EndScan, d
  <2>2. StatusMove
    BY <2>1, <1>p DEF StatusMove, l, d
  <2> QED
    BY <1>20, <2>1, <2>2, <1>p, <1>n DEF EndScan, sent, LauncherMove, DaemonMove, l, d
<1>21. CASE LeaveLoop(s)
  BY <1>21, <1>p, <1>g, <1>q DEF LeaveLoop, sent, LauncherMove, DaemonMove, l, d
<1>22. CASE WriteStopped(s)
  <2>1. /\ phase[d] = "stopping" /\ phase'[d] = "release" /\ status'.proc = d
        /\ \A q \in Processes \ {d} : phase'[q] = phase[q]
    BY <1>22, <1>p, <1>g DEF WriteStopped, d
  <2>2. StatusMove
    BY <2>1, <1>p DEF StatusMove, l, d
  <2> QED
    BY <1>22, <2>1, <2>2, <1>p, <1>n DEF WriteStopped, sent, LauncherMove, DaemonMove, l, d
<1>23. CASE DaemonRelease(s)
  <2>1. OwnerMove
    BY <1>23, <1>p, <1>r DEF DaemonRelease, d
  <2> QED
    BY <1>23, <2>1, <1>p, <1>g, <1>n DEF DaemonRelease, sent, LauncherMove, DaemonMove, l, d
<1> QED
  BY <1>1, <1>2, <1>3, <1>4, <1>5, <1>6, <1>7, <1>8, <1>9, <1>10, <1>11, <1>12, <1>13,
     <1>14, <1>15, <1>16, <1>17, <1>18, <1>19, <1>20, <1>21, <1>22, <1>23
  DEF LauncherStep, DaemonStep

LEMMA OtherParts ==
  ASSUME NEW s \in Starts, NEW v \in Starts, v # s
  PROVE  /\ Launcher(v) \in Processes \ {Launcher(s), Daemon(s)}
         /\ Daemon(v) \in Processes \ {Launcher(s), Daemon(s)}
  BY DEF Launcher, Daemon, Processes

\* Everything a step may do to a process: nothing, or end it.
LEMMA QuietMoves ==
  ASSUME NEW s \in Starts,
         \A p \in Processes : \/ phase'[p] = phase[p]
                              \/ phase'[p] = "gone" /\ phase[p] # "none"
  PROVE  LauncherMove(s) /\ DaemonMove(s)
<1>1. /\ phase'[Launcher(s)] \in {phase[Launcher(s)], "gone"}
      /\ phase[Launcher(s)] = "none" => phase'[Launcher(s)] = "none"
  BY ProcessParts
<1>2. /\ phase'[Daemon(s)] \in {phase[Daemon(s)], "gone"}
      /\ phase[Daemon(s)] = "none" => phase'[Daemon(s)] = "none"
  BY ProcessParts
<1> QED  BY <1>1, <1>2 DEF LauncherMove, DaemonMove

LEMMA NextMoves ==
  ASSUME IndInv, [Next]_vars
  PROVE  Moves
<1>t. phase \in [Processes -> Phases]
  BY DEF IndInv, TypeOK
<1>k. (UNCHANGED <<owner, pidFile, status>>) => OwnerMove /\ PidMove /\ StatusMove
  BY DEF OwnerMove, PidMove, StatusMove
<1>m. target' \in {target, None} => TargetMove
  BY DEF TargetMove
<1>1. ASSUME NEW s \in Starts,
             BeginBackground(s) \/ BeginForeground(s) \/ LauncherStep(s) \/ DaemonStep(s)
      PROVE  Moves
  <2>1. ASSUME NEW v \in Starts PROVE LauncherMove(v) /\ DaemonMove(v)
    <3>1. CASE v = s
      BY <3>1, <1>1, StartMoves
    <3>2. CASE v # s
      <4>1. phase'[Launcher(v)] = phase[Launcher(v)] /\ phase'[Daemon(v)] = phase[Daemon(v)]
        BY <3>2, <1>1, StartMoves, OtherParts
      <4> QED  BY <4>1 DEF LauncherMove, DaemonMove
    <3> QED  BY <3>1, <3>2
  <2>2. OwnerMove /\ PidMove /\ StatusMove /\ target' = target
    BY <1>1, StartMoves
  <2> QED  BY <2>1, <2>2, <1>m DEF Moves
<1>2. ASSUME NEW p \in Processes, DieAcquiring(p)  PROVE Moves
  <2>1. /\ phase[p] = "acquire" /\ phase'[p] = "gone"
        /\ \A q \in Processes \ {p} : phase'[q] = phase[q]
    BY <1>2, <1>t DEF DieAcquiring, Goto
  <2>2. owner' \in {None, Torn} /\ (owner \in Processes => ~Running(owner))
    BY <1>2, FreeLeaseHasNoHolder DEF DieAcquiring
  <2>3. OwnerMove
    BY <2>1, <2>2 DEF OwnerMove
  <2>4. PidMove /\ StatusMove /\ TargetMove
    BY <1>2, <1>m DEF DieAcquiring, PidMove, StatusMove
  <2> QED  BY <2>1, <2>3, <2>4, QuietMoves DEF Moves
<1>3. ASSUME NEW p \in Processes, Kill(p)  PROVE Moves
  <2>1. /\ phase[p] # "none" /\ phase'[p] = "gone"
        /\ \A q \in Processes \ {p} : phase'[q] = phase[q]
    BY <1>3, <1>t DEF Kill, Goto, Alive
  <2> QED  BY <1>3, <2>1, <1>k, <1>m, QuietMoves DEF Kill, files, Moves
<1>4. CASE StopCheck
  <2>1. RecordsMatch /\ target' = Subject /\ owner' = owner /\ phase' = phase
    BY <1>4 DEF StopCheck, MayStop, Verified, files
  <2>2. target' = owner /\ owner \in Processes
    BY <2>1 DEF RecordsMatch, Subject
  <2>3. TargetMove
    BY <2>1, <2>2 DEF TargetMove
  <2> QED  BY <1>4, <2>1, <2>3, <1>k, QuietMoves DEF StopCheck, files, Moves
<1>5. CASE StopSignal
  <2>1. target \in Processes
    BY <1>5 DEF StopSignal, IndInv, TypeOK
  <2>2. /\ phase'[target] = AfterSigterm(target)
        /\ \A q \in Processes \ {target} : phase'[q] = phase[q]
    BY <1>5, <1>t, <2>1 DEF StopSignal
  <2>3. \/ AfterSigterm(target) = phase[target]
        \/ AfterSigterm(target) = "gone" /\ phase[target] # "none"
    BY DEF AfterSigterm, SigtermEnds
  <2>4. \A p \in Processes : \/ phase'[p] = phase[p]
                             \/ phase'[p] = "gone" /\ phase[p] # "none"
    BY <2>2, <2>3
  <2> QED  BY <1>5, <2>4, <1>k, <1>m, QuietMoves DEF StopSignal, files, Moves
<1>6. CASE UNCHANGED vars
  BY <1>6, <1>k, <1>m, QuietMoves DEF vars, files, sent, Moves
<1> QED  BY <1>1, <1>2, <1>3, <1>4, <1>5, <1>6 DEF Next

-----------------------------------------------------------------------------
\* What holds between a launcher and its child, and of the records.

\* The child does not exist before it is spawned.
ChildFollows ==
  \A s \in Starts :
    /\ phase[Launcher(s)] \in Before => phase[Daemon(s)] = "none"
    /\ phase[Launcher(s)] \in Beside => phase[Daemon(s)] # "none"

\* A file names a process that was begun; the pid record, a daemon.
OwnerBegun   == owner \in Processes => phase[owner] # "none"
PidsOfDaemons == pidFile = None \/ \E s \in Starts : pidFile = Daemon(s)

\* The status does not name a daemon whose launcher has still to write it.
StatusFollows ==
  \A s \in Starts :
    status.proc = Daemon(s) => /\ phase[Daemon(s)] # "none"
                               /\ phase[Launcher(s)] \notin Before \cup Beside

\* While a launcher writes the records its child has the lease and waits for
\* them, or has ended: nobody holds the lease meanwhile.
WriterWaitedFor ==
  \A s \in Starts : phase[Launcher(s)] \in Writing =>
    owner = Daemon(s) /\ phase[Daemon(s)] \notin Holding

Recorded ==
  \A s \in Starts :
    /\ phase[Daemon(s)] \in Looping => pidFile = Daemon(s)
    /\ phase[Daemon(s)] = "sleep" => status.proc = Daemon(s)

Targeted ==
  target # None => /\ \E s \in Starts : target = Daemon(s)
                   /\ \/ target = owner /\ phase[target] # "none"
                      \/ phase[target] = "gone"

LaunchersDoNotScan == \A s \in Starts : phase[Launcher(s)] # "sleep"

Managed == /\ ChildFollows /\ OwnerBegun /\ PidsOfDaemons /\ LaunchersDoNotScan
           /\ StatusFollows /\ WriterWaitedFor /\ Recorded /\ Targeted

LEMMA ProcessIsEither ==
  ASSUME NEW p \in Processes
  PROVE  \E s \in Starts : p = Launcher(s) \/ p = Daemon(s)
  BY DEF Processes, Launcher, Daemon

LEMMA NamesDiffer ==
  /\ \A s, v \in Starts : Launcher(s) # Daemon(v)
  /\ \A s, v \in Starts : Daemon(s) = Daemon(v) => s = v
  BY DEF Launcher, Daemon

LEMMA Begun ==
  ASSUME Moves, NEW p \in Processes, phase[p] # "none"
  PROVE  phase'[p] # "none"
<1>1. PICK s \in Starts : p = Launcher(s) \/ p = Daemon(s)
  BY ProcessIsEither
<1>2. LauncherMove(s) /\ DaemonMove(s)
  BY DEF Moves
<1>3. CASE p = Launcher(s)
  BY <1>2, <1>3 DEF LauncherMove
<1>4. CASE p = Daemon(s)
  BY <1>2, <1>4 DEF DaemonMove
<1> QED  BY <1>1, <1>3, <1>4

LEMMA GoneDaemonsStay ==
  ASSUME Moves, ChildFollows, NEW s \in Starts, phase[Daemon(s)] = "gone"
  PROVE  phase'[Daemon(s)] = "gone"
<1>1. DaemonMove(s)
  BY DEF Moves
<1>2. phase[Launcher(s)] # "spawn"
  BY DEF ChildFollows, Before
<1> QED  BY <1>1, <1>2 DEF DaemonMove

LEMMA ChildFollowsStep ==
  ASSUME Moves, ChildFollows
  PROVE  ChildFollows'
<1> SUFFICES ASSUME NEW s \in Starts
             PROVE  /\ phase'[Launcher(s)] \in Before => phase'[Daemon(s)] = "none"
                    /\ phase'[Launcher(s)] \in Beside => phase'[Daemon(s)] # "none"
  BY DEF ChildFollows
<1>1. LauncherMove(s) /\ DaemonMove(s)
  BY DEF Moves
<1>2. /\ phase[Launcher(s)] \in Before => phase[Daemon(s)] = "none"
      /\ phase[Launcher(s)] \in Beside => phase[Daemon(s)] # "none"
  BY DEF ChildFollows
<1>3. phase[Daemon(s)] # "none" => phase'[Daemon(s)] # "none"
  BY <1>1 DEF DaemonMove
<1>4. ASSUME phase'[Launcher(s)] \in Before PROVE phase'[Daemon(s)] = "none"
  <2>1. phase[Launcher(s)] # "spawn" \/ phase'[Launcher(s)] # "inspect"
    BY <1>4 DEF Before
  <2>2. phase'[Launcher(s)] # "none"
    BY <1>4 DEF Before
  <2>3. phase[Daemon(s)] = "none"
    BY <1>1, <1>2, <1>4 DEF LauncherMove, Before
  <2> QED  BY <1>1, <2>1, <2>2, <2>3 DEF DaemonMove
<1>5. ASSUME phase'[Launcher(s)] \in Beside PROVE phase'[Daemon(s)] # "none"
  BY <1>1, <1>2, <1>3, <1>5 DEF LauncherMove, Beside
<1> QED  BY <1>4, <1>5

LEMMA OwnerBegunStep ==
  ASSUME Moves, ChildFollows, OwnerBegun
  PROVE  OwnerBegun'
<1> SUFFICES ASSUME owner' \in Processes PROVE phase'[owner'] # "none"
  BY DEF OwnerBegun
<1>1. OwnerMove
  BY DEF Moves
<1>2. CASE owner' = owner
  BY <1>2, Begun DEF OwnerBegun
<1>3. ASSUME NEW s \in Starts, phase[Launcher(s)] = "replace", owner' = Daemon(s)
      PROVE  phase'[owner'] # "none"
  <2>1. phase[Daemon(s)] # "none"
    BY <1>3 DEF ChildFollows, Beside
  <2> QED  BY <1>3, <2>1, Begun, ProcessParts
<1> QED  BY <1>1, <1>2, <1>3, FilesAreNotProcesses DEF OwnerMove

LEMMA PidsOfDaemonsStep ==
  ASSUME Moves, PidsOfDaemons
  PROVE  PidsOfDaemons'
  BY DEF Moves, PidMove, PidsOfDaemons

LEMMA LaunchersDoNotScanStep ==
  ASSUME Moves, LaunchersDoNotScan
  PROVE  LaunchersDoNotScan'
  BY DEF Moves, LauncherMove, LaunchersDoNotScan

LEMMA StatusFollowsStep ==
  ASSUME IndInv, Moves, ChildFollows, StatusFollows, WriterWaitedFor
  PROVE  StatusFollows'
<1> SUFFICES ASSUME NEW s \in Starts, status'.proc = Daemon(s)
             PROVE  /\ phase'[Daemon(s)] # "none"
                    /\ phase'[Launcher(s)] \notin Before \cup Beside
  BY DEF StatusFollows
<1>p. Launcher(s) \in Processes /\ Daemon(s) \in Processes /\ Launcher(s) # Daemon(s)
  BY ProcessParts
<1>m. LauncherMove(s) /\ StatusMove
  BY DEF Moves
<1>1. CASE status' = status
  <2>1. phase[Daemon(s)] # "none" /\ phase[Launcher(s)] \notin Before \cup Beside
    BY <1>1 DEF StatusFollows
  <2>2. phase'[Launcher(s)] \notin Before \cup Beside
    BY <1>m, <2>1 DEF LauncherMove, Before, Beside
  <2> QED  BY <1>p, <2>1, <2>2, Begun
<1>2. CASE phase[Launcher(s)] = "writeStatus" /\ phase'[Launcher(s)] = "gone"
  <2>1. phase[Daemon(s)] # "none"
    BY <1>2 DEF ChildFollows, Beside
  <2> QED  BY <1>2, <1>p, <2>1, Begun DEF Before, Beside
<1>3. CASE /\ phase[Daemon(s)] \in {"scan", "stopping"}
           /\ phase'[Launcher(s)] = phase[Launcher(s)]
  <2>1. phase[Daemon(s)] \in Holding /\ phase[Daemon(s)] # "none"
    BY <1>3 DEF Holding, Looping
  <2>2. owner = Daemon(s)
    BY <1>p, <2>1 DEF IndInv, HoldersOwn
  <2>3. phase[Launcher(s)] \notin Holding
    BY <1>p, <2>2 DEF IndInv, HoldersOwn
  <2>4. phase[Launcher(s)] \notin Before /\ phase[Launcher(s)] \notin Writing
    BY <2>1 DEF ChildFollows, WriterWaitedFor
  <2>5. phase[Launcher(s)] \notin Before \cup Beside
    BY <2>3, <2>4 DEF Beside, Writing, Holding
  <2> QED  BY <1>3, <1>p, <2>1, <2>5, Begun
<1> QED  BY <1>m, <1>1, <1>2, <1>3, NamesDiffer DEF StatusMove

LEMMA WriterWaitedForStep ==
  ASSUME IndInv, Moves, ChildFollows, StatusFollows, WriterWaitedFor
  PROVE  WriterWaitedFor'
<1> SUFFICES ASSUME NEW s \in Starts, phase'[Launcher(s)] \in Writing
             PROVE  owner' = Daemon(s) /\ phase'[Daemon(s)] \notin Holding
  BY DEF WriterWaitedFor
<1> DEFINE l == Launcher(s)  d == Daemon(s)
<1>p. l \in Processes /\ d \in Processes /\ l # d /\ Token(d) = s
  BY ProcessParts
<1>m. LauncherMove(s) /\ DaemonMove(s) /\ OwnerMove
  BY DEF Moves
<1>1. \/ phase[l] \in Writing
      \/ phase[l] = "replace" /\ phase'[l] = "writePid" /\ owner' = d
  BY <1>m DEF LauncherMove, Writing
<1>2. phase[l] \in Beside /\ Alive(l) /\ phase[l] # "spawn"
  BY <1>1 DEF Writing, Beside, Alive
<1>3. Running(d) /\ Running(l)
  BY <1>p, <1>2 DEF ChildFollows, Running, Alive
<1>4. owner \in {l, d} /\ phase[d] \notin Holding /\ ~HandedOver(d)
  <2>1. status.proc # d
    BY <1>2 DEF StatusFollows
  <2>2. CASE phase[l] \in Writing
    BY <2>1, <2>2 DEF WriterWaitedFor, HandedOver
  <2>3. CASE phase[l] = "replace"
    <3>1. owner = l
      BY <2>3, <1>p DEF IndInv, HoldersOwn, Holding
    <3> QED  BY <1>p, <2>1, <3>1 DEF IndInv, HoldersOwn, HandedOver
  <2> QED  BY <1>1, <2>2, <2>3
<1>5. Running(owner) /\ owner \in Processes
  BY <1>3, <1>4, <1>p
<1>6. phase'[d] \notin Holding
  <2>1. \/ phase'[d] \in {phase[d], "gone", "new", "check", "inherit", "await", "acquire"}
        \/ phase[d] \in Holding
    BY <1>m, <1>4, <1>5 DEF DaemonMove, Holding, Looping
  <2> QED  BY <2>1, <1>4 DEF Holding, Looping
<1>7. owner' = d
  <2>1. CASE phase[l] \in Writing
    <3>1. owner = d
      BY <2>1 DEF WriterWaitedFor
    <3>2. phase[d] # "release" /\ \A v \in Starts : Launcher(v) # d
      BY <1>4, NamesDiffer DEF Holding
    <3> QED  BY <1>m, <1>5, <3>1, <3>2 DEF OwnerMove
  <2> QED  BY <1>1, <2>1
<1> QED  BY <1>6, <1>7

LEMMA RecordedStep ==
  ASSUME IndInv, Moves, WriterWaitedFor, Recorded
  PROVE  Recorded'
<1> SUFFICES ASSUME NEW s \in Starts
             PROVE  /\ phase'[Daemon(s)] \in Looping => pidFile' = Daemon(s)
                    /\ phase'[Daemon(s)] = "sleep" => status'.proc = Daemon(s)
  BY DEF Recorded
<1> DEFINE d == Daemon(s)
<1>m. DaemonMove(s) /\ PidMove /\ StatusMove
  BY DEF Moves
\* Nobody else writes while d is in its loop.
<1>1. ASSUME phase[d] \in Looping, NEW v \in Starts
      PROVE  /\ phase[Launcher(v)] \notin Writing
             /\ phase[Daemon(v)] \in Holding => v = s
  <2>1. owner = d /\ phase[d] \in Holding
    BY <1>1, ProcessParts DEF IndInv, HoldersOwn, Holding
  <2>2. phase[Daemon(v)] \in Holding => v = s
    BY <2>1, ProcessParts, NamesDiffer DEF IndInv, HoldersOwn
  <2>3. phase[Launcher(v)] \notin Writing
    BY <2>1, NamesDiffer DEF WriterWaitedFor
  <2> QED  BY <2>2, <2>3
<1>2. ASSUME phase'[d] \in Looping PROVE pidFile' = d
  <2>1. CASE phase[d] \in Looping
    <3>1. pidFile = d /\ phase[d] # "record"
      BY <2>1 DEF Recorded, Looping
    <3>2. \A v \in Starts : /\ phase[Launcher(v)] # "writePid"
                            /\ phase[Daemon(v)] = "record" => v = s
      BY <2>1, <1>1 DEF Writing, Holding
    <3> QED  BY <1>m, <3>1, <3>2 DEF PidMove
  <2>2. CASE phase[d] \notin Looping
    BY <1>m, <1>2, <2>2 DEF DaemonMove, Looping
  <2> QED  BY <2>1, <2>2
<1>3. ASSUME phase'[d] = "sleep" PROVE status'.proc = d
  <2>1. CASE phase[d] = "sleep"
    <3>1. status.proc = d
      BY <2>1 DEF Recorded
    <3>2. \A v \in Starts : /\ phase[Launcher(v)] # "writeStatus"
                            /\ phase[Daemon(v)] \in {"scan", "stopping"} => v = s
      BY <2>1, <1>1 DEF Writing, Holding, Looping
    <3> QED  BY <1>m, <2>1, <3>1, <3>2 DEF StatusMove
  <2>2. CASE phase[d] # "sleep"
    BY <1>m, <1>3, <2>2 DEF DaemonMove
  <2> QED  BY <2>1, <2>2
<1> QED  BY <1>2, <1>3

LEMMA TargetedStep ==
  ASSUME IndInv, Moves, ChildFollows, OwnerBegun, PidsOfDaemons, Targeted
  PROVE  Targeted'
<1> SUFFICES ASSUME target' # None
             PROVE  /\ \E s \in Starts : target' = Daemon(s)
                    /\ \/ target' = owner' /\ phase'[target'] # "none"
                       \/ phase'[target'] = "gone"
  BY DEF Targeted
<1>m. OwnerMove /\ TargetMove
  BY DEF Moves
<1>1. CASE target' = target
  <2>1. PICK s \in Starts : target = Daemon(s)
    BY <1>1 DEF Targeted
  <2>p. target \in Processes
    BY <2>1, ProcessParts
  <2>2. CASE phase[target] = "gone"
    BY <1>1, <2>1, <2>2, GoneDaemonsStay
  <2>3. CASE target = owner /\ phase[target] # "none"
    <3>1. phase'[target] # "none"
      BY <2>p, <2>3, Begun
    <3>2. CASE ~Running(owner)
      <4>1. phase[target] = "gone"
        BY <2>3, <3>2 DEF Running, Alive
      <4> QED  BY <1>1, <2>1, <4>1, GoneDaemonsStay
    <3>3. \A v \in Starts : owner # Launcher(v)
      BY <2>1, <2>3, NamesDiffer
    <3> QED  BY <1>1, <1>m, <2>1, <2>p, <2>3, <3>1, <3>2, <3>3 DEF OwnerMove
  <2> QED  BY <1>1, <2>2, <2>3 DEF Targeted
<1>2. CASE target' \in Processes /\ RecordsMatch /\ target' = owner /\ owner' = owner
  <2>1. phase'[owner] # "none"
    BY <1>2, Begun DEF OwnerBegun
  <2>2. \E s \in Starts : owner = Daemon(s)
    BY <1>2, FilesAreNotProcesses DEF RecordsMatch, PidsOfDaemons
  <2> QED  BY <1>2, <2>1, <2>2
<1> QED  BY <1>m, <1>1, <1>2 DEF TargetMove

LEMMA InitIsManaged == Init => Managed
<1> SUFFICES ASSUME Init PROVE Managed
  OBVIOUS
<1>1. \A s \in Starts : phase[Launcher(s)] = "none" /\ phase[Daemon(s)] = "none"
  BY ProcessParts DEF Init
<1>2. \A s \in Starts : status.proc # Daemon(s)
  BY ProcessParts, FilesAreNotProcesses DEF Init, NoStatus
<1> QED
  BY <1>1, <1>2, FilesAreNotProcesses
  DEF Init, Managed, ChildFollows, OwnerBegun, PidsOfDaemons, LaunchersDoNotScan,
      StatusFollows, WriterWaitedFor, Recorded, Targeted, Before, Beside, Writing, Looping

LEMMA ManagedStep == IndInv /\ Managed /\ [Next]_vars => Managed'
  BY NextMoves, ChildFollowsStep, OwnerBegunStep, PidsOfDaemonsStep,
     LaunchersDoNotScanStep, StatusFollowsStep,
     WriterWaitedForStep, RecordedStep, TargetedStep DEF Managed

LEMMA AlwaysManaged == Spec => []Managed
  BY InitIsManaged, ManagedStep, LeaseInvariant, PTL DEF Spec

\* All three files name a daemon that has scanned, until it leaves its loop.
THEOREM ScannersAreManageable == Spec => []ScannerIsManageable
<1>1. IndInv /\ Managed => ScannerIsManageable
  <2> SUFFICES ASSUME IndInv, Managed, NEW p \in Processes, phase[p] = "sleep"
               PROVE  RecordsMatch /\ owner = p
    BY DEF ScannerIsManageable
  <2>1. owner = p
    BY DEF IndInv, HoldersOwn, Holding, Looping
  <2>2. PICK s \in Starts : p = Launcher(s) \/ p = Daemon(s)
    BY ProcessIsEither
  <2>3. p # Launcher(s)
    BY DEF Managed, LaunchersDoNotScan
  <2>4. pidFile = p /\ status.proc = p
    BY <2>2, <2>3 DEF Managed, Recorded, Looping
  <2> QED  BY <2>1, <2>4 DEF RecordsMatch
<1> QED  BY <1>1, AlwaysManaged, LeaseInvariant, PTL

\* A stop command signals the lease holder or nobody.
THEOREM StopsReachTheHolder == Spec => []StopTargetsHolder
<1>1. Managed => StopTargetsHolder
  BY DEF Managed, Targeted, StopTargetsHolder, Alive
<1> QED  BY <1>1, AlwaysManaged, PTL

-----------------------------------------------------------------------------
\* What a start sees of a process that has ended and whose pid is nobody's.
LEMMA DeadIsSeenDead ==
  ASSUME NEW f, NEW s \in Starts, NEW o \in Seen(f), f # Daemon(s),
         f \in Processes => Token(f) \notin Reuse,
         \A p \in Processes \ {Daemon(s)} : ~Alive(p)
  PROVE  o.runs = FALSE
<1>1. CASE f \notin Processes
  BY <1>1 DEF Seen, NoSight
<1>2. CASE f \in Processes
  <2>1. PICK v \in Starts : f = Launcher(v) \/ f = Daemon(v)
    BY <1>2, ProcessIsEither
  <2>2. Token(f) = v /\ ~Alive(Launcher(v)) /\ ~Alive(f)
    BY <1>2, <2>1, ProcessParts, NamesDiffer
  <2>3. ~Running(f)
    BY <2>2 DEF Running
  <2>4. o \in [runs : {FALSE}, id : {"unknown"}]
    BY <1>2, <2>3 DEF Seen, Sightings
  <2> QED  BY <2>4
<1> QED  BY <1>1, <1>2

LEMMA LoneStartStep ==
  ASSUME IndInv, Next, NEW s \in Starts,
         Subject \in Processes => Token(Subject) \notin Reuse \cup Opaque,
         kills' = kills, \A p \in Processes \ {Daemon(s)} : ~Alive(p),
         phase[Daemon(s)] \in {"check", "acquire"}, phase'[Daemon(s)] = "gone"
  PROVE  owner \in {Torn, Daemon(s)}
<1> DEFINE d == Daemon(s)
<1>p. d \in Processes /\ Token(d) = s
  BY ProcessParts
<1>t. phase \in [Processes -> Phases] /\ kills \in Nat
  BY KillsAreNatural DEF IndInv, TypeOK
\* Nobody else is there to take the step.
<1>l. \A v \in Starts : phase[Launcher(v)] \in {"none", "gone"}
  BY ProcessParts, NamesDiffer DEF Alive
<1>o. \A v \in Starts \ {s} : phase[Daemon(v)] \in {"none", "gone"}
  BY ProcessParts, NamesDiffer DEF Alive
<1>1. ASSUME NEW v \in Starts, LauncherStep(v) PROVE FALSE
  BY <1>1, <1>l DEF LauncherStep, LauncherCheck, Acquire, Spawn, SpawnFails, Inspect,
     InspectFails, LauncherRelease, HandOver, LauncherWritesPid, LauncherWritesStatus
<1>2. ASSUME NEW v \in Starts, DaemonStep(v), v # s PROVE FALSE
  BY <1>2, <1>o DEF DaemonStep, InstallHandlers, DaemonCheck, Inherit, Await, Acquire,
     Record, BeginScan, EndScan, LeaveLoop, WriteStopped, DaemonRelease
<1>3. ASSUME NEW v \in Starts, BeginBackground(v) \/ BeginForeground(v) PROVE FALSE
  <2>1. phase[Daemon(v)] = "none"
    BY <1>3 DEF BeginBackground, BeginForeground
  <2>2. v # s
    BY <2>1
  <2>3. Daemon(s) # Daemon(v) /\ Daemon(s) # Launcher(v)
    BY <2>2, NamesDiffer
  <2>4. phase'[d] = phase[d]
    BY <1>3, <1>p, <1>t, <2>3 DEF BeginBackground, BeginForeground, Goto
  <2> QED  BY <2>4
<1>4. ASSUME NEW p \in Processes, DieAcquiring(p) \/ Kill(p) PROVE FALSE
  BY <1>4, <1>t DEF DieAcquiring, Kill
<1>5. StopCheck => FALSE
  BY DEF StopCheck
<1>6. StopSignal => FALSE
  <2> SUFFICES ASSUME StopSignal PROVE FALSE
    OBVIOUS
  <2>1. target \in Processes
    BY DEF StopSignal, IndInv, TypeOK
  <2>2. target = d /\ AfterSigterm(d) = "gone"
    BY <1>p, <1>t, <2>1 DEF StopSignal
  <2> QED  BY <2>2 DEF AfterSigterm, SigtermEnds
<1>7. DaemonStep(s)
  BY <1>1, <1>2, <1>3, <1>4, <1>5, <1>6 DEF Next
\* A dead subject turns nobody away ...
<1>8. ASSUME DaemonCheck(s) PROVE FALSE
  <2>1. PICK o \in Seen(Subject) :
          Goto(d, IF Subject # d /\ (ReportsRunning(o) \/ (o.runs /\ ~Verified(o)))
                  THEN "gone" ELSE "inherit")
    BY <1>8 DEF DaemonCheck
  <2>2. Subject # d /\ o.runs
    BY <1>p, <1>t, <2>1 DEF Goto, ReportsRunning
  <2> QED  BY <2>2, DeadIsSeenDead
\* ... and a dead owner's lease is free.
<1>9. ASSUME Acquire(Daemon(s), "record"), owner # Torn, owner # d PROVE FALSE
  <2>1. PICK o \in Seen(owner) : ~Free(o)
    BY <1>9, <1>p, <1>t DEF Acquire, Goto
  <2>2. owner \in Processes
    BY <1>9, <2>1 DEF Free, IndInv, TypeOK
  <2>3. o.runs = FALSE
    BY <1>9, <2>2, DeadIsSeenDead DEF Subject
  <2> QED  BY <2>1, <2>2, <2>3 DEF Free, Stale
<1>10. ~InstallHandlers(s) /\ ~Inherit(s) /\ ~Await(s) /\ ~Record(s) /\ ~BeginScan(s)
       /\ ~EndScan(s) /\ ~LeaveLoop(s) /\ ~WriteStopped(s) /\ ~DaemonRelease(s)
  BY DEF InstallHandlers, Inherit, Await, Record, BeginScan, EndScan, LeaveLoop,
     WriteStopped, DaemonRelease
<1> QED  BY <1>7, <1>8, <1>9, <1>10 DEF DaemonStep

\* What a dead owner left behind never turns a lone start away.
THEOREM LoneStartsAreAdmitted == Spec => LoneStartAdmitted
<1>1. IndInv /\ [Next]_vars =>
        [\A s \in Starts :
           LET d == Daemon(s) IN
           (/\ Subject \in Processes => Token(Subject) \notin Reuse \cup Opaque
            /\ kills' = kills
            /\ \A p \in Processes \ {d} : ~Alive(p)
            /\ phase[d] \in {"check", "acquire"} /\ phase'[d] = "gone")
             => owner \in {Torn, d}]_vars
  BY LoneStartStep
<1> QED  BY <1>1, LeaseInvariant, PTL DEF Spec, LoneStartAdmitted
=============================================================================
