------------------------------ MODULE Updater ------------------------------
(***************************************************************************)
(* One-click update: the host daemon hikrad-updaterd, the hikrad update    *)
(* child it spawns (or an operator runs by hand), and the relay in         *)
(* hikrad-api that feeds the panel's progress stream.                      *)
(*                                                                         *)
(* A run's output passes through three buffers: the child's pipe, the      *)
(* daemon's event list (tailed into the socket) and the relay's event list *)
(* (tailed into the browser's stream), each with its own end marker. The   *)
(* record state.json is what is left when the daemon dies.                 *)
(***************************************************************************)
EXTENDS Naturals, Sequences, FiniteSets, SequencesExt

CONSTANTS Runs,      \* updates the panel may ask for
          Clis,      \* updates an operator may run in a shell
          Askers,    \* status requests at the daemon
          NoRun,     \* no run
          MaxCrash   \* bound: restarts of the daemon and of hikrad-api

ASSUME UpdaterAssumption == /\ NoRun \notin Runs \union Clis \union Askers
                            /\ Runs \intersect Clis = {}
                            /\ MaxCrash \in Nat

Children == Runs \union Clis
NoText == ""   \* the Go zero value: no stage, no result, no version

VARIABLES vfile, bins, checked, \* VERSION, the installed binaries, did they pass the health check
          lock,         \* who holds update.lock
          child, pipe,  \* the processes and the output the daemon has not read
          disk,         \* state.json
          current, run, \* the daemon: s.current and the updateRuns
          conn,         \* the daemon's end of an update connection
          asker,        \* handleStatus, step by step
          relay, viewer,\* hikrad-api: the relayRuns and one browser stream
          crashes

updVars == <<vfile, bins, checked, lock, child, pipe, disk, current, run, conn, asker, relay, viewer, crashes>>
host    == <<vfile, bins, checked, lock>>
api     == <<relay, viewer>>

NewRun  == [events |-> <<>>, done |-> FALSE, conflict |-> FALSE, resolved |-> FALSE,
            success |-> FALSE, prev |-> NoText, target |-> NoText, cut |-> FALSE]
NoConn  == [at |-> "none", sent |-> 0]
NoRelay == [at |-> "none", events |-> <<>>]
NoAsk   == [at |-> "idle", st |-> [stage |-> "idle"], then |-> "none"]
NoView  == [at |-> "idle", of |-> NoRun, seen |-> <<>>]
IdleState == [stage |-> "idle", result |-> NoText, prev |-> NoText, target |-> NoText]

UpdInit ==
    /\ vfile = "old" /\ bins = "old" /\ checked = TRUE /\ lock = "free"
    /\ child = [c \in Children |-> "none"] /\ pipe = [r \in Runs |-> <<>>]
    /\ disk = IdleState /\ current = NoRun
    /\ run = [r \in Runs |-> NewRun] /\ conn = [r \in Runs |-> NoConn]
    /\ asker = [p \in Askers |-> NoAsk]
    /\ relay = [r \in Runs |-> NoRelay] /\ viewer = NoView
    /\ crashes = 0

----------------------------------------------------------------------------
\* The child: scripts/hikrad update, which holds the lock for its lifetime.

Emit(c, lines) == pipe' = IF c \in Runs THEN [pipe EXCEPT ![c] = @ \o lines] ELSE pipe
Exit(c, how)  == child' = [child EXCEPT ![c] = how] /\ lock' = IF lock = c THEN "free" ELSE lock
GoTo(c, pc)   == child' = [child EXCEPT ![c] = pc] /\ UNCHANGED lock

CmdUpdate(c) ==
    /\ child[c] = "start"
    /\ IF lock = "free"
       THEN /\ lock' = c /\ child' = [child EXCEPT ![c] = "backup"] /\ Emit(c, <<"backup">>)
       ELSE Exit(c, "refused") /\ Emit(c, <<"locked">>)
    /\ UNCHANGED <<vfile, bins, checked, disk, current, run, conn, asker, api, crashes>>

\* The backup is made, or die; "Verifying release bundle", "Applying update".
BackupNow(c) ==
    /\ child[c] = "backup"
    /\ \/ GoTo(c, "apply") /\ Emit(c, IF c \in Runs /\ run[c].target # NoText
                                     THEN <<"apply", "health_check">> ELSE <<"health_check">>)
       \/ Exit(c, "failed") /\ Emit(c, <<"error">>)
    /\ UNCHANGED <<vfile, bins, checked, disk, current, run, conn, asker, api, crashes>>

\* install.sh: binaries and VERSION, then the restart of the units. When it
\* fails, rollback_release restores the binaries, not VERSION.
InstallRelease(c) ==
    /\ child[c] = "apply"
    /\ \/ /\ bins' = "new" /\ vfile' = "new" /\ checked' = FALSE
          /\ GoTo(c, "restart") /\ UNCHANGED pipe
       \/ /\ Exit(c, "failed") /\ Emit(c, <<"rolling_back">>)
          /\ vfile' \in {vfile, "new"} /\ UNCHANGED <<bins, checked>>
    /\ UNCHANGED <<disk, current, run, conn, asker, api, crashes>>

\* wait_for_api_health after the restart, or the binaries are rolled back.
WaitForHealth(c) ==
    /\ child[c] = "health"
    /\ \/ /\ checked' = TRUE /\ Exit(c, "ok") /\ Emit(c, <<"complete">>) /\ UNCHANGED bins
       \/ /\ checked' = TRUE /\ bins' = "old" /\ Exit(c, "failed") /\ Emit(c, <<"unhealthy">>)
    /\ UNCHANGED <<vfile, disk, current, run, conn, asker, api, crashes>>

\* An operator runs it in a shell.
CliUpdate(c) ==
    /\ child[c] = "none" /\ child' = [child EXCEPT ![c] = "start"]
    /\ UNCHANGED <<host, pipe, disk, current, run, conn, asker, api, crashes>>

----------------------------------------------------------------------------
\* The daemon: one update.

\* handleUpdate, startUpdate: refused while this process has a run.
StartUpdate(r) ==
    \E bundle \in {NoText, "new"} :
      /\ run[r] = NewRun /\ child[r] = "none" /\ current = NoRun
      /\ current' = r
      /\ run' = [run EXCEPT ![r].prev = vfile, ![r].target = bundle]
      /\ conn' = [conn EXCEPT ![r].at = "resolve"]
      /\ child' = [child EXCEPT ![r] = "spawn"]
      /\ UNCHANGED <<host, pipe, disk, asker, api, crashes>>

InProgress(r, stage) == [stage |-> stage, result |-> NoText, prev |-> run[r].prev, target |-> run[r].target]

\* The record is written outside the mutex; then the child is started, or fails to.
SpawnChild(r) ==
    /\ child[r] = "spawn" /\ current = r
    /\ disk' = InProgress(r, "backup")
    /\ \/ child' = [child EXCEPT ![r] = "start"] /\ UNCHANGED run
       \/ child' = [child EXCEPT ![r] = "failed"] /\ run' = [run EXCEPT ![r].resolved = TRUE]
    /\ UNCHANGED <<host, pipe, current, conn, asker, api, crashes>>

Classify(line) == CASE line = "unhealthy" -> "health_check"  \* the first pattern that matches
                    [] line \in {"backup", "apply", "health_check", "rolling_back"} -> line
                    [] OTHER -> NoText

LastStage(r) == IF run[r].events = <<>> THEN NoText ELSE Last(run[r].events)

\* runUpdate's scanner takes the next line of the child.
ScanLine(r) ==
    LET line == Head(pipe[r])
        stage == Classify(line)
        moves == stage # NoText /\ stage # LastStage(r)
    IN  /\ pipe[r] # <<>> /\ current = r /\ ~run[r].cut
        /\ pipe' = [pipe EXCEPT ![r] = Tail(@)]
        /\ run' = [run EXCEPT ![r].resolved = TRUE, ![r].conflict = @ \/ line = "locked",
                              ![r].success = @ \/ line = "complete",
                              ![r].events = IF moves THEN Append(@, stage) ELSE @]
        /\ disk' = IF moves THEN InProgress(r, stage) ELSE disk
        /\ UNCHANGED <<host, child, current, conn, asker, api, crashes>>

Ended(r) == child[r] \in {"ok", "failed", "refused", "killed"} /\ pipe[r] = <<>>

\* The verdict: exit code and the last words of the child.
RunVerdict(r) == CASE child[r] = "ok" /\ run[r].success -> "success"
                   [] LastStage(r) = "rolling_back" -> "rolled_back"
                   [] OTHER -> "failed"

FinishRun(r) ==
    /\ Ended(r) /\ current = r /\ ~run[r].done /\ ~run[r].cut
    /\ run' = [run EXCEPT ![r].done = TRUE, ![r].resolved = TRUE,
                          ![r].events = IF run[r].conflict THEN @ ELSE Append(@, RunVerdict(r))]
    /\ disk' = IF run[r].conflict THEN disk
               ELSE [InProgress(r, IF RunVerdict(r) = "success" THEN "done" ELSE "rolled_back")
                        EXCEPT !.result = RunVerdict(r)]
    /\ UNCHANGED <<host, child, pipe, current, conn, asker, api, crashes>>

\* doneCh is closed by the time s.current is cleared.
ReleaseRun(r) ==
    /\ current = r /\ run[r].done /\ current' = NoRun
    /\ UNCHANGED <<host, child, pipe, disk, run, conn, asker, api, crashes>>

\* handleUpdate waits for the first line (or 30 s) before it answers.
ResolveConn(r) ==
    /\ conn[r].at = "resolve"
    /\ conn' = [conn EXCEPT ![r].at = IF run[r].conflict THEN "locked" ELSE "tail"]
    /\ UNCHANGED <<host, child, pipe, disk, current, run, asker, api, crashes>>

\* tail: write what is there; once doneCh is closed, write the rest and end.
TailMore(r) ==
    /\ conn[r].at = "tail" /\ conn[r].sent < Len(run[r].events)
    /\ conn' = [conn EXCEPT ![r].sent = Len(run[r].events)]
    /\ UNCHANGED <<host, child, pipe, disk, current, run, asker, api, crashes>>

TailStops(r) ==
    /\ conn[r].at = "tail" /\ run[r].done
    /\ conn' = [conn EXCEPT ![r].at = "ended"]
    /\ UNCHANGED <<host, child, pipe, disk, current, run, asker, api, crashes>>

TailEnds(r) ==
    /\ conn[r].at = "tail" /\ run[r].done
    /\ conn' = [conn EXCEPT ![r].sent = Len(run[r].events), ![r].at = "ended"]
    /\ UNCHANGED <<host, child, pipe, disk, current, run, asker, api, crashes>>

----------------------------------------------------------------------------
\* The daemon: status, rollback-status and the reconciliation they start with.

AskTo(p, pc, then) == asker' = [asker EXCEPT ![p].at = pc, ![p].then = then]
Terminal(stage) == stage \in {"idle", "done", "rolled_back"}

HandleStatus(p) ==
    /\ asker[p].at = "idle" /\ AskTo(p, IF current # NoRun THEN "answer" ELSE "load", "none")
    /\ UNCHANGED <<host, child, pipe, disk, current, run, conn, api, crashes>>

LoadState(p) ==
    /\ asker[p].at = "load"
    /\ asker' = [asker EXCEPT ![p] = [at |-> IF Terminal(disk.stage) THEN "answer" ELSE "probe",
                                      st |-> disk, then |-> "resolve"]]
    /\ UNCHANGED <<host, child, pipe, disk, current, run, conn, api, crashes>>

\* probeLock takes the lock itself to learn that it was free.
ProbeLock(p) ==
    /\ asker[p].at = "probe"
    /\ IF lock = "free" THEN lock' = p /\ AskTo(p, "unlock", asker[p].then)
       ELSE UNCHANGED lock /\ AskTo(p, IF asker[p].then = "resolve" THEN "answer" ELSE "idle", "none")
    /\ UNCHANGED <<vfile, bins, checked, child, pipe, disk, current, run, conn, api, crashes>>

ReleaseProbe(p) ==
    /\ asker[p].at = "unlock" /\ lock' = "free" /\ AskTo(p, asker[p].then, "none")
    /\ UNCHANGED <<vfile, bins, checked, child, pipe, disk, current, run, conn, api, crashes>>

\* reconcileIfStale decides by the VERSION file alone.
Reconciled(st) ==
    LET how == CASE st.target # NoText /\ vfile = st.target -> "success"
                 [] ~(st.target # NoText /\ vfile = st.target) /\ vfile = st.prev -> "rolled_back"
                 [] OTHER -> "failed"
    IN  [stage |-> IF how = "success" THEN "done" ELSE "rolled_back", result |-> how,
         prev |-> NoText, target |-> NoText]

ReconcileIfStale(p) ==
    /\ asker[p].at = "resolve" /\ disk' = Reconciled(asker[p].st) /\ AskTo(p, "answer", "none")
    /\ UNCHANGED <<host, child, pipe, current, run, conn, api, crashes>>

AnswerStatus(p) ==
    /\ asker[p].at = "answer" /\ AskTo(p, IF current # NoRun THEN "idle" ELSE "probe", "idle")
    /\ UNCHANGED <<host, child, pipe, disk, current, run, conn, api, crashes>>

----------------------------------------------------------------------------
\* A restart of the daemon: every run, connection and request of it is gone. It
\* is a systemd unit, so that its children, processes of its control group, go
\* with it; the fresh process reconciles before it serves.

Alive(c) == child[c] \in {"spawn", "start", "backup", "apply", "restart", "health"}

DaemonRestarts ==
    LET gone == {r \in Runs : Alive(r)} IN
    /\ current' = NoRun /\ pipe' = [r \in Runs |-> <<>>]
    /\ run' = [r \in Runs |-> IF run[r] = NewRun THEN NewRun ELSE [run[r] EXCEPT !.cut = TRUE]]
    /\ conn' = [r \in Runs |-> IF conn[r].at = "none" THEN NoConn ELSE [conn[r] EXCEPT !.at = "ended"]]
    /\ asker' = [p \in Askers |-> NoAsk]
    /\ lock' = IF lock \in gone \union Askers THEN "free" ELSE lock
    /\ disk' = IF ~Terminal(disk.stage) /\ lock' = "free" THEN Reconciled(disk) ELSE disk
    /\ UNCHANGED <<vfile, bins, checked>>

Killed(c) == IF c \in Runs /\ Alive(c) THEN "killed" ELSE child[c]

DaemonDies ==
    /\ crashes < MaxCrash /\ crashes' = crashes + 1
    /\ DaemonRestarts /\ child' = [c \in Children |-> Killed(c)]
    /\ UNCHANGED api

\* install.sh restarts the units, hikrad-api and the daemon among them: only an
\* update from a shell lives to check the health of what it installed.
RestartUnits(c) ==
    /\ child[c] = "restart" /\ DaemonRestarts
    /\ child' = [k \in Children |-> IF k = c /\ c \in Clis THEN "health" ELSE Killed(k)]
    /\ relay' = [r \in Runs |-> IF relay[r].at = "none" THEN NoRelay ELSE [NoRelay EXCEPT !.at = "lost"]]
    /\ viewer' = NoView
    /\ UNCHANGED crashes

----------------------------------------------------------------------------
\* hikrad-api: the request, the relay and the stream.

\* updateHandler sends the request and waits for the first line.
UpdateHandler(r) ==
    /\ conn[r].at # "none" /\ relay[r].at = "none"
    /\ relay' = [relay EXCEPT ![r].at = "first"]
    /\ UNCHANGED <<host, child, pipe, disk, current, run, conn, asker, viewer, crashes>>

\* The first line: an event starts the relay; a refusal, the end of the
\* connection or the deadline of 35 s answers an error and hangs up.
FirstLine(r) ==
    /\ relay[r].at = "first"
    /\ \/ /\ conn[r].sent > 0
          /\ relay' = [relay EXCEPT ![r] = [at |-> "pump", events |-> <<run[r].events[1]>>]]
          /\ UNCHANGED conn
       \/ /\ conn[r].sent = 0
          /\ relay' = [relay EXCEPT ![r].at = "refused"]
          /\ conn' = [conn EXCEPT ![r].at = "ended"]
    /\ UNCHANGED <<host, child, pipe, disk, current, run, asker, viewer, crashes>>

\* pump reads on until the result or the end of the connection.
IsResult(e) == e \in {"success", "rolled_back", "failed"}

Pump(r) ==
    LET n == Len(relay[r].events) IN
    /\ relay[r].at = "pump"
    /\ IF IsResult(Last(relay[r].events)) \/ (n = conn[r].sent /\ conn[r].at = "ended")
       THEN relay' = [relay EXCEPT ![r].at = "done"]
       ELSE /\ n < conn[r].sent
            /\ relay' = [relay EXCEPT ![r].events = Append(@, run[r].events[n + 1])]
    /\ UNCHANGED <<host, child, pipe, disk, current, run, conn, asker, viewer, crashes>>

\* streamHandler attaches to the relay this process has, else it polls.
StreamHandler ==
    /\ viewer.at = "idle"
    /\ \/ \E r \in Runs : /\ relay[r].at = "pump"
                          /\ viewer' = [at |-> "tail", of |-> r, seen |-> <<>>]
       \/ /\ \A r \in Runs : relay[r].at # "pump"
          /\ viewer' = [NoView EXCEPT !.at = "poll"]
    /\ UNCHANGED <<host, child, pipe, disk, current, run, conn, asker, relay, crashes>>

RelayTail ==
    /\ viewer.at = "tail"
    /\ viewer' = [viewer EXCEPT !.seen = relay[viewer.of].events,
                                !.at = IF relay[viewer.of].at = "done" THEN "ended" ELSE "tail"]
    /\ viewer' # viewer
    /\ UNCHANGED <<host, child, pipe, disk, current, run, conn, asker, relay, crashes>>

\* pollAndStream: the daemon's own record, when nothing holds the lock.
PollAndStream ==
    /\ viewer.at = "poll" /\ current = NoRun /\ lock = "free" /\ disk.result # NoText
    /\ viewer' = [viewer EXCEPT !.seen = <<disk.result>>, !.at = "polled"]
    /\ UNCHANGED <<host, child, pipe, disk, current, run, conn, asker, relay, crashes>>

UpdNext ==
    \/ \E c \in Children : \/ CmdUpdate(c) \/ BackupNow(c) \/ InstallRelease(c) \/ RestartUnits(c)
                           \/ WaitForHealth(c)
    \/ \E c \in Clis : CliUpdate(c)
    \/ \E r \in Runs : \/ StartUpdate(r) \/ SpawnChild(r) \/ ScanLine(r) \/ FinishRun(r)
                       \/ ReleaseRun(r) \/ ResolveConn(r) \/ TailMore(r) \/ TailEnds(r)
                       \/ UpdateHandler(r) \/ FirstLine(r) \/ Pump(r)
    \/ \E p \in Askers : \/ HandleStatus(p) \/ LoadState(p) \/ ProbeLock(p) \/ ReleaseProbe(p)
                         \/ ReconcileIfStale(p) \/ AnswerStatus(p)
    \/ DaemonDies \/ StreamHandler \/ RelayTail \/ PollAndStream

UpdSpec == UpdInit /\ [][UpdNext]_updVars

----------------------------------------------------------------------------
(* A stream the panel followed to its end shows the whole run: every stage   *)
(* the daemon reported, in order, and last the verdict on the child, unless  *)
(* the daemon or hikrad-api was restarted under it. Each of the three        *)
(* buffers is closed only after its last entry was passed on, although       *)
(* reader and writer run on their own (run.go tail, relay.go pump and tail). *)
StreamComplete ==
    viewer.at = "ended" /\ ~run[viewer.of].cut =>
        /\ viewer.seen = run[viewer.of].events
        /\ IsResult(Last(viewer.seen))
        /\ Last(viewer.seen) = "success" <=> child[viewer.of] = "ok"

(* Not true: the record says "success" only of a release that passed its     *)
(* health check (main.go: "rollback survives the daemon dying"). install.sh  *)
(* restarts the daemon, which ends the child before it checks, and the new   *)
(* daemon concludes from the VERSION file.                                   *)
SuccessMeansHealthy == disk.result = "success" => checked

(* Not true: an update is refused only while another one holds the lock      *)
(* (lock_unix.go: "must never itself become the thing holding the lock").    *)
RefusedForAnUpdate ==
    [][\A c \in Children : child[c] = "start" /\ child'[c] = "refused" => lock \in Children]_updVars

(* Not true: VERSION names the binaries that run. A rollback restores the    *)
(* binaries and leaves VERSION (scripts/hikrad rollback_release).            *)
VersionTrue == lock = "free" => vfile = bins
=============================================================================
