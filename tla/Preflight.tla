----------------------------- MODULE Preflight -----------------------------
(***************************************************************************)
(* minilog --check (src/src/server/preflight.cpp) beside the start of the  *)
(* server (runServer() in main.cpp): the check looks at the files, the     *)
(* directories, the port and the destination one after the other, while    *)
(* the service starts and stops and an administrator works on the machine. *)
(*                                                                         *)
(* The machine is what the two look at: a directory or a file with what it *)
(* permits, who holds the port, and whether names resolve.                 *)
(***************************************************************************)
EXTENDS Integers

CONSTANTS
    Files,          \* the files of the configuration
    Dirs,           \* directories
    Unrotated,      \* the ones of a sink with max_size = 0
    DirOf,          \* DirOf[f]: parent_path() of file f
    Windows,        \* whether there is a service manager
    MaxChanges      \* bound: changes of the machine by others

ASSUME MachineAssumption ==
    /\ DirOf \in [Files -> Dirs] /\ Unrotated \subseteq Files /\ Windows \in BOOLEAN /\ MaxChanges \in Nat

DirStates == {"missing", "unsearchable", "file", "readonly", "sticky", "ok"}
FileStates == {"absent", "dir", "readonly", "ok"}

VARIABLES
    loads,          \* loadConfig() accepts the configuration
    forwarding,     \* [forwarding]: "off" (an address needs no lookup) or "name"
    dir, disk,      \* dir[d], disk[f]
    resolves,       \* the name of the destination resolves
    holder,         \* who has bound the port
    probes,         \* directories in which a probe file of the check is
    changes,        \* changes so far
    check,          \* --check: its step, the file or directory it is at, the
                    \* files and directories that are left, the state of the
                    \* service it was told, its findings, and whether it found
                    \* the service up
    server,         \* the start of the server, or its run
    sinks,          \* the files that openAtStartup() has not been called for
    allOpened,      \* OutputManager::open()
    calm,           \* history: nothing has changed since the check began
    made, removed   \* history: files that the check created, and the files
                    \* and directories that went while it ran

machine == <<loads, forwarding, dir, disk, resolves>>
vars == <<loads, forwarding, dir, disk, resolves, holder, probes, changes, check, server,
          sinks, allOpened, calm, made, removed>>

Running == server \notin {"off", "failed"}
Checking == check.pc \notin {"none", "done"}
Creatable(d) == dir[d] \in {"sticky", "ok"}
Gone == {"missing", "file"}
Exists(f) == dir[DirOf[f]] \notin Gone \cup {"unsearchable"} /\ disk[f] # "absent"

Error(about) == [level |-> "error", about |-> about]
Warning(about) == [level |-> "warning", about |-> about]
-----------------------------------------------------------------------------
(***************************************************************************)
(* --check.                                                                *)
(***************************************************************************)

Found(next, findings) ==
    check' = [check EXCEPT !.pc = next, !.findings = @ \cup findings]

\* queryServiceState(): every state but stopped may hold the port.
QueryServiceState ==
    IF ~Windows THEN {"notApplicable"}
    ELSE {"unknown", IF Running THEN "running" ELSE "notRunning"}

Begin ==
    /\ check.pc = "none"
    /\ \E s \in QueryServiceState :
        check' = [pc |-> "load", at |-> {}, files |-> Files, dirs |-> {DirOf[f] : f \in Files},
                  service |-> s, findings |-> {}, up |-> server = "up"]
    /\ calm' = (server \in {"off", "up", "failed"})
    /\ server' = IF server = "failed" THEN "off" ELSE server
    /\ UNCHANGED <<machine, holder, probes, changes, sinks, allOpened, made, removed>>

\* The one early return of preflight().
LoadConfig ==
    /\ check.pc = "load"
    /\ IF loads THEN Found("files", {}) ELSE Found("done", {Error("config")})
    /\ UNCHANGED <<machine, holder, probes, changes, server, sinks, allOpened, calm, made,
                   removed>>

\* Mutant: the file is opened whether or not it is there.
ToOpenAlways(f) == disk[f] # "dir"

\* What checkExistingFile() goes on to open.
ToOpen(f) == Exists(f) /\ disk[f] # "dir"

FindingsOf(f) ==
    (IF Exists(f) /\ disk[f] = "dir" THEN {Error(f)} ELSE {})
        \cup (IF f \in Unrotated THEN {Warning(f)} ELSE {})

\* checkExistingFile(): a look at a file; and the warning about a file that
\* nothing rotates.
CheckExistingFile ==
    /\ check.pc = "files"
    /\ \/ \E f \in check.files :
            check' = [check EXCEPT !.files = @ \ {f}, !.at = {f},
                                   !.pc = IF ToOpen(f) THEN "append" ELSE "files",
                                   !.findings = @ \cup FindingsOf(f)]
       \/ check.files = {} /\ Found("dirs", {})
    /\ UNCHANGED <<machine, holder, probes, changes, server, sinks, allOpened, calm, made,
                   removed>>

\* ... and the ofstream that appends to it, by which time it may be gone.
OpenExisting ==
    /\ check.pc = "append"
    /\ \E f \in check.at :
        IF disk[f] = "absent" /\ Creatable(DirOf[f])
        THEN /\ disk' = [disk EXCEPT ![f] = "ok"] /\ made' = made \cup {f}
             /\ Found("files", {})
        ELSE /\ Found("files", IF Exists(f) /\ disk[f] = "ok" THEN {} ELSE {Error(f)})
             /\ UNCHANGED <<disk, made>>
    /\ UNCHANGED <<loads, forwarding, dir, resolves, holder, probes, changes, server, sinks,
                   allOpened, calm, removed>>

\* checkDirectory() up to the probe file.
CheckDirectory ==
    /\ check.pc = "dirs"
    /\ \/ \E d \in check.dirs :
            /\ check' = [check EXCEPT !.dirs = @ \ {d}, !.at = {d},
                                      !.pc = IF Creatable(d) THEN "remove" ELSE "dirs",
                                      !.findings = IF Creatable(d) THEN @
                                                   ELSE @ \cup {Error(d)}]
            /\ probes' = IF Creatable(d) THEN probes \cup {d} ELSE probes
       \/ check.dirs = {} /\ Found("bind", {}) /\ UNCHANGED probes
    /\ UNCHANGED <<machine, holder, changes, server, sinks, allOpened, calm, made, removed>>

\* Its end: the probe file goes, or there is a warning.  fs::remove() reports
\* no error where the directory has gone meanwhile, the probe file with it.
RemoveProbe ==
    /\ check.pc = "remove"
    /\ \E d \in check.at :
        /\ probes' = IF dir[d] = "ok" THEN probes \ {d} ELSE probes
        /\ Found("dirs", IF dir[d] \in Gone \cup {"ok"} THEN {} ELSE {Warning(d)})
    /\ UNCHANGED <<machine, holder, changes, server, sinks, allOpened, calm, made, removed>>

\* Mutant: a port that is taken is an error.
ClassifyBindFailureError == Error("port")

\* classifyBindFailure().
ClassifyBindFailure ==
    IF check.service = "running" THEN Warning("port") ELSE Error("port")

\* Mutant: the port is shared.
BindFailsIfService == holder = "service"

BindFails == holder # "nobody"

\* checkBind(): the socket is bound, and closed on the way out.
CheckBind ==
    /\ check.pc = "bind"
    /\ IF BindFails THEN Found("forwarding", {ClassifyBindFailure}) /\ UNCHANGED holder
       ELSE Found("unbind", {}) /\ holder' = IF holder = "nobody" THEN "check" ELSE holder
    /\ UNCHANGED <<machine, probes, changes, server, sinks, allOpened, calm, made, removed>>

Unbind ==
    /\ check.pc = "unbind"
    /\ Found("forwarding", {})
    /\ holder' = IF holder = "check" THEN "nobody" ELSE holder
    /\ UNCHANGED <<machine, probes, changes, server, sinks, allOpened, calm, made, removed>>

\* checkForwarding(), and the end of preflight().
CheckForwarding ==
    /\ check.pc = "forwarding"
    /\ Found("done", IF forwarding = "name" /\ ~resolves THEN {Error("destination")} ELSE {})
    /\ UNCHANGED <<machine, holder, probes, changes, server, sinks, allOpened, calm, made,
                   removed>>

\* printPreflight(): the exit code of --check.
Failed == \E finding \in check.findings : finding.level = "error"
Passed == check.pc = "done" /\ ~Failed
-----------------------------------------------------------------------------
(***************************************************************************)
(* The server, and the machine.                                            *)
(***************************************************************************)

\* A start or a stop while a check runs.
Meanwhile == calm' = (calm /\ ~Checking)

StartServer ==
    /\ ~Running
    /\ server' = IF loads THEN "open" ELSE "failed"
    /\ sinks' = Files /\ allOpened' = TRUE
    /\ Meanwhile
    /\ UNCHANGED <<machine, holder, probes, changes, check, made, removed>>

\* openAtStartup() of every sink, whether or not one before it failed.
OpenSink ==
    /\ server = "open"
    /\ \E f \in sinks :
        LET new == disk[f] = "absent" /\ Creatable(DirOf[f])
        IN /\ sinks' = sinks \ {f}
           /\ disk' = IF new THEN [disk EXCEPT ![f] = "ok"] ELSE disk
           /\ allOpened' = (allOpened /\ (new \/ (Exists(f) /\ disk[f] = "ok")))
    /\ UNCHANGED <<loads, forwarding, dir, resolves, holder, probes, changes, check, server,
                   calm, made, removed>>

\* OutputManager::open() returns, and the forwarder is built: a name that does
\* not resolve is no failure.
SinksOpened ==
    /\ server = "open" /\ sinks = {}
    /\ server' = IF allOpened THEN "bind" ELSE "failed"
    /\ UNCHANGED <<machine, holder, probes, changes, check, sinks, allOpened, calm, made,
                   removed>>

\* UdpServer::start().
Bind ==
    /\ server = "bind"
    /\ IF holder = "nobody" THEN server' = "up" /\ holder' = "service"
       ELSE server' = "failed" /\ UNCHANGED holder
    /\ UNCHANGED <<machine, probes, changes, check, sinks, allOpened, calm, made, removed>>

StopServer ==
    /\ server = "up"
    /\ server' = "off" /\ holder' = "nobody"
    /\ calm' = FALSE
    /\ UNCHANGED <<machine, probes, changes, check, sinks, allOpened, made, removed>>

\* A rotation or an administrator removes a file, a directory goes or comes,
\* permissions change,
\* something else takes the port, names begin or cease to resolve.
MachineChanges ==
    /\ changes < MaxChanges /\ changes' = changes + 1
    /\ \/ \E f \in Files : /\ disk[f] = "ok"
                           /\ \/ /\ disk' = [disk EXCEPT ![f] = "absent"]
                                 /\ removed' = IF Checking THEN removed \cup {f} ELSE removed
                              \/ disk' = [disk EXCEPT ![f] = "readonly"] /\ UNCHANGED removed
          /\ UNCHANGED <<dir, resolves, holder>>
       \/ /\ \E d \in Dirs, s \in DirStates :
                /\ dir' = [dir EXCEPT ![d] = s]
                /\ removed' = IF Checking /\ s \in Gone THEN removed \cup {d} ELSE removed
          /\ UNCHANGED <<disk, resolves, holder>>
       \/ /\ holder \in {"nobody", "other"}
          /\ holder' = IF holder = "nobody" THEN "other" ELSE "nobody"
          /\ UNCHANGED <<disk, removed, resolves, dir>>
       \/ forwarding = "name" /\ resolves' = ~resolves /\ UNCHANGED <<disk, removed, dir, holder>>
    /\ calm' = FALSE
    /\ UNCHANGED <<loads, forwarding, probes, check, server, sinks, allOpened, made>>
-----------------------------------------------------------------------------
Init ==
    /\ loads \in BOOLEAN /\ forwarding \in {"off", "name"}
    /\ dir \in [Dirs -> DirStates] /\ disk \in [Files -> FileStates]
    /\ resolves \in BOOLEAN /\ (forwarding = "off" => resolves)
    /\ holder \in {"nobody", "other"} /\ probes = {} /\ changes = 0
    /\ check = [pc |-> "none", at |-> {}, files |-> {}, dirs |-> {}, service |-> "none",
                findings |-> {}, up |-> FALSE]
    /\ server = "off" /\ sinks = {} /\ allOpened = TRUE
    /\ calm = FALSE /\ made = {} /\ removed = {}

Check ==
    \/ Begin \/ LoadConfig \/ CheckExistingFile \/ OpenExisting \/ CheckDirectory
    \/ RemoveProbe \/ CheckBind \/ Unbind \/ CheckForwarding
Server == StartServer \/ OpenSink \/ SinksOpened \/ Bind \/ StopServer

Next == Check \/ Server \/ MachineChanges

Spec == Init /\ [][Next]_vars
-----------------------------------------------------------------------------
(***************************************************************************)
(* Properties.                                                             *)
(***************************************************************************)

\* A configuration that --check has passed starts, if nothing changes in
\* between: "A --check that passes where the server fails is worse than no
\* check".  The one exception is a port that the check could not try because
\* the service held it.
PassMeansStarts ==
    Passed /\ calm /\ Warning("port") \notin check.findings => server # "failed"

\* --check on a machine where minilog is up and nothing is wrong succeeds,
\* though the service holds the port: "Reporting its own socket as a fault
\* would make the healthy state look broken".
HealthyPasses ==
    /\ check.pc = "done" /\ calm /\ check.up /\ check.service = "running"
    /\ \A d \in Dirs : Creatable(d)
    /\ \A f \in Files : disk[f] = "ok"
    /\ forwarding = "name" => resolves
    => ~Failed

\* --check leaves nothing behind: no probe file without a warning, except in a
\* directory that was taken away with it, and no log file that it created,
\* except in the place of one that was removed between its look and its open.
LeavesNothing ==
    check.pc = "done" => /\ \A d \in probes : Warning(d) \in check.findings \/ d \in removed
                         /\ made \subseteq removed
=============================================================================
