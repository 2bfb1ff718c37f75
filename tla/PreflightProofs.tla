-------------------------- MODULE PreflightProofs --------------------------
(***************************************************************************)
(* Proofs about module Preflight: what --check promises of a later start,  *)
(* of a healthy machine and of what it leaves behind, for any set of files *)
(* and directories and any number of changes.                              *)
(***************************************************************************)
EXTENDS Preflight, TLAPS

Fields == {"pc", "at", "files", "dirs", "service", "findings", "up"}
Steps == {"none", "load", "files", "append", "dirs", "remove", "bind", "unbind", "forwarding",
          "done"}
Targets == {DirOf[f] : f \in Files}

TypeInv ==
    /\ loads \in BOOLEAN /\ calm \in BOOLEAN /\ resolves \in BOOLEAN /\ allOpened \in BOOLEAN
    /\ dir \in [Dirs -> DirStates] /\ disk \in [Files -> FileStates]
    /\ server \in {"off", "failed", "open", "bind", "up"}
    /\ DOMAIN check = Fields /\ check.pc \in Steps
    /\ check.files \subseteq Files /\ check.dirs \subseteq Targets
    /\ check.pc = "append" => \E f \in Files : check.at = {f}
    /\ check.pc = "remove" => \E d \in Dirs : check.at = {d}
    /\ sinks \subseteq Files

\* What the check has left behind, or is about to.
TraceInv ==
    /\ check.pc = "none" => probes = {} /\ check.findings = {}
    /\ \A d \in probes : \/ Warning(d) \in check.findings \/ d \in removed
                         \/ check.pc = "remove" /\ d \in check.at
    /\ check.pc = "remove" => \A d \in check.at : dir[d] \in Gone => d \in removed
    /\ check.pc = "append" => \A f \in check.at : disk[f] = "absent" => f \in removed
    /\ made \subseteq removed

\* The server and its port.
ServerInv ==
    /\ server = "up" <=> holder = "service"
    /\ server \in {"open", "bind", "up"} => loads
    /\ calm => check.pc # "none"
    /\ calm /\ Checking => server \in {"off", "up"}
    /\ calm /\ check.up => server = "up"

\* What a check without an error has established so far, as long as nothing
\* has changed: of the files and directories it has left behind, of the port,
\* and, after its end, of the start that follows.
Examined(f) == f \notin check.files /\ ~(check.pc = "append" /\ f \in check.at)

FoundInv ==
    /\ check.pc = "append" => \A f \in check.at : Exists(f) /\ disk[f] # "dir"
    /\ check.pc = "unbind" => holder = "check"

SoFarInv ==
    /\ check.pc \notin {"none", "load", "files", "append"} => check.files = {}
    /\ check.pc \notin {"none", "load", "files", "append", "dirs", "remove"} => check.dirs = {}
    /\ check.pc # "load" => loads
    /\ \A f \in Files : Examined(f) => ~Exists(f) \/ disk[f] = "ok"
    /\ \A d \in Targets \ check.dirs : Creatable(d)

PortInv ==
    /\ check.pc \in {"forwarding", "done"} /\ server # "up" => holder = "nobody"
    /\ server # "failed"
    /\ server \in {"open", "bind"} => allOpened

PassInv ==
    calm => /\ FoundInv
            /\ ~Failed => SoFarInv
            /\ ~Failed /\ Warning("port") \notin check.findings => PortInv

\* A machine on which nothing is wrong.
Healthy ==
    /\ \A d \in Dirs : Creatable(d)
    /\ \A f \in Files : disk[f] = "ok"
    /\ forwarding = "name" => resolves

HealthyInv == calm /\ check.up /\ check.service = "running" /\ Healthy => ~Failed

IInv == TypeInv /\ TraceInv /\ ServerInv /\ PassInv /\ HealthyInv
-----------------------------------------------------------------------------
(***************************************************************************)
(* The record of the check, and its findings.                              *)
(***************************************************************************)

\* What a finding's level is.
LEMMA Levels ==
    \A x : Error(x).level = "error" /\ Warning(x).level = "warning"
BY DEF Error, Warning

\* What adding findings leaves alone in the record of the check.
LEMMA FoundSets ==
    ASSUME DOMAIN check = Fields, NEW next, NEW fs, Found(next, fs)
    PROVE  /\ DOMAIN check' = Fields
           /\ check'.pc = next /\ check'.findings = check.findings \cup fs
           /\ check'.at = check.at /\ check'.files = check.files /\ check'.dirs = check.dirs
           /\ check'.service = check.service /\ check'.up = check.up
BY DEF Found, Fields

\* A check has failed when it had, or when an error is among the new findings.
LEMMA FailedAfter ==
    ASSUME NEW fs, check'.findings = check.findings \cup fs
    PROVE  Failed' <=> Failed \/ \E x \in fs : x.level = "error"
BY DEF Failed

\* The invariant holds before the first check.
LEMMA InitIInv == Init => IInv
<1> SUFFICES ASSUME Init PROVE IInv
  OBVIOUS
<1>1. /\ DOMAIN check = Fields /\ check.pc = "none" /\ check.at = {} /\ check.files = {}
      /\ check.dirs = {} /\ check.findings = {} /\ check.up = FALSE
  <2>1. check = [pc |-> "none", at |-> {}, files |-> {}, dirs |-> {}, service |-> "none",
                 findings |-> {}, up |-> FALSE]
    BY Zenon DEF Init
  <2> QED
    BY <2>1 DEF Fields
<1>2. calm = FALSE /\ allOpened = TRUE
  BY Zenon DEF Init
<1>3. TypeInv
  <2>1. calm \in BOOLEAN /\ allOpened \in BOOLEAN
    BY <1>2, Zenon
  <2> QED
    BY <1>1, <2>1 DEF Init, TypeInv, Steps
<1>4. TraceInv
  BY <1>1 DEF Init, TraceInv
<1>5. ServerInv
  <2>1. ~calm
    BY <1>2, Zenon
  <2> QED
    BY <2>1 DEF Init, ServerInv
<1>6. PassInv /\ HealthyInv
  BY <1>2, Zenon DEF PassInv, HealthyInv
<1> QED
  BY <1>3, <1>4, <1>5, <1>6 DEF IInv
-----------------------------------------------------------------------------
(***************************************************************************)
(* The steps of the check.                                                 *)
(***************************************************************************)

\* One lemma for each action: the step keeps the invariant.
LEMMA BeginStep == ASSUME IInv, Begin PROVE IInv'
<1>1. /\ check.pc = "none"
      /\ server' = IF server = "failed" THEN "off" ELSE server
      /\ UNCHANGED <<loads, forwarding, dir, disk, resolves, holder, probes, changes, sinks,
                     allOpened, made, removed>>
  BY Zenon DEF Begin, machine
<1>2. calm' \in BOOLEAN /\ (calm' <=> server \in {"off", "up", "failed"})
  <2> DEFINE Settled == server \in {"off", "up", "failed"}
  <2>1. calm' = Settled
    BY Zenon DEF Begin
  <2>2. Settled \in BOOLEAN
    OBVIOUS
  <2> HIDE DEF Settled
  <2>3. calm' \in BOOLEAN /\ (calm' <=> Settled)
    BY <2>1, <2>2, Zenon
  <2> QED
    BY <2>3 DEF Settled
<1>3. PICK s, b :
        /\ b = (server = "up")
        /\ check' = [pc |-> "load", at |-> {}, files |-> Files, dirs |-> {DirOf[f] : f \in Files},
                     service |-> s, findings |-> {}, up |-> b]
  BY Zenon DEF Begin
<1>4. /\ DOMAIN check' = Fields /\ check'.pc = "load" /\ check'.at = {}
      /\ check'.files = Files /\ check'.dirs = Targets /\ check'.findings = {}
      /\ check'.up = b
  BY <1>3 DEF Fields, Targets
<1>5. TypeInv'
  BY <1>1, <1>2, <1>4 DEF IInv, TypeInv, Steps
<1>6. TraceInv'
  BY <1>1, <1>4 DEF IInv, TraceInv
<1>7. check'.up => server = "up"
  BY <1>3, <1>4
<1>8. ServerInv'
  BY <1>1, <1>2, <1>4, <1>7 DEF IInv, TypeInv, ServerInv, Checking
<1>9. ~Failed'
  BY <1>4 DEF Failed
<1>10. PassInv'
  <2>1. FoundInv' /\ SoFarInv'
    BY <1>4 DEF FoundInv, SoFarInv, Examined
  <2>2. calm' => PortInv'
    BY <1>1, <1>2, <1>4 DEF PortInv
  <2> QED
    BY <2>1, <2>2 DEF PassInv
<1>11. HealthyInv'
  BY <1>9 DEF HealthyInv
<1> QED
  BY <1>5, <1>6, <1>8, <1>10, <1>11 DEF IInv

LEMMA LoadConfigStep == ASSUME IInv, LoadConfig PROVE IInv'
<1> USE Levels, FailedAfter
<1>0. DOMAIN check = Fields
  BY DEF IInv, TypeInv
<1>1. /\ check.pc = "load"
      /\ UNCHANGED <<loads, forwarding, dir, disk, resolves, holder, probes, changes, server,
                     sinks, allOpened, calm, made, removed>>
  BY DEF LoadConfig, machine
<1>2. PICK next, fs :
        /\ Found(next, fs)
        /\ \/ loads /\ next = "files" /\ fs = {}
           \/ ~loads /\ next = "done" /\ fs = {Error("config")}
  BY DEF LoadConfig
<1>3. /\ DOMAIN check' = Fields
      /\ check'.pc = next /\ check'.findings = check.findings \cup fs
      /\ check'.at = check.at /\ check'.files = check.files /\ check'.dirs = check.dirs
      /\ check'.service = check.service /\ check'.up = check.up
  BY <1>0, <1>2, FoundSets
<1>4. TypeInv'
  BY <1>1, <1>2, <1>3 DEF IInv, TypeInv, Steps
<1>5. TraceInv'
  BY <1>1, <1>2, <1>3 DEF IInv, TraceInv
<1>6. ServerInv'
  BY <1>1, <1>2, <1>3 DEF IInv, ServerInv, Checking
<1>7. Failed' <=> Failed \/ ~loads
  BY <1>2, <1>3
<1>8. PassInv'
  BY <1>1, <1>2, <1>3, <1>7 DEF IInv, ServerInv, PassInv, FoundInv, SoFarInv, PortInv, Examined, Exists,
                         Creatable, Checking
<1>9. HealthyInv'
  BY <1>1, <1>2, <1>3, <1>7 DEF IInv, ServerInv, HealthyInv, Healthy, Creatable
<1> QED
  BY <1>4, <1>5, <1>6, <1>8, <1>9 DEF IInv

LEMMA CheckExistingFileStep == ASSUME IInv, CheckExistingFile PROVE IInv'
<1> USE Levels, FailedAfter
<1>0. DOMAIN check = Fields
  BY DEF IInv, TypeInv
<1>1. /\ check.pc = "files"
      /\ UNCHANGED <<loads, forwarding, dir, disk, resolves, holder, probes, changes, server,
                     sinks, allOpened, calm, made, removed>>
  BY Zenon DEF CheckExistingFile, machine
<1>2. CASE check.files = {} /\ Found("dirs", {})
  <2>1. /\ DOMAIN check' = Fields
        /\ check'.pc = "dirs" /\ check'.findings = check.findings \cup {}
        /\ check'.at = check.at /\ check'.files = check.files /\ check'.dirs = check.dirs
        /\ check'.service = check.service /\ check'.up = check.up
    BY <1>0, <1>2, FoundSets
  <2>2. Failed' <=> Failed
    BY <2>1 DEF Failed
  <2>3. TypeInv'
    BY <1>1, <2>1 DEF IInv, TypeInv, Steps
  <2>4. TraceInv'
    BY <1>1, <2>1 DEF IInv, TraceInv
  <2>5. ServerInv'
    BY <1>1, <2>1 DEF IInv, ServerInv, Checking
  <2>6. PassInv'
    BY <1>1, <1>2, <2>1, <2>2
    DEF IInv, ServerInv, PassInv, FoundInv, SoFarInv, PortInv, Examined, Exists, Creatable,
        Checking
  <2>7. HealthyInv'
    BY <1>1, <2>1, <2>2 DEF IInv, HealthyInv, Healthy, Creatable
  <2> QED
    BY <2>3, <2>4, <2>5, <2>6, <2>7 DEF IInv
<1>3. ASSUME NEW f \in check.files,
             check' = [check EXCEPT !.files = @ \ {f}, !.at = {f},
                                    !.pc = IF ToOpen(f) THEN "append" ELSE "files",
                                    !.findings = @ \cup FindingsOf(f)]
      PROVE  IInv'
  <2>1. PICK next : /\ next = IF ToOpen(f) THEN "append" ELSE "files"
                    /\ check' = [check EXCEPT !.files = @ \ {f}, !.at = {f}, !.pc = next,
                                              !.findings = @ \cup FindingsOf(f)]
    BY <1>3, Zenon
  <2>2. /\ DOMAIN check' = Fields
        /\ check'.pc = next /\ check'.findings = check.findings \cup FindingsOf(f)
        /\ check'.at = {f} /\ check'.files = check.files \ {f} /\ check'.dirs = check.dirs
        /\ check'.service = check.service /\ check'.up = check.up
    BY <1>0, <2>1 DEF Fields
  <2>3. Failed' <=> Failed \/ (Exists(f) /\ disk[f] = "dir")
    <3>1. \A x \in FindingsOf(f) : x.level = "error" => Exists(f) /\ disk[f] = "dir"
      BY DEF FindingsOf
    <3>2. Exists(f) /\ disk[f] = "dir" => Error(f) \in FindingsOf(f)
      BY DEF FindingsOf
    <3> QED
      BY <2>2, <3>1, <3>2
  <2>4. f \in Files
    BY <1>3 DEF IInv, TypeInv
  <2>5. TypeInv'
    BY <1>1, <2>1, <2>2, <2>4 DEF IInv, TypeInv, Steps
  <2>6. TraceInv'
    BY <1>1, <2>1, <2>2, <2>4 DEF IInv, TraceInv, ToOpen, Exists
  <2>7. ServerInv'
    BY <1>1, <2>1, <2>2 DEF IInv, ServerInv, Checking
  <2>8. PassInv'
    BY <1>1, <2>1, <2>2, <2>3, <2>4
    DEF IInv, ServerInv, PassInv, FoundInv, SoFarInv, PortInv, Examined, ToOpen, Exists,
        Creatable, Checking
  <2>9. HealthyInv'
    BY <1>1, <2>1, <2>2, <2>3, <2>4 DEF IInv, HealthyInv, Healthy, Creatable
  <2> QED
    BY <2>5, <2>6, <2>7, <2>8, <2>9 DEF IInv
<1> QED
  BY <1>2, <1>3, Zenon DEF CheckExistingFile

LEMMA OpenExistingStep == ASSUME IInv, OpenExisting PROVE IInv'
<1> USE Levels, FailedAfter
<1>0. DOMAIN check = Fields
  BY DEF IInv, TypeInv
<1>1. /\ check.pc = "append"
      /\ UNCHANGED <<loads, forwarding, dir, resolves, holder, probes, changes, server,
                     sinks, allOpened, calm, removed>>
  BY Zenon DEF OpenExisting
<1>2. PICK f \in check.at :
        \/ /\ disk[f] = "absent" /\ Creatable(DirOf[f])
           /\ disk' = [disk EXCEPT ![f] = "ok"] /\ made' = made \cup {f} /\ Found("files", {})
        \/ /\ Found("files", IF Exists(f) /\ disk[f] = "ok" THEN {} ELSE {Error(f)})
           /\ UNCHANGED <<disk, made>>
  BY DEF OpenExisting
<1>3. f \in Files /\ check.at = {f}
  BY <1>1, <1>2 DEF IInv, TypeInv
<1>4. PICK fs :
        /\ Found("files", fs)
        /\ \/ /\ disk[f] = "absent" /\ fs = {}
              /\ disk' = [disk EXCEPT ![f] = "ok"] /\ made' = made \cup {f}
           \/ UNCHANGED <<disk, made>> /\ fs = IF Exists(f) /\ disk[f] = "ok" THEN {} ELSE {Error(f)}
  BY <1>2
<1>5. /\ DOMAIN check' = Fields
      /\ check'.pc = "files" /\ check'.findings = check.findings \cup fs
      /\ check'.at = check.at /\ check'.files = check.files /\ check'.dirs = check.dirs
      /\ check'.service = check.service /\ check'.up = check.up
  BY <1>0, <1>4, FoundSets
<1>6. TypeInv'
  BY <1>1, <1>3, <1>4, <1>5 DEF IInv, TypeInv, Steps, FileStates
<1>7. TraceInv'
  BY <1>1, <1>3, <1>4, <1>5 DEF IInv, TraceInv
<1>8. ServerInv'
  BY <1>1, <1>5 DEF IInv, ServerInv, Checking
<1>9. calm => UNCHANGED disk /\ (Failed' <=> Failed \/ disk[f] # "ok")
  <2> SUFFICES ASSUME calm
               PROVE  UNCHANGED disk /\ (Failed' <=> Failed \/ disk[f] # "ok")
    OBVIOUS
  <2>1. Exists(f)
    BY <1>1, <1>2 DEF IInv, PassInv, FoundInv
  <2>2. UNCHANGED disk /\ fs = IF disk[f] = "ok" THEN {} ELSE {Error(f)}
    BY <1>4, <2>1 DEF Exists
  <2> QED
    BY <1>5, <2>2
<1>10. PassInv'
  BY <1>1, <1>3, <1>5, <1>9
  DEF IInv, ServerInv, PassInv, FoundInv, SoFarInv, PortInv, Examined, Exists, Creatable,
      Checking
<1>11. HealthyInv'
  BY <1>1, <1>3, <1>5, <1>9 DEF IInv, HealthyInv, Healthy, Creatable
<1> QED
  BY <1>6, <1>7, <1>8, <1>10, <1>11 DEF IInv

LEMMA CheckDirectoryStep == ASSUME IInv, CheckDirectory PROVE IInv'
<1> USE Levels, FailedAfter
<1>0. DOMAIN check = Fields
  BY DEF IInv, TypeInv
<1>1. /\ check.pc = "dirs"
      /\ UNCHANGED <<loads, forwarding, dir, disk, resolves, holder, changes, server, sinks,
                     allOpened, calm, made, removed>>
  BY Zenon DEF CheckDirectory, machine
<1>2. CASE check.dirs = {} /\ Found("bind", {}) /\ UNCHANGED probes
  <2>1. /\ DOMAIN check' = Fields
        /\ check'.pc = "bind" /\ check'.findings = check.findings \cup {}
        /\ check'.at = check.at /\ check'.files = check.files /\ check'.dirs = check.dirs
        /\ check'.service = check.service /\ check'.up = check.up
    BY <1>0, <1>2, FoundSets
  <2>2. Failed' <=> Failed
    BY <2>1 DEF Failed
  <2>3. TypeInv'
    BY <1>1, <2>1 DEF IInv, TypeInv, Steps
  <2>4. TraceInv'
    BY <1>1, <1>2, <2>1 DEF IInv, TraceInv
  <2>5. ServerInv'
    BY <1>1, <2>1 DEF IInv, ServerInv, Checking
  <2>6. PassInv'
    BY <1>1, <1>2, <2>1, <2>2
    DEF IInv, ServerInv, PassInv, FoundInv, SoFarInv, PortInv, Examined, Exists, Creatable,
        Checking
  <2>7. HealthyInv'
    BY <1>1, <2>1, <2>2 DEF IInv, HealthyInv, Healthy, Creatable
  <2> QED
    BY <2>3, <2>4, <2>5, <2>6, <2>7 DEF IInv
<1>3. ASSUME NEW d \in check.dirs,
             check' = [check EXCEPT !.dirs = @ \ {d}, !.at = {d},
                                    !.pc = IF Creatable(d) THEN "remove" ELSE "dirs",
                                    !.findings = IF Creatable(d) THEN @ ELSE @ \cup {Error(d)}],
             probes' = IF Creatable(d) THEN probes \cup {d} ELSE probes
      PROVE  IInv'
  <2>1. PICK next, fs :
          /\ next = IF Creatable(d) THEN "remove" ELSE "dirs"
          /\ fs = IF Creatable(d) THEN check.findings ELSE check.findings \cup {Error(d)}
          /\ check' = [check EXCEPT !.dirs = @ \ {d}, !.at = {d}, !.pc = next, !.findings = fs]
    BY <1>3, Zenon
  <2>2. /\ DOMAIN check' = Fields
        /\ check'.pc = next /\ check'.findings = fs
        /\ check'.at = {d} /\ check'.files = check.files /\ check'.dirs = check.dirs \ {d}
        /\ check'.service = check.service /\ check'.up = check.up
    BY <1>0, <2>1 DEF Fields
  <2>3. Failed' <=> Failed \/ ~Creatable(d)
    BY <2>1, <2>2 DEF Failed
  <2>4. d \in Targets /\ d \in Dirs
    BY <1>3, MachineAssumption DEF IInv, TypeInv, Targets
  <2>5. TypeInv'
    BY <1>1, <2>1, <2>2, <2>4 DEF IInv, TypeInv, Steps
  <2>6. TraceInv'
    BY <1>1, <1>3, <2>1, <2>2 DEF IInv, TraceInv, Creatable, Gone
  <2>7. ServerInv'
    BY <1>1, <2>1, <2>2 DEF IInv, ServerInv, Checking
  <2>8. PassInv'
    <3>1. Failed => Failed'
      BY <2>3
    <3>2. calm /\ ~Failed' => SoFarInv'
      BY <1>1, <2>1, <2>2, <2>3 DEF IInv, PassInv, SoFarInv, Examined, Exists, Creatable
    <3> QED
      BY <1>1, <2>1, <2>2, <3>1, <3>2
      DEF IInv, ServerInv, PassInv, FoundInv, PortInv, Checking
  <2>9. HealthyInv'
    BY <1>1, <2>2, <2>3, <2>4 DEF IInv, HealthyInv, Healthy, Creatable
  <2> QED
    BY <2>5, <2>6, <2>7, <2>8, <2>9 DEF IInv
<1> QED
  BY <1>2, <1>3, Zenon DEF CheckDirectory

LEMMA RemoveProbeStep == ASSUME IInv, RemoveProbe PROVE IInv'
<1> USE Levels, FailedAfter
<1>0. DOMAIN check = Fields
  BY DEF IInv, TypeInv
<1>1. /\ check.pc = "remove"
      /\ UNCHANGED <<loads, forwarding, dir, disk, resolves, holder, changes, server, sinks,
                     allOpened, calm, made, removed>>
  BY DEF RemoveProbe, machine
<1>2. PICK d, fs :
        /\ d \in check.at
        /\ Found("dirs", fs)
        /\ \/ probes' = probes \ {d} /\ fs = {}
           \/ UNCHANGED probes /\ fs = {Warning(d)}
           \/ UNCHANGED probes /\ fs = {} /\ dir[d] \in Gone
  BY DEF RemoveProbe
<1>3. check.at = {d}
  BY <1>1, <1>2 DEF IInv, TypeInv
<1>4. /\ DOMAIN check' = Fields
      /\ check'.pc = "dirs" /\ check'.findings = check.findings \cup fs
      /\ check'.at = check.at /\ check'.files = check.files /\ check'.dirs = check.dirs
      /\ check'.service = check.service /\ check'.up = check.up
  BY <1>0, <1>2, FoundSets
<1>5. Failed' <=> Failed
  BY <1>2, <1>4 DEF Failed
<1>6. TypeInv'
  BY <1>1, <1>4 DEF IInv, TypeInv, Steps
<1>7. TraceInv'
  BY <1>1, <1>2, <1>3, <1>4 DEF IInv, TraceInv
<1>8. ServerInv'
  BY <1>1, <1>4 DEF IInv, ServerInv, Checking
<1>9. PassInv'
  BY <1>1, <1>2, <1>4, <1>5
  DEF IInv, ServerInv, PassInv, FoundInv, SoFarInv, PortInv, Examined, Exists, Creatable,
      Checking
<1>10. HealthyInv'
  BY <1>1, <1>4, <1>5 DEF IInv, HealthyInv, Healthy, Creatable
<1> QED
  BY <1>6, <1>7, <1>8, <1>9, <1>10 DEF IInv

LEMMA CheckBindStep == ASSUME IInv, CheckBind PROVE IInv'
<1> USE Levels, FailedAfter
<1>0. DOMAIN check = Fields
  BY DEF IInv, TypeInv
<1>1. /\ check.pc = "bind"
      /\ UNCHANGED <<loads, forwarding, dir, disk, resolves, probes, changes, server, sinks,
                     allOpened, calm, made, removed>>
  BY DEF CheckBind, machine
<1>2. PICK next, fs :
        /\ Found(next, fs)
        /\ \/ /\ next = "forwarding" /\ fs = {ClassifyBindFailure} /\ UNCHANGED holder
           \/ /\ next = "unbind" /\ fs = {} /\ holder = "nobody" /\ holder' = "check"
  BY DEF CheckBind, BindFails
<1>3. /\ DOMAIN check' = Fields
      /\ check'.pc = next /\ check'.findings = check.findings \cup fs
      /\ check'.at = check.at /\ check'.files = check.files /\ check'.dirs = check.dirs
      /\ check'.service = check.service /\ check'.up = check.up
  BY <1>0, <1>2, FoundSets
<1>4. /\ next = "forwarding" =>
           Failed' \/ (check.service = "running" /\ Warning("port") \in check'.findings)
      /\ Failed => Failed'
      /\ next = "unbind" => (Failed' => Failed)
      /\ check.service = "running" => (Failed' => Failed)
  BY <1>2, <1>3 DEF ClassifyBindFailure, Failed
<1>5. TypeInv'
  BY <1>1, <1>2, <1>3 DEF IInv, TypeInv, Steps
<1>6. TraceInv'
  BY <1>1, <1>2, <1>3 DEF IInv, TraceInv
<1>7. ServerInv'
  BY <1>1, <1>2, <1>3 DEF IInv, ServerInv, Checking
<1>8. PassInv'
  BY <1>1, <1>2, <1>3, <1>4
  DEF IInv, ServerInv, PassInv, FoundInv, SoFarInv, PortInv, Examined, Exists, Creatable,
      Checking
<1>9. HealthyInv'
  BY <1>1, <1>3, <1>4 DEF IInv, HealthyInv, Healthy, Creatable
<1> QED
  BY <1>5, <1>6, <1>7, <1>8, <1>9 DEF IInv

LEMMA UnbindStep == ASSUME IInv, Unbind PROVE IInv'
<1>0. DOMAIN check = Fields
  BY DEF IInv, TypeInv
<1>1. /\ check.pc = "unbind"
      /\ holder' = IF holder = "check" THEN "nobody" ELSE holder
      /\ UNCHANGED <<loads, forwarding, dir, disk, resolves, probes, changes, server, sinks,
                     allOpened, calm, made, removed>>
  BY DEF Unbind, machine
<1>2. /\ DOMAIN check' = Fields
      /\ check'.pc = "forwarding" /\ check'.findings = check.findings \cup {}
      /\ check'.at = check.at /\ check'.files = check.files /\ check'.dirs = check.dirs
      /\ check'.service = check.service /\ check'.up = check.up
  BY <1>0, FoundSets DEF Unbind
<1>3. Failed' <=> Failed
  BY <1>2 DEF Failed
<1>4. TypeInv'
  BY <1>1, <1>2 DEF IInv, TypeInv, Steps
<1>5. TraceInv'
  BY <1>1, <1>2 DEF IInv, TraceInv
<1>6. ServerInv'
  BY <1>1, <1>2 DEF IInv, ServerInv, Checking
<1>7. PassInv'
  BY <1>1, <1>2, <1>3
  DEF IInv, ServerInv, PassInv, FoundInv, SoFarInv, PortInv, Examined, Exists, Creatable,
      Checking
<1>8. HealthyInv'
  BY <1>1, <1>2, <1>3 DEF IInv, HealthyInv, Healthy, Creatable
<1> QED
  BY <1>4, <1>5, <1>6, <1>7, <1>8 DEF IInv

LEMMA CheckForwardingStep == ASSUME IInv, CheckForwarding PROVE IInv'
<1> USE Levels, FailedAfter
<1>0. DOMAIN check = Fields
  BY DEF IInv, TypeInv
<1>1. /\ check.pc = "forwarding"
      /\ UNCHANGED <<loads, forwarding, dir, disk, resolves, holder, probes, changes, server,
                     sinks, allOpened, calm, made, removed>>
  BY DEF CheckForwarding, machine
<1>2. PICK fs :
        /\ Found("done", fs)
        /\ fs = IF forwarding = "name" /\ ~resolves THEN {Error("destination")} ELSE {}
  BY DEF CheckForwarding
<1>3. /\ DOMAIN check' = Fields
      /\ check'.pc = "done" /\ check'.findings = check.findings \cup fs
      /\ check'.at = check.at /\ check'.files = check.files /\ check'.dirs = check.dirs
      /\ check'.service = check.service /\ check'.up = check.up
  BY <1>0, <1>2, FoundSets
<1>4. Failed' <=> Failed \/ (forwarding = "name" /\ ~resolves)
  BY <1>2, <1>3 DEF Failed
<1>5. TypeInv'
  BY <1>1, <1>3 DEF IInv, TypeInv, Steps
<1>6. TraceInv'
  BY <1>1, <1>3 DEF IInv, TraceInv
<1>7. ServerInv'
  BY <1>1, <1>3 DEF IInv, ServerInv, Checking
<1>8. PassInv'
  BY <1>1, <1>3, <1>4
  DEF IInv, ServerInv, PassInv, FoundInv, SoFarInv, PortInv, Examined, Exists, Creatable,
      Checking
<1>9. HealthyInv'
  BY <1>1, <1>3, <1>4 DEF IInv, HealthyInv, Healthy, Creatable
<1> QED
  BY <1>5, <1>6, <1>7, <1>8, <1>9 DEF IInv
-----------------------------------------------------------------------------
(***************************************************************************)
(* The steps of the server and of the machine.                             *)
(***************************************************************************)

LEMMA StartServerStep == ASSUME IInv, StartServer PROVE IInv'
<1>1. /\ ~Running /\ sinks' = Files
      /\ UNCHANGED <<loads, forwarding, dir, disk, resolves, holder, probes, changes, check,
                     made, removed>>
  BY Zenon DEF StartServer, machine
<1>2. server' = IF loads THEN "open" ELSE "failed"
  BY Zenon DEF StartServer
<1>3. calm' \in BOOLEAN /\ (calm' <=> calm /\ ~Checking)
  BY Zenon DEF StartServer, Meanwhile
<1>4. allOpened' \in BOOLEAN /\ allOpened'
  BY Zenon DEF StartServer
<1>5. TypeInv'
  BY <1>1, <1>2, <1>3, <1>4 DEF IInv, TypeInv
<1>6. TraceInv'
  BY <1>1 DEF IInv, TraceInv
<1>7. ServerInv'
  BY <1>1, <1>2, <1>3 DEF IInv, ServerInv, Checking, Running
<1>8. PassInv'
  BY <1>1, <1>2, <1>3, <1>4
  DEF IInv, ServerInv, PassInv, FoundInv, SoFarInv, PortInv, Examined, Exists, Creatable,
      Checking, Running, Failed
<1>9. HealthyInv'
  BY <1>1, <1>3 DEF IInv, HealthyInv, Healthy, Creatable, Failed
<1> QED
  BY <1>5, <1>6, <1>7, <1>8, <1>9 DEF IInv

LEMMA OpenSinkStep == ASSUME IInv, OpenSink PROVE IInv'
<1> DEFINE New(f) == disk[f] = "absent" /\ Creatable(DirOf[f])
<1>1. /\ server = "open"
      /\ UNCHANGED <<loads, forwarding, dir, resolves, holder, probes, changes, check, server,
                     calm, made, removed>>
  BY Zenon DEF OpenSink
<1>2. PICK f \in sinks :
        /\ sinks' = sinks \ {f}
        /\ disk' = IF New(f) THEN [disk EXCEPT ![f] = "ok"] ELSE disk
        /\ allOpened' = (allOpened /\ (New(f) \/ (Exists(f) /\ disk[f] = "ok")))
  BY Zenon DEF OpenSink
<1>3. f \in Files
  BY <1>2 DEF IInv, TypeInv
<1>4. /\ allOpened' \in BOOLEAN
      /\ allOpened' <=> allOpened /\ (New(f) \/ (Exists(f) /\ disk[f] = "ok"))
  BY <1>2, Zenon
<1>5. \A g \in Files : disk'[g] = disk[g] \/ (disk[g] = "absent" /\ disk'[g] = "ok")
  BY <1>2, <1>3 DEF IInv, TypeInv
<1>6. disk' \in [Files -> FileStates]
  BY <1>2, <1>3 DEF IInv, TypeInv, FileStates
<1>7. TypeInv'
  BY <1>1, <1>2, <1>4, <1>6 DEF IInv, TypeInv
<1>8. TraceInv'
  BY <1>1, <1>5 DEF IInv, TypeInv, TraceInv
<1>9. ServerInv'
  BY <1>1 DEF IInv, ServerInv, Checking
<1>10. ASSUME calm'
       PROVE  check.pc = "done" /\ ~check.up
  BY <1>1, <1>10 DEF IInv, ServerInv, Checking
<1>11. Failed' <=> Failed
  BY <1>1 DEF Failed
<1>12. PassInv'
  <2> SUFFICES ASSUME calm'
               PROVE  /\ FoundInv'
                      /\ ~Failed => SoFarInv'
                      /\ ~Failed /\ Warning("port") \notin check.findings => PortInv'
    BY <1>1, <1>11 DEF PassInv
  <2>1. FoundInv'
    BY <1>1, <1>10 DEF FoundInv
  <2>2. ASSUME ~Failed
        PROVE  SoFarInv'
    <3>1. SoFarInv
      BY <1>1, <2>2 DEF IInv, PassInv
    <3>2. \A g \in Files : Exists(g)' => Exists(g) \/ disk'[g] = "ok"
      BY <1>1, <1>5 DEF Exists
    <3> QED
      BY <1>1, <1>5, <3>1, <3>2 DEF SoFarInv, Examined, Creatable, Exists
  <2>3. ASSUME ~Failed, Warning("port") \notin check.findings
        PROVE  PortInv'
    <3>1. SoFarInv /\ PortInv
      BY <1>1, <2>3 DEF IInv, PassInv
    <3>2. Creatable(DirOf[f]) /\ Examined(f)
      BY <1>3, <1>10, <3>1 DEF SoFarInv, Targets, Examined
    <3>3. New(f) \/ (Exists(f) /\ disk[f] = "ok")
      BY <1>3, <3>1, <3>2 DEF SoFarInv, Exists, Creatable, Gone
    <3> QED
      BY <1>1, <1>4, <3>1, <3>3 DEF PortInv
  <2> QED
    BY <2>1, <2>2, <2>3
<1>13. HealthyInv'
  BY <1>1, <1>10 DEF HealthyInv
<1> QED
  BY <1>7, <1>8, <1>9, <1>12, <1>13 DEF IInv

LEMMA SinksOpenedStep == ASSUME IInv, SinksOpened PROVE IInv'
<1>1. /\ server = "open" /\ server' = IF allOpened THEN "bind" ELSE "failed"
      /\ UNCHANGED <<loads, forwarding, dir, disk, resolves, holder, probes, changes, check,
                     sinks, allOpened, calm, made, removed>>
  BY DEF SinksOpened, machine
<1>2. TypeInv'
  BY <1>1 DEF IInv, TypeInv
<1>3. TraceInv'
  BY <1>1 DEF IInv, TraceInv
<1>4. ServerInv'
  BY <1>1 DEF IInv, ServerInv, Checking
<1>5. PassInv'
  BY <1>1
  DEF IInv, ServerInv, PassInv, FoundInv, SoFarInv, PortInv, Examined, Exists, Creatable,
      Checking, Failed
<1>6. HealthyInv'
  BY <1>1 DEF IInv, HealthyInv, Healthy, Creatable, Failed
<1> QED
  BY <1>2, <1>3, <1>4, <1>5, <1>6 DEF IInv

LEMMA BindStep == ASSUME IInv, Bind PROVE IInv'
<1>1. /\ server = "bind"
      /\ \/ holder = "nobody" /\ server' = "up" /\ holder' = "service"
         \/ holder # "nobody" /\ server' = "failed" /\ holder' = holder
      /\ UNCHANGED <<loads, forwarding, dir, disk, resolves, probes, changes, check, sinks,
                     allOpened, calm, made, removed>>
  BY DEF Bind, machine
<1>2. TypeInv'
  BY <1>1 DEF IInv, TypeInv
<1>3. TraceInv'
  BY <1>1 DEF IInv, TraceInv
<1>4. ServerInv'
  BY <1>1 DEF IInv, ServerInv, Checking
<1>5. PassInv'
  BY <1>1
  DEF IInv, ServerInv, PassInv, FoundInv, SoFarInv, PortInv, Examined, Exists, Creatable,
      Checking, Failed
<1>6. HealthyInv'
  BY <1>1 DEF IInv, HealthyInv, Healthy, Creatable, Failed
<1> QED
  BY <1>2, <1>3, <1>4, <1>5, <1>6 DEF IInv

\* A change of the machine, or a stop, ends the calm.
LEMMA StopServerStep == ASSUME IInv, StopServer PROVE IInv'
<1>1. /\ server = "up" /\ server' = "off" /\ holder' = "nobody"
      /\ UNCHANGED <<loads, forwarding, dir, disk, resolves, probes, changes, check, sinks,
                     allOpened, made, removed>>
  BY Zenon DEF StopServer, machine
<1>2. calm' \in BOOLEAN /\ ~calm'
  BY Zenon DEF StopServer
<1>3. TypeInv'
  BY <1>1, <1>2 DEF IInv, TypeInv
<1>4. TraceInv'
  BY <1>1 DEF IInv, TraceInv
<1>5. ServerInv' /\ PassInv' /\ HealthyInv'
  BY <1>1, <1>2 DEF IInv, ServerInv, PassInv, HealthyInv
<1> QED
  BY <1>3, <1>4, <1>5 DEF IInv

LEMMA MachineChangesStep == ASSUME IInv, MachineChanges PROVE IInv'
<1>1. UNCHANGED <<loads, forwarding, probes, check, server, sinks, allOpened, made>>
  BY Zenon DEF MachineChanges
<1>2. calm' \in BOOLEAN /\ ~calm'
  BY Zenon DEF MachineChanges
<1>3. resolves' \in BOOLEAN
  BY Zenon DEF MachineChanges, IInv, TypeInv
<1>4. dir' \in [Dirs -> DirStates]
  <2>1. UNCHANGED dir \/ \E d \in Dirs, s \in DirStates : dir' = [dir EXCEPT ![d] = s]
    BY Zenon DEF MachineChanges
  <2> QED
    BY <2>1 DEF IInv, TypeInv
<1>5. /\ disk' \in [Files -> FileStates] /\ removed \subseteq removed'
      /\ \A f \in Files : Checking /\ disk'[f] = "absent" => disk[f] = "absent" \/ f \in removed'
      /\ \A d \in Dirs : Checking /\ dir'[d] \in Gone => dir[d] \in Gone \/ d \in removed'
  <2>1. CASE UNCHANGED <<disk, removed, dir>>
    BY <2>1 DEF IInv, TypeInv
  <2>2. CASE /\ UNCHANGED dir
             /\ \E f \in Files :
                  \/ /\ disk' = [disk EXCEPT ![f] = "absent"]
                     /\ removed' = IF Checking THEN removed \cup {f} ELSE removed
                  \/ disk' = [disk EXCEPT ![f] = "readonly"] /\ UNCHANGED removed
    BY <2>2 DEF IInv, TypeInv, FileStates
  <2>3. CASE /\ UNCHANGED disk
             /\ \E d \in Dirs, s \in DirStates :
                  /\ dir' = [dir EXCEPT ![d] = s]
                  /\ removed' = IF Checking /\ s \in Gone THEN removed \cup {d} ELSE removed
    BY <2>3 DEF IInv, TypeInv
  <2> QED
    BY <2>1, <2>2, <2>3, Zenon DEF MachineChanges
<1>6. holder' = "service" <=> holder = "service"
  BY DEF MachineChanges
<1>7. TypeInv'
  BY <1>1, <1>2, <1>3, <1>4, <1>5 DEF IInv, TypeInv
<1>8. TraceInv'
  <2>1. ASSUME check.pc = "append", NEW f \in check.at, disk'[f] = "absent"
        PROVE  f \in removed'
    BY <1>5, <2>1 DEF IInv, TypeInv, TraceInv, Checking
  <2>2. ASSUME check.pc = "remove", NEW d \in check.at, dir'[d] \in Gone
        PROVE  d \in removed'
    BY <1>5, <2>2 DEF IInv, TypeInv, TraceInv, Checking
  <2> QED
    BY <1>1, <1>5, <2>1, <2>2 DEF IInv, TraceInv
<1>9. ServerInv' /\ PassInv' /\ HealthyInv'
  BY <1>1, <1>2, <1>6 DEF IInv, ServerInv, PassInv, HealthyInv
<1> QED
  BY <1>7, <1>8, <1>9 DEF IInv

\* Every step keeps the inductive invariant.
LEMMA IInvStep == IInv /\ [Next]_vars => IInv'
<1> SUFFICES ASSUME IInv, [Next]_vars
             PROVE  IInv'
  OBVIOUS
<1>1. CASE Check
  BY <1>1, BeginStep, LoadConfigStep, CheckExistingFileStep, OpenExistingStep, CheckDirectoryStep,
     RemoveProbeStep, CheckBindStep, UnbindStep, CheckForwardingStep DEF Check
<1>2. CASE Server
  BY <1>2, StartServerStep, OpenSinkStep, SinksOpenedStep, BindStep, StopServerStep DEF Server
<1>3. CASE UNCHANGED vars
  BY <1>3
  DEF vars, IInv, TypeInv, TraceInv, ServerInv, PassInv, HealthyInv, FoundInv, SoFarInv, PortInv,
      Examined, Exists, Creatable, Healthy, Checking, Failed
<1> QED
  BY <1>1, <1>2, <1>3, MachineChangesStep DEF Next

\* The inductive invariant holds.
LEMMA IInvAlways == Spec => []IInv
BY InitIInv, IInvStep, PTL DEF Spec
-----------------------------------------------------------------------------
(***************************************************************************)
(* The theorems.                                                           *)
(***************************************************************************)

\* What preflight() has passed, runServer() starts, as long as nothing has
\* changed since the check began and the port was free to be tried.
THEOREM PassMeansStartsAlways == Spec => []PassMeansStarts
<1>1. IInv => PassMeansStarts
  BY DEF IInv, PassInv, PortInv, Passed, PassMeansStarts
<1> QED
  BY <1>1, IInvAlways, PTL

\* preflight() finds no error on a machine that is healthy, though the service
\* holds the port while it runs.
THEOREM HealthyPassesAlways == Spec => []HealthyPasses
<1>1. IInv => HealthyPasses
  BY DEF IInv, HealthyInv, Healthy, HealthyPasses
<1> QED
  BY <1>1, IInvAlways, PTL

\* preflight() leaves neither a probe file without a warning, but in a directory
\* that was taken away meanwhile, nor a log file it created, but in the place
\* of one removed between its look and its open.
THEOREM LeavesNothingAlways == Spec => []LeavesNothing
<1>1. IInv => LeavesNothing
  BY DEF IInv, TraceInv, LeavesNothing
<1> QED
  BY <1>1, IInvAlways, PTL
=============================================================================
