--------------------------- MODULE LogFileProofs ---------------------------
(***************************************************************************)
(* Proofs about the sink of module LogFile, for every number of files,     *)
(* every record size, max_size, max_files, probe cap and every set of      *)
(* hazards a theorem does not exclude; and, at the end, about the reports  *)
(* of its outages and of the receive socket (module Reports).              *)
(***************************************************************************)
EXTENDS LogFile, Reports, TLAPS

(***************************************************************************)
(* Control: what the program counter says about the rest of the state.     *)
(***************************************************************************)

\* The loop that deletes generations runs only while there is one to delete,
\* a handler is under way exactly while the strand is busy, only on a sink in
\* service, and each step belongs to the handlers that contain it.
Control ==
    /\ pc = "remove" => maxFiles > 0 /\ n >= maxFiles
    /\ pc = "idle" <=> job = "none"
    /\ pc # "idle" => up /\ ~closed
    /\ closed => up
    /\ pc = "check" => i = 1
    /\ retry # "idle" => up
    /\ pc \in {"check", "probe", "remove", "shift", "write"} => job = "write"
    /\ pc = "recovered" => job = "reopen"
    /\ shuttingDown => job = "none" /\ closed /\ up

LEMMA FileValues == NoFile \in Content /\ EmptyFile \in Content
BY DEF NoFile, EmptyFile, Content

LEMMA GenValues == 0 \in 0..Cap /\ 0 \in Gens /\ 1 \in Gens /\ 1 \in Files
                   /\ \A g \in 0..Cap : g \in Gens /\ g + 1 \in Gens
BY CapAssumption, FilesAssumption DEF Gens, Files

\* Replacing one file of the disk by a file keeps the type of the disk.
LEMMA DiskUpdate ==
    ASSUME NEW d \in [Files -> [Gens -> Content]],
           NEW f \in Files, NEW g \in Gens, NEW c \in Content
    PROVE  [d EXCEPT ![f][g] = c] \in [Files -> [Gens -> Content]]
OBVIOUS

\* Opening a file leaves the disk alone, or creates the active file.
LEMMA OpenFileEffect ==
    ASSUME TypeOK, OpenFile
    PROVE  \/ disk[i][0].there /\ disk' = disk
           \/ ~disk[i][0].there /\ disk' = [disk EXCEPT ![i][0] = EmptyFile]
  BY GenValues DEF OpenFile, Opened, TypeOK

\* What Append leaves on disk is a file.
LEMMA AppendType ==
    ASSUME TypeOK, NEW b \in Nat, Append(b)
    PROVE  disk' \in [Files -> [Gens -> Content]]
<1> DEFINE old == disk[i][0]
           new == [there |-> TRUE,
                   recs |-> IF b = LineSize[i] THEN old.recs \cup {cur} ELSE old.recs,
                   size |-> old.size + b]
<1>1. old \in Content
  BY GenValues DEF TypeOK
<1>2. new \in Content
  <2>1. old.recs \subseteq Nat /\ old.size \in Nat
    BY <1>1 DEF Content
  <2>2. cur \in Nat
    BY DEF TypeOK
  <2>3. (IF b = LineSize[i] THEN old.recs \cup {cur} ELSE old.recs) \in SUBSET Nat
    BY <2>1, <2>2
  <2>4. old.size + b \in Nat
    BY <2>1
  <2> QED
    BY <2>3, <2>4 DEF Content
<1>3. disk' = [disk EXCEPT ![i][0] = new]
  BY DEF Append
<1> HIDE DEF new
<1> QED
  BY <1>2, <1>3, GenValues, DiskUpdate DEF TypeOK

LEMMA CloseFilesType ==
    CloseFiles => isOpen' \in [Files -> BOOLEAN] /\ mSize' \in [Files -> Nat]
BY DEF CloseFiles

\* The ways a handler or the process ends early keep the types.
LEMMA HaltType ==
    ASSUME TypeOK, Halt, UNCHANGED <<maxFiles, fault, next>>,
           disk' \in [Files -> [Gens -> Content]]
    PROVE  TypeOK' /\ Control'
BY CloseFilesType, GenValues DEF TypeOK, Control, Halt, EndHandler

LEMMA FailSinkType ==
    ASSUME TypeOK, Control, FailSink, pc # "idle",
           UNCHANGED <<maxFiles, fault, next>>,
           disk' \in [Files -> [Gens -> Content]]
    PROVE  TypeOK' /\ Control'
<1>1. CASE job = "startup"
  BY <1>1, HaltType DEF FailSink
<1>2. CASE job # "startup" /\ ~Halt
  <2>1. retry' \in {"idle", "armed", "fired"}
    BY <1>2 DEF FailSink, RetryAfterFailure, TypeOK
  <2>2. up' = up /\ up
    BY <1>2 DEF FailSink, Control
  <2>3. CloseFiles /\ EndHandler /\ closed' = TRUE /\ outage' = TRUE
        /\ shuttingDown' = shuttingDown
    BY <1>2 DEF FailSink
  <2>4. TypeOK'
    BY <2>1, <2>2, <2>3, CloseFilesType, GenValues DEF TypeOK, EndHandler
  <2>5. Control'
    BY <2>2, <2>3 DEF Control, EndHandler
  <2> QED
    BY <2>4, <2>5
<1> QED
  BY <1>1, <1>2, HaltType

\* Every step keeps the types and the control facts.
LEMMA TypeStep ==
    ASSUME TypeOK, Control, [Next]_vars
    PROVE  TypeOK' /\ Control'
<1> USE GenValues
<1>1. CASE Start
  BY <1>1, MaxFilesAssumption
  DEF Start, TypeOK, Control, stream, sink
<1>2. CASE Close
  BY <1>2, CloseFilesType DEF Close, CancelRetry, TypeOK, Control, strand, process
<1>3. CASE Exit
  BY <1>3, HaltType DEF Exit, TypeOK
<1>4. ASSUME NEW malformed \in BOOLEAN, Write(malformed)
      PROVE  TypeOK' /\ Control'
  BY <1>4 DEF Write, TypeOK, Control, strand, stream, sink, process
<1>5. CASE RotateIfNeeded
  BY <1>5, CloseFilesType DEF RotateIfNeeded, TypeOK, Control, stream, sink, process
<1>6. CASE Probe
  <2>1. ProbeLimit \in 0..Cap
    BY MaxFilesAssumption, CapAssumption DEF ProbeLimit, TypeOK
  <2>2. n' \in 0..Cap
    BY <1>6, <2>1, CapAssumption DEF Probe
  <2> QED
    BY <1>6, <2>2 DEF Probe, ChainFull, TypeOK, Control, stream, sink, process
<1>7. CASE Remove
  <2>1. maxFiles \in 0..Cap
    BY MaxFilesAssumption DEF TypeOK
  <2>2. n - 1 \in 0..Cap
    BY <1>7, <2>1, CapAssumption DEF Remove, TypeOK, Control
  <2>3. disk' \in [Files -> [Gens -> Content]]
    BY <1>7, DiskUpdate, FileValues DEF Remove, TypeOK
  <2> QED
    BY <1>7, <2>1, <2>2, <2>3 DEF Remove, TypeOK, Control, stream, sink, process
<1>8. CASE Shift
  <2>1. disk' \in [Files -> [Gens -> Content]]
    <3> DEFINE d == [disk EXCEPT ![i][n] = NoFile]
    <3>1. disk[i][n] \in Content
      BY DEF TypeOK
    <3>2. d \in [Files -> [Gens -> Content]]
      BY DiskUpdate, FileValues DEF TypeOK
    <3>3. [d EXCEPT ![i][n + 1] = disk[i][n]] \in [Files -> [Gens -> Content]]
      <4> HIDE DEF d
      <4> QED BY <3>1, <3>2, DiskUpdate DEF TypeOK
    <3> QED
      BY <1>8, <3>3 DEF Shift, RotatedTo, TypeOK
  <2>2. n' \in 0..Cap
    BY <1>8, CapAssumption DEF Shift, ShiftDone, TypeOK
  <2>3. i' \in Files
    BY <1>8, FilesAssumption DEF Shift, ShiftDone, TypeOK, Files
  <2> QED
    BY <1>8, <2>1, <2>2, <2>3 DEF Shift, ShiftDone, TypeOK, Control, stream, sink, process
<1>9. CASE OpenFile
  <2>1. disk' \in [Files -> [Gens -> Content]]
    <3>1. disk \in [Files -> [Gens -> Content]] /\ i \in Files
      BY DEF TypeOK
    <3>2. [disk EXCEPT ![i][0] = EmptyFile] \in [Files -> [Gens -> Content]]
      BY <3>1, DiskUpdate, FileValues
    <3> QED
      BY <1>9, <3>1, <3>2, OpenFileEffect
  <2>2. LengthWhenOpened(i) \in Nat
    BY DEF TypeOK, LengthWhenOpened, Content
  <2>3. i' \in Files
    BY <1>9, FilesAssumption DEF OpenFile, TypeOK, Files, EndHandler
  <2> QED
    BY <1>9, <2>1, <2>2, <2>3
    DEF OpenFile, EndHandler, TypeOK, Control, sink, process
<1>10. CASE Recovered
  BY <1>10 DEF Recovered, EndHandler, TypeOK, Control, stream, process
<1>11. CASE WriteFile
  <2>1. LineSize[i] \in Nat
    BY SizesAssumption DEF TypeOK
  <2>2. disk' \in [Files -> [Gens -> Content]]
    BY <1>11, <2>1, AppendType DEF WriteFile
  <2>3. i' \in Files
    BY <1>11, FilesAssumption DEF WriteFile, TypeOK, Files, EndHandler
  <2>4. mSize' \in [Files -> Nat]
    BY <1>11, <2>1 DEF WriteFile, TypeOK
  <2> QED
    BY <1>11, <2>2, <2>3, <2>4
    DEF WriteFile, EndHandler, TypeOK, Control, sink, process
<1>12. CASE WriteFails
  <2>1. disk' \in [Files -> [Gens -> Content]]
    BY <1>12, AppendType, SizesAssumption DEF WriteFails, TypeOK
  <2> QED
    BY <1>12, <2>1, FailSinkType DEF WriteFails
<1>13. CASE RotationFails
  BY <1>13, FailSinkType DEF RotationFails, TypeOK
<1>14. CASE OpenFails
  <2>1. disk' \in [Files -> [Gens -> Content]]
    <3>1. [disk EXCEPT ![i][0] = EmptyFile] \in [Files -> [Gens -> Content]]
      BY DiskUpdate, FileValues DEF TypeOK
    <3> QED
      BY <1>14, <3>1 DEF OpenFails, TypeOK
  <2> QED
    BY <1>14, <2>1, FailSinkType DEF OpenFails
<1>15. CASE Throw
  BY <1>15, FailSinkType DEF Throw, TypeOK
<1>16. CASE ThrowTwice
  BY <1>16, CloseFilesType DEF ThrowTwice, EndHandler, TypeOK, Control, stream, process
<1>17. CASE RetryExpires
  BY <1>17 DEF RetryExpires, TypeOK, Control, strand, stream, process
<1>18. CASE RetryHandler
  BY <1>18 DEF RetryHandler, TypeOK, Control, strand, stream, process
<1>19. CASE Crash
  <2>1. disk' \in [Files -> [Gens -> Content]]
    BY <1>19, AppendType, SizesAssumption DEF Crash, TypeOK
  <2> QED
    BY <1>19, <2>1, HaltType DEF Crash
<1>20. CASE FaultChanges
  BY <1>20 DEF FaultChanges, TypeOK, Control, strand, stream, sink, process
<1>21. CASE DeleteGeneration
  <2>1. disk' \in [Files -> [Gens -> Content]]
    BY <1>21, DiskUpdate, FileValues DEF DeleteGeneration, TypeOK
  <2> QED
    BY <1>21, <2>1 DEF DeleteGeneration, TypeOK, Control, strand, stream, sink, process
<1>22. CASE UNCHANGED vars
  BY <1>22 DEF vars, TypeOK, Control
<1> QED
  BY <1>1, <1>2, <1>3, <1>4, <1>5, <1>6, <1>7, <1>8, <1>9, <1>10, <1>11,
     <1>12, <1>13, <1>14, <1>15, <1>16, <1>17, <1>18, <1>19, <1>20, <1>21, <1>22
  DEF Next, HandlerStep, Failure, Environment

LEMMA InitType == Init => TypeOK /\ Control
<1> SUFFICES ASSUME Init PROVE TypeOK /\ Control
  OBVIOUS
<1>1. disk \in [Files -> [Gens -> Content]]
  BY FileValues DEF Init
<1>2. isOpen \in [Files -> BOOLEAN] /\ mSize \in [Files -> Nat]
  BY DEF Init
<1>3. Control
  BY DEF Init, Control
<1>4. next \in Nat \ {0} /\ cur \in Nat
  BY DEF Init
<1> QED
  BY <1>1, <1>2, <1>3, <1>4, GenValues DEF Init, TypeOK

\* The types hold in every reachable state: no rotation loop runs past its
\* bounds and no file is addressed outside its chain.
THEOREM TypeCorrect == Spec => []TypeOK
BY InitType, TypeStep, PTL DEF Spec
-----------------------------------------------------------------------------
(***************************************************************************)
(* The order of the chain.                                                 *)
(***************************************************************************)

\* The record a write handler carries is newer than everything in the files
\* it has not reached yet.
CurIsNewest ==
    job \in {"write", "lazyOpen"} =>
        /\ cur < next
        /\ \A f \in Files : (pc = "write" => f >= i) =>
               \A g \in Gens : \A x \in disk[f][g].recs : x < cur

\* ChainOrdered made inductive: no file holds a record that has not been
\* numbered yet, and the record under way is the newest.
OrderInv ==
    /\ ChainOrdered
    /\ \A f \in Files, g \in Gens : \A x \in disk[f][g].recs : x < next
    /\ CurIsNewest

\* A step that takes no record up and adds none to a file.
NothingAdded ==
    /\ \A f \in Files, g \in Gens : disk'[f][g].recs \subseteq disk[f][g].recs
    /\ next' = next
    /\ \/ job' \notin {"write", "lazyOpen"}
       \/ /\ job \in {"write", "lazyOpen"} /\ cur' = cur
          /\ pc = "write" => pc' = "write" /\ i' = i

LEMMA NothingAddedKeepsOrder ==
    ASSUME TypeOK, TypeOK', OrderInv, NothingAdded
    PROVE  OrderInv'
<1> USE DEF NothingAdded
<1>1. ChainOrdered'
  BY DEF OrderInv, ChainOrdered
<1>2. \A f \in Files, g \in Gens : \A x \in disk'[f][g].recs : x < next'
  BY DEF OrderInv
<1>3. CurIsNewest'
  <2> SUFFICES ASSUME job' \in {"write", "lazyOpen"}
               PROVE  /\ cur' < next'
                      /\ \A f \in Files : (pc' = "write" => f >= i') =>
                            \A g \in Gens : \A x \in disk'[f][g].recs : x < cur'
    BY DEF CurIsNewest
  <2>1. cur' < next'
    BY DEF OrderInv, CurIsNewest
  <2>2. ASSUME NEW f \in Files, pc' = "write" => f >= i', NEW g \in Gens,
               NEW x \in disk'[f][g].recs
        PROVE  x < cur'
    <3>1. pc = "write" => f >= i
      <4>1. f \in Int /\ i \in Int /\ i' \in Int
        BY FilesAssumption DEF TypeOK, Files
      <4> QED
        BY <2>2, <4>1
    <3> QED
      BY <2>2, <3>1 DEF OrderInv, CurIsNewest
  <2> QED
    BY <2>1, <2>2
<1> QED
  BY <1>1, <1>2, <1>3 DEF OrderInv

\* Renaming a generation to the next number keeps the order of the chain.
LEMMA ShiftKeepsOrder ==
    ASSUME TypeOK, TypeOK', Control, OrderInv, Shift
    PROVE  OrderInv'
<1> USE GenValues
<1>1. /\ n \in 0..Cap /\ n \in Gens /\ n + 1 \in Gens /\ i \in Files
      /\ disk \in [Files -> [Gens -> Content]]
  BY DEF TypeOK
<1>2. /\ job' = job /\ cur' = cur /\ next' = next /\ pc = "shift"
      /\ pc' # "write"
  BY DEF Shift, ShiftDone
<1>3. CASE ~disk[i][n].there
  BY <1>2, <1>3, NothingAddedKeepsOrder DEF Shift, NothingAdded, Control, TypeOK
<1>4. CASE disk[i][n].there
  <2>1. disk' = [disk EXCEPT ![i][n] = NoFile, ![i][n + 1] = disk[i][n]]
    BY <1>4 DEF Shift, RotatedTo
  <2>2. /\ disk'[i][n].recs = {}
        /\ disk'[i][n + 1].recs = disk[i][n].recs
    BY <1>1, <2>1 DEF NoFile
  <2>3. \A f \in Files, g \in Gens :
            ~(f = i /\ g \in {n, n + 1}) => disk'[f][g].recs = disk[f][g].recs
    BY <1>1, <2>1
  <2>4. ChainOrdered'
    <3> SUFFICES ASSUME NEW f \in Files, NEW a \in Gens, NEW b \in Gens, a < b,
                        NEW x \in disk'[f][a].recs, NEW y \in disk'[f][b].recs
                 PROVE  y < x
      BY DEF ChainOrdered
    <3>1. CASE f # i
      BY <2>3, <3>1 DEF OrderInv, ChainOrdered
    <3>2. CASE f = i
      <4>1. a # n /\ b # n
        BY <2>2, <3>2
      <4>2. CASE a = n + 1
        BY <1>1, <2>2, <2>3, <3>2, <4>1, <4>2 DEF OrderInv, ChainOrdered, Gens
      <4>3. CASE b = n + 1
        BY <1>1, <2>2, <2>3, <3>2, <4>1, <4>3 DEF OrderInv, ChainOrdered, Gens
      <4>4. CASE a # n + 1 /\ b # n + 1
        BY <2>3, <3>2, <4>1, <4>4 DEF OrderInv, ChainOrdered
      <4> QED
        BY <4>2, <4>3, <4>4
    <3> QED
      BY <3>1, <3>2
  <2>5. \A f \in Files, g \in Gens : \A x \in disk'[f][g].recs :
            \E h \in Gens : x \in disk[f][h].recs
    BY <1>1, <2>2, <2>3
  <2>6. CurIsNewest'
    BY <1>2, <2>5 DEF OrderInv, CurIsNewest, Control
  <2> QED
    BY <1>2, <2>4, <2>5, <2>6 DEF OrderInv
<1> QED
  BY <1>3, <1>4

\* Appending the record under way to the active file keeps the order.
LEMMA WriteKeepsOrder ==
    ASSUME TypeOK, TypeOK', Control, OrderInv, WriteFile
    PROVE  OrderInv'
<1> USE GenValues
<1>1. /\ i \in Files /\ disk \in [Files -> [Gens -> Content]]
      /\ pc = "write" /\ job = "write" /\ next' = next
  BY DEF TypeOK, WriteFile, Control
<1>2. /\ disk'[i][0].recs = disk[i][0].recs \cup {cur}
      /\ \A f \in Files, g \in Gens :
            ~(f = i /\ g = 0) => disk'[f][g].recs = disk[f][g].recs
  BY <1>1 DEF WriteFile, Append
<1>3. /\ cur < next
      /\ \A g \in Gens : \A x \in disk[i][g].recs : x < cur
  <2>1. i >= i
    BY <1>1, FilesAssumption DEF Files
  <2> QED
    BY <1>1, <2>1 DEF OrderInv, CurIsNewest
<1>4. ChainOrdered'
  <2> SUFFICES ASSUME NEW f \in Files, NEW a \in Gens, NEW b \in Gens, a < b,
                      NEW x \in disk'[f][a].recs, NEW y \in disk'[f][b].recs
               PROVE  y < x
    BY DEF ChainOrdered
  <2>1. b # 0
    BY CapAssumption DEF Gens
  <2>2. y \in disk[f][b].recs
    BY <1>2, <2>1
  <2>3. CASE x \in disk[f][a].recs
    BY <2>2, <2>3 DEF OrderInv, ChainOrdered
  <2>4. CASE x \notin disk[f][a].recs
    <3>1. f = i /\ x = cur
      BY <1>2, <2>4
    <3> QED
      BY <1>3, <2>2, <3>1
  <2> QED
    BY <2>3, <2>4
<1>5. \A f \in Files, g \in Gens : \A x \in disk'[f][g].recs : x < next'
  BY <1>1, <1>2, <1>3 DEF OrderInv
<1>6. CurIsNewest'
  <2>1. CASE i < NumFiles
    <3>1. i' = i + 1 /\ UNCHANGED <<job, pc, cur>>
      BY <2>1 DEF WriteFile
    <3>2. ASSUME NEW f \in Files, f >= i'
          PROVE  f # i /\ f >= i
      BY <1>1, <3>1, <3>2, FilesAssumption DEF Files
    <3> QED
      BY <1>1, <1>2, <1>3, <3>1, <3>2 DEF OrderInv, CurIsNewest
  <2>2. CASE ~(i < NumFiles)
    BY <2>2 DEF WriteFile, EndHandler, CurIsNewest
  <2> QED
    BY <2>1, <2>2
<1> QED
  BY <1>4, <1>5, <1>6 DEF OrderInv

\* A message taken up by doWrite() gets the next number.
LEMMA TakeUpKeepsOrder ==
    ASSUME TypeOK, TypeOK', Control, OrderInv, NEW malformed \in BOOLEAN,
           Write(malformed)
    PROVE  OrderInv'
<1>1. disk' = disk /\ next' = next + 1 /\ next \in Nat /\ pc = "idle"
  BY DEF Write, TypeOK
<1>2. \A f \in Files, g \in Gens : \A x \in disk[f][g].recs : x < next /\ x \in Nat
  BY DEF OrderInv, TypeOK, Content
<1>3. ChainOrdered'
  BY <1>1 DEF OrderInv, ChainOrdered
<1>4. \A f \in Files, g \in Gens : \A x \in disk'[f][g].recs : x < next'
  BY <1>1, <1>2
<1>5. CurIsNewest'
  <2>1. CASE closed \/ (malformed /\ ~IncludeMalformed)
    <3>1. job' = "none"
      BY <1>1, <2>1 DEF Write, strand, Control
    <3> QED
      BY <3>1 DEF CurIsNewest
  <2>2. CASE ~(closed \/ (malformed /\ ~IncludeMalformed))
    <3>1. cur' = next
      BY <2>2 DEF Write
    <3> QED
      BY <1>1, <1>2, <3>1 DEF CurIsNewest
  <2> QED
    BY <2>1, <2>2
<1> QED
  BY <1>3, <1>4, <1>5 DEF OrderInv

\* A step that fails or ends the process adds no record.
LEMMA PartialAppendAddsNothing ==
    ASSUME TypeOK, NEW b \in Nat, b < LineSize[i], Append(b)
    PROVE  \A f \in Files, g \in Gens : disk'[f][g].recs \subseteq disk[f][g].recs
<1>1. i \in Files /\ disk \in [Files -> [Gens -> Content]] /\ LineSize[i] \in Nat
  BY SizesAssumption DEF TypeOK
<1>2. b # LineSize[i]
  BY <1>1
<1> QED
  BY <1>1, <1>2, GenValues DEF Append

LEMMA EmptyFileAddsNothing ==
    ASSUME TypeOK, NEW f0 \in Files, NEW g0 \in Gens,
           \/ disk' = [disk EXCEPT ![f0][g0] = NoFile]
           \/ disk' = [disk EXCEPT ![f0][g0] = EmptyFile]
    PROVE  \A f \in Files, g \in Gens : disk'[f][g].recs \subseteq disk[f][g].recs
BY DEF TypeOK, NoFile, EmptyFile

LEMMA OrderStep ==
    ASSUME TypeOK, Control, TypeOK', OrderInv, [Next]_vars
    PROVE  OrderInv'
<1> DEFINE Shrinks == \A f \in Files, g \in Gens :
                          disk'[f][g].recs \subseteq disk[f][g].recs
           Leaves == job' \notin {"write", "lazyOpen"}
<1> USE GenValues
<1>1. CASE Shift
  BY <1>1, ShiftKeepsOrder
<1>2. CASE WriteFile
  BY <1>2, WriteKeepsOrder
<1>3. CASE \E malformed \in BOOLEAN : Write(malformed)
  BY <1>3, TakeUpKeepsOrder
<1>4. CASE Start \/ Close \/ Exit
  <2>1. Shrinks /\ next' = next
    BY <1>4 DEF Start, Close, Exit
  <2>2. Leaves
    BY <1>4 DEF Start, Close, Exit, Halt, EndHandler, strand, Control
  <2> QED
    BY <2>1, <2>2, NothingAddedKeepsOrder DEF NothingAdded
<1>5. CASE RotateIfNeeded \/ Probe
  BY <1>5, NothingAddedKeepsOrder
  DEF RotateIfNeeded, Probe, NothingAdded, Control
<1>6. CASE Remove
  BY <1>6, NothingAddedKeepsOrder, EmptyFileAddsNothing
  DEF Remove, NothingAdded, Control, TypeOK
<1>7. CASE OpenFile
  <2>1. Shrinks
    BY <1>7, EmptyFileAddsNothing, OpenFileEffect DEF TypeOK
  <2>2. next' = next /\ pc = "open"
    BY <1>7 DEF OpenFile
  <2>3. Leaves \/ (job \in {"write", "lazyOpen"} /\ cur' = cur)
    BY <1>7 DEF OpenFile, EndHandler, Control, TypeOK
  <2> QED
    BY <2>1, <2>2, <2>3, NothingAddedKeepsOrder DEF NothingAdded
<1>8. CASE Recovered
  BY <1>8, NothingAddedKeepsOrder DEF Recovered, EndHandler, NothingAdded
<1>9. CASE Failure
  <2>1. next' = next
    BY <1>9 DEF Failure, WriteFails, RotationFails, OpenFails, Throw, ThrowTwice
  <2>2. Leaves
    BY <1>9 DEF Failure, WriteFails, RotationFails, OpenFails, Throw, ThrowTwice,
                FailSink, Halt, EndHandler
  <2>3. Shrinks
    <3>1. CASE WriteFails
      <4>1. PICK b \in 0..(LineSize[i] - 1) : Append(b)
        BY <3>1 DEF WriteFails
      <4>2. LineSize[i] \in Nat
        BY SizesAssumption DEF TypeOK
      <4>3. b \in Nat /\ b < LineSize[i]
        BY <4>2
      <4> QED
        BY <4>1, <4>3, PartialAppendAddsNothing
    <3>2. CASE OpenFails
      BY <3>2, EmptyFileAddsNothing DEF OpenFails, TypeOK
    <3>3. CASE RotationFails \/ Throw \/ ThrowTwice
      BY <3>3 DEF RotationFails, Throw, ThrowTwice
    <3> QED
      BY <1>9, <3>1, <3>2, <3>3 DEF Failure
  <2> QED
    BY <2>1, <2>2, <2>3, NothingAddedKeepsOrder DEF NothingAdded
<1>10. CASE RetryExpires
  BY <1>10, NothingAddedKeepsOrder
  DEF RetryExpires, NothingAdded, strand
<1>11. CASE RetryHandler
  <2>1. Leaves
    BY <1>11 DEF RetryHandler, Control, strand
  <2> QED
    BY <1>11, <2>1, NothingAddedKeepsOrder DEF RetryHandler, NothingAdded
<1>12. CASE Crash
  <2>1. Shrinks
    <3>1. CASE UNCHANGED disk
      BY <3>1
    <3>2. CASE \E b \in 1..(LineSize[i] - 1) : Append(b)
      <4>1. PICK b \in 1..(LineSize[i] - 1) : Append(b)
        BY <3>2
      <4>2. LineSize[i] \in Nat
        BY SizesAssumption DEF TypeOK
      <4>3. b \in Nat /\ b < LineSize[i]
        BY <4>2
      <4> QED
        BY <4>1, <4>3, PartialAppendAddsNothing
    <3> QED
      BY <1>12, <3>1, <3>2 DEF Crash
  <2> QED
    BY <1>12, <2>1, NothingAddedKeepsOrder
    DEF Crash, Halt, EndHandler, NothingAdded
<1>13. CASE FaultChanges
  BY <1>13, NothingAddedKeepsOrder DEF FaultChanges, NothingAdded, strand
<1>14. CASE DeleteGeneration
  <2>1. Shrinks
    BY <1>14, EmptyFileAddsNothing DEF DeleteGeneration, TypeOK
  <2> QED
    BY <1>14, <2>1, NothingAddedKeepsOrder DEF DeleteGeneration, NothingAdded, strand
<1>15. CASE UNCHANGED vars
  BY <1>15, NothingAddedKeepsOrder DEF vars, NothingAdded
<1> QED
  BY <1>1, <1>2, <1>3, <1>4, <1>5, <1>6, <1>7, <1>8, <1>9, <1>10, <1>11,
     <1>12, <1>13, <1>14, <1>15 DEF Next, HandlerStep, Environment

\* Every generation is newer than the ones with a higher number, in every
\* reachable state: between the renames of a rotation, after one that failed
\* or was cut off by a crash, after a lowered max_files and with generations
\* deleted by hand.
THEOREM ChainStaysOrdered == Spec => []ChainOrdered
<1> DEFINE Inv == TypeOK /\ Control /\ OrderInv
<1>1. Init => Inv
  <2> SUFFICES ASSUME Init PROVE Inv
    OBVIOUS
  <2>1. \A f \in Files, g \in Gens : disk[f][g].recs = {}
    BY DEF Init, NoFile
  <2>2. OrderInv
    BY <2>1 DEF OrderInv, ChainOrdered, CurIsNewest, Init
  <2> QED
    BY <2>2, InitType
<1>2. Inv /\ [Next]_vars => Inv'
  BY TypeStep, OrderStep
<1>3. Inv => ChainOrdered
  BY DEF OrderInv
<1> QED
  BY <1>1, <1>2, <1>3, PTL DEF Spec
-----------------------------------------------------------------------------
(***************************************************************************)
(* Recovery: a closed sink always has its retry coming.                    *)
(***************************************************************************)

\* RetryPending made inductive: a process that is not running has no outage
\* and no retry.
RecoveryInv ==
    /\ RetryPending
    /\ ~up => ~outage

LEMMA RecoveryStep ==
    ASSUME "alloc" \notin Hazards, TypeOK, Control, RecoveryInv, [Next]_vars
    PROVE  RecoveryInv'
<1> USE DEF RecoveryInv, RetryPending
<1>0. pc # "idle" => up /\ ~shuttingDown
  BY DEF Control
<1>1. ASSUME Halt PROVE RecoveryInv'
  BY <1>1 DEF Halt, EndHandler
<1>2. ASSUME FailSink, pc # "idle" PROVE RecoveryInv'
  <2>1. CASE job = "startup"
    BY <1>1, <1>2, <2>1 DEF FailSink
  <2>2. CASE job # "startup"
    <3>1. up /\ ~shuttingDown
      BY <1>2 DEF Control
    <3>2. /\ closed' = TRUE /\ outage' = TRUE /\ UNCHANGED <<up, shuttingDown>>
          /\ retry' = RetryAfterFailure
      BY <1>2, <2>2 DEF FailSink
    <3>3. retry' = "armed"
      BY <3>1, <3>2 DEF RetryAfterFailure
    <3> QED
      BY <3>1, <3>2, <3>3
  <2> QED
    BY <2>1, <2>2
<1>3. CASE Start
  BY <1>3 DEF Start, sink, Control
<1>4. CASE Close
  <2>1. up' /\ shuttingDown' /\ retry' # "armed" /\ closed' /\ UNCHANGED <<up, outage>>
    BY <1>4 DEF Close, CancelRetry, process, TypeOK
  <2>2. \A f \in Files : ~isOpen'[f]
    BY <1>4 DEF Close, CloseFiles
  <2> QED
    BY <2>1, <2>2
<1>5. CASE Exit \/ Crash
  BY <1>1, <1>5 DEF Exit, Crash
<1>6. ASSUME NEW malformed \in BOOLEAN, Write(malformed)
      PROVE  RecoveryInv'
  <2>1. /\ UNCHANGED <<closed, outage, retry, shuttingDown, up>>
        /\ job' # "reopen" /\ job = "none"
    BY <1>6 DEF Write, sink, process, strand, Control
  <2>2. pc' # "idle" => ~closed
    BY <1>6 DEF Write, strand
  <2>3. UNCHANGED isOpen
    BY <1>6 DEF Write, stream
  <2> QED
    BY <2>1, <2>2, <2>3
<1>7. CASE RotateIfNeeded \/ Probe \/ Remove \/ Shift
  BY <1>0, <1>7 DEF RotateIfNeeded, Probe, Remove, Shift, sink, process
<1>8. CASE OpenFile
  <2>1. UNCHANGED <<closed, outage, retry, shuttingDown, up>> /\ pc = "open"
    BY <1>8 DEF OpenFile, sink, process
  <2>2. job' = "reopen" <=> job = "reopen"
    BY <1>8 DEF OpenFile, EndHandler, TypeOK
  <2> QED
    BY <1>0, <2>1, <2>2
<1>9. CASE Recovered
  BY <1>0, <1>9 DEF Recovered, EndHandler, process, Control
<1>10. CASE WriteFile
  <2>1. UNCHANGED <<closed, outage, retry, shuttingDown, up>> /\ pc = "write"
    BY <1>10 DEF WriteFile, sink, process
  <2>2. job = "write" /\ job' # "reopen"
    BY <1>10 DEF WriteFile, EndHandler, Control
  <2> QED
    BY <1>0, <2>1, <2>2
<1>11. CASE WriteFails \/ RotationFails \/ OpenFails
  BY <1>2, <1>11 DEF WriteFails, RotationFails, OpenFails
<1>12. CASE Throw \/ ThrowTwice
  BY <1>12 DEF Throw, ThrowTwice
<1>13. CASE RetryExpires
  BY <1>13 DEF RetryExpires, strand, stream, process, Control
<1>14. CASE RetryHandler
  BY <1>14 DEF RetryHandler, strand, stream, process, Control
<1>15. CASE FaultChanges \/ DeleteGeneration
  BY <1>15 DEF FaultChanges, DeleteGeneration, strand, stream, sink, process
<1>16. CASE UNCHANGED vars
  BY <1>16 DEF vars
<1> QED
  BY <1>3, <1>4, <1>5, <1>6, <1>7, <1>8, <1>9, <1>10, <1>11, <1>12, <1>13,
     <1>14, <1>15, <1>16 DEF Next, HandlerStep, Failure, Environment

\* As long as no allocation fails inside a handler, a sink is closed exactly
\* while a retry is pending, and counts an outage exactly then: no failure of
\* the storage and no crash leaves it closed for good.  After close() no retry
\* timer is pending and no file is opened again.
THEOREM RetryAlwaysPending ==
    ASSUME "alloc" \notin Hazards
    PROVE  Spec => []RetryPending
<1> DEFINE Inv == TypeOK /\ Control /\ RecoveryInv
<1>1. Init => Inv
  <2>1. Init => RecoveryInv
    BY DEF Init, RecoveryInv, RetryPending
  <2> QED
    BY <2>1, InitType
<1>2. Inv /\ [Next]_vars => Inv'
  BY TypeStep, RecoveryStep
<1>3. Inv => RetryPending
  BY DEF RecoveryInv
<1> QED
  BY <1>1, <1>2, <1>3, PTL DEF Spec
-----------------------------------------------------------------------------
(***************************************************************************)
(* Sizes: the counters a rotation is decided on are the lengths on disk.   *)
(***************************************************************************)

Counted(f) == isOpen[f] /\ mSize[f] = disk[f][0].size

\* The counters are right wherever a handler relies on them: all of them
\* outside openFiles(), and those of the files it has opened inside it.
CountInv ==
    /\ up /\ ~closed /\ pc \in {"idle", "check", "write", "recovered"} =>
           \A f \in Files : Counted(f)
    /\ pc = "open" => \A f \in Files : f < i => Counted(f)

\* A rotation leaves active files of length 0 behind it, and a record is only
\* written to a file that has not reached the limit.
LimitInv ==
    /\ \A f \in Files, g \in Gens :
           ~disk[f][g].there => disk[f][g].recs = {} /\ disk[f][g].size = 0
    /\ SizeBounded
    /\ MaxSize # 0 =>
        /\ pc \in {"probe", "remove", "shift"} =>
               \A f \in Files : f < i => disk[f][0].size = 0
        /\ pc = "open" /\ job = "write" => \A f \in Files : disk[f][0].size = 0
        /\ pc = "write" => \A f \in Files : f >= i => disk[f][0].size < MaxSize

LEMMA CountStep ==
    ASSUME TypeOK, Control, CountInv, [Next]_vars, TypeOK', Control'
    PROVE  CountInv'
<1> USE GenValues
<1>1. ASSUME Halt PROVE CountInv'
  BY <1>1 DEF Halt, EndHandler, CountInv
<1>2. ASSUME FailSink PROVE CountInv'
  BY <1>1, <1>2 DEF FailSink, EndHandler, CountInv
<1>3. CASE Start
  BY <1>3, FilesAssumption DEF Start, CountInv, Files
<1>4. CASE Close
  BY <1>4 DEF Close, CountInv, strand
<1>5. CASE Exit \/ Crash
  BY <1>1, <1>5 DEF Exit, Crash
<1>6. ASSUME NEW malformed \in BOOLEAN, Write(malformed)
      PROVE  CountInv'
  <2>1. UNCHANGED <<disk, isOpen, mSize, closed, up>> /\ pc = "idle" /\ up
    BY <1>6 DEF Write, stream, sink, process
  <2>2. CASE closed \/ (malformed /\ ~IncludeMalformed)
    BY <1>6, <2>1, <2>2 DEF Write, strand, CountInv, Counted
  <2>3. CASE ~(closed \/ (malformed /\ ~IncludeMalformed))
    <3>1. \A f \in Files : Counted(f)
      BY <2>1, <2>3 DEF CountInv
    <3>2. pc' = "check"
      BY <1>6, <2>3, <3>1 DEF Write, AllOpen, Counted
    <3> QED
      BY <2>1, <3>1, <3>2 DEF CountInv, Counted
  <2> QED
    BY <2>2, <2>3
<1>7. CASE RotateIfNeeded
  <2>1. CASE OverLimit
    BY <1>7, <2>1 DEF RotateIfNeeded, CountInv
  <2>2. CASE ~OverLimit
    BY <1>7, <2>2 DEF RotateIfNeeded, CountInv, Counted, stream, sink, process
  <2> QED
    BY <2>1, <2>2
<1>8. CASE Probe \/ Remove
  BY <1>8 DEF Probe, Remove, CountInv
<1>9. CASE Shift
  <2>1. pc' \in {"shift", "probe"} \/ (pc' = "open" /\ i' = 1)
    BY <1>9 DEF Shift, ShiftDone
  <2> QED
    BY <2>1, FilesAssumption DEF CountInv, Files
<1>10. CASE OpenFile
  <2>1. i \in Files /\ disk \in [Files -> [Gens -> Content]]
        /\ isOpen \in [Files -> BOOLEAN] /\ mSize \in [Files -> Nat]
    BY DEF TypeOK
  <2>2. \A f \in Files : f < i => Counted(f)
    BY <1>10 DEF OpenFile, CountInv
  <2>3. /\ \A f \in Files : f # i => isOpen'[f] = isOpen[f] /\ mSize'[f] = mSize[f]
                                     /\ disk'[f] = disk[f]
        /\ isOpen'[i] /\ mSize'[i] = disk'[i][0].size
    BY <1>10, <2>1, OpenFileEffect DEF OpenFile, LengthWhenOpened, EmptyFile
  <2>4. \A f \in Files : f <= i => Counted(f)'
    BY <2>1, <2>2, <2>3, FilesAssumption DEF Counted, Files
  <2>5. CASE i < NumFiles
    <3>1. pc' = "open" /\ i' = i + 1
      BY <1>10, <2>5 DEF OpenFile
    <3> QED
      BY <2>1, <2>4, <3>1, FilesAssumption DEF CountInv, Files
  <2>6. CASE ~(i < NumFiles)
    <3>1. pc' # "open"
      BY <1>10, <2>6 DEF OpenFile, EndHandler
    <3>2. \A f \in Files : f <= i
      BY <2>1, <2>6, FilesAssumption DEF Files
    <3> QED
      BY <2>4, <3>1, <3>2 DEF CountInv
  <2> QED
    BY <2>5, <2>6
<1>11. CASE Recovered
  BY <1>11 DEF Recovered, EndHandler, CountInv, Counted, stream, process
<1>12. CASE WriteFile
  <2>1. i \in Files /\ disk \in [Files -> [Gens -> Content]]
        /\ mSize \in [Files -> Nat] /\ pc = "write"
        /\ UNCHANGED <<isOpen, closed, up>>
    BY <1>12 DEF TypeOK, WriteFile, sink, process
  <2>2. /\ \A f \in Files : f # i => mSize'[f] = mSize[f] /\ disk'[f] = disk[f]
        /\ mSize'[i] = mSize[i] + LineSize[i]
        /\ disk'[i][0].size = disk[i][0].size + LineSize[i]
    BY <1>12, <2>1 DEF WriteFile, Append
  <2>3. (\A f \in Files : Counted(f)) => \A f \in Files : Counted(f)'
    BY <2>1, <2>2 DEF Counted
  <2>4. pc' \in {"write", "idle"}
    BY <1>12 DEF WriteFile, EndHandler
  <2> QED
    BY <2>1, <2>3, <2>4 DEF CountInv
<1>13. CASE Failure
  <2>1. CASE ThrowTwice
    BY <2>1 DEF ThrowTwice, EndHandler, CountInv
  <2> QED
    BY <1>2, <1>13, <2>1 DEF Failure, WriteFails, RotationFails, OpenFails, Throw
<1>14. CASE RetryExpires
  BY <1>14 DEF RetryExpires, CountInv, Counted, strand, stream, process
<1>15. CASE RetryHandler
  <2>1. CASE shuttingDown
    BY <1>15, <2>1 DEF RetryHandler, CountInv, Counted, strand, stream, process
  <2>2. CASE ~shuttingDown
    BY <1>15, <2>2, FilesAssumption DEF RetryHandler, CountInv, Files
  <2> QED
    BY <2>1, <2>2
<1>16. CASE FaultChanges
  BY <1>16 DEF FaultChanges, CountInv, Counted, strand, stream, sink, process
<1>17. CASE DeleteGeneration
  <2>1. \A f \in Files : disk'[f][0] = disk[f][0]
    BY <1>17 DEF DeleteGeneration, TypeOK
  <2> QED
    BY <1>17, <2>1
    DEF DeleteGeneration, CountInv, Counted, strand, stream, sink, process
<1>18. CASE UNCHANGED vars
  BY <1>18 DEF vars, CountInv, Counted
<1> QED
  BY <1>3, <1>4, <1>5, <1>6, <1>7, <1>8, <1>9, <1>10, <1>11, <1>12, <1>13,
     <1>14, <1>15, <1>16, <1>17, <1>18 DEF Next, HandlerStep, Environment

\* A step that does not touch the lengths on disk keeps the limits.
LEMMA LimitKept ==
    ASSUME LimitInv,
           \A f \in Files, g \in Gens : disk'[f][g] = disk[f][g],
           pc' \in {"probe", "remove", "shift"} =>
               pc \in {"probe", "remove", "shift"} /\ i' = i,
           pc' = "open" /\ job' = "write" => pc = "open" /\ job = "write",
           pc' = "write" => pc = "write" /\ i' = i
    PROVE  LimitInv'
BY GenValues DEF LimitInv, SizeBounded

\* The same for a step after which no handler is in its rotation, its write or
\* an open that follows a rotation.
LEMMA LimitKeptAtRest ==
    ASSUME LimitInv,
           \A f \in Files, g \in Gens :
               /\ ~disk'[f][g].there => disk'[f][g].recs = {} /\ disk'[f][g].size = 0
               /\ MaxSize # 0 => disk'[f][g].size < MaxSize + LineSize[f],
           pc' \notin {"probe", "remove", "shift", "write"},
           pc' # "open" \/ job' # "write"
    PROVE  LimitInv'
BY DEF LimitInv, SizeBounded

\* Emptying or creating one file keeps every file within the limit.
LEMMA LimitEmptyFile ==
    ASSUME TypeOK, LimitInv, NEW f0 \in Files, NEW g0 \in Gens,
           \/ disk' = [disk EXCEPT ![f0][g0] = NoFile]
           \/ disk' = [disk EXCEPT ![f0][g0] = EmptyFile]
    PROVE  \A f \in Files, g \in Gens :
               /\ ~disk'[f][g].there => disk'[f][g].recs = {} /\ disk'[f][g].size = 0
               /\ MaxSize # 0 => disk'[f][g].size < MaxSize + LineSize[f]
               /\ disk'[f][g].size = 0 \/ disk'[f][g] = disk[f][g]
<1>1. \A f \in Files, g \in Gens :
          disk'[f][g] \in {NoFile, EmptyFile} \/ disk'[f][g] = disk[f][g]
  BY DEF TypeOK
<1>2. \A f \in Files : MaxSize # 0 => 0 < MaxSize + LineSize[f]
  BY SizesAssumption
<1>3. ASSUME NEW f \in Files, NEW g \in Gens, disk'[f][g] \in {NoFile, EmptyFile}
      PROVE  /\ ~disk'[f][g].there => disk'[f][g].recs = {} /\ disk'[f][g].size = 0
             /\ MaxSize # 0 => disk'[f][g].size < MaxSize + LineSize[f]
             /\ disk'[f][g].size = 0
  BY <1>2, <1>3 DEF NoFile, EmptyFile
<1>4. ASSUME NEW f \in Files, NEW g \in Gens, disk'[f][g] = disk[f][g]
      PROVE  /\ ~disk'[f][g].there => disk'[f][g].recs = {} /\ disk'[f][g].size = 0
             /\ MaxSize # 0 => disk'[f][g].size < MaxSize + LineSize[f]
  BY <1>4 DEF LimitInv, SizeBounded
<1> QED
  BY <1>1, <1>3, <1>4

\* A write to a file that has not reached the limit, whole or in part.
LEMMA LimitAppend ==
    ASSUME TypeOK, LimitInv, pc = "write", NEW b \in Nat, b <= LineSize[i], Append(b)
    PROVE  \A f \in Files, g \in Gens :
               /\ ~disk'[f][g].there => disk'[f][g].recs = {} /\ disk'[f][g].size = 0
               /\ MaxSize # 0 => disk'[f][g].size < MaxSize + LineSize[f]
               /\ f # i => disk'[f][g] = disk[f][g]
<1>1. /\ i \in Files /\ i \in Int /\ disk \in [Files -> [Gens -> Content]]
      /\ disk[i][0].size \in Nat /\ LineSize[i] \in Nat /\ MaxSize \in Nat
  <2>1. i \in Files /\ disk \in [Files -> [Gens -> Content]]
    BY DEF TypeOK
  <2>2. i \in Int
    BY <2>1, FilesAssumption DEF Files
  <2>3. disk[i][0].size \in Nat
    BY <2>1, GenValues DEF Content
  <2>4. LineSize[i] \in Nat /\ MaxSize \in Nat
    BY <2>1, SizesAssumption
  <2> QED
    BY <2>1, <2>2, <2>3, <2>4
<1>2. /\ disk'[i][0].there
      /\ disk'[i][0].size = disk[i][0].size + b
      /\ \A f \in Files, g \in Gens : ~(f = i /\ g = 0) => disk'[f][g] = disk[f][g]
  BY <1>1, GenValues DEF Append
<1>3. MaxSize # 0 => disk'[i][0].size < MaxSize + LineSize[i]
  <2>1. MaxSize # 0 => disk[i][0].size < MaxSize
    BY <1>1 DEF LimitInv
  <2> QED
    BY <1>1, <1>2, <2>1
<1> QED
  BY <1>2, <1>3 DEF LimitInv, SizeBounded

LEMMA LimitStep ==
    ASSUME TypeOK, Control, CountInv, LimitInv, [Next]_vars
    PROVE  LimitInv'
<1> USE GenValues
<1> DEFINE Within == \A f \in Files, g \in Gens :
               /\ ~disk'[f][g].there => disk'[f][g].recs = {} /\ disk'[f][g].size = 0
               /\ MaxSize # 0 => disk'[f][g].size < MaxSize + LineSize[f]
           Rest == /\ pc' \notin {"probe", "remove", "shift", "write"}
                   /\ pc' # "open" \/ job' # "write"
<1>0. UNCHANGED disk => Within
  BY DEF LimitInv, SizeBounded
<1>1. CASE Start \/ Close \/ Exit \/ Recovered \/ RetryHandler
  <2>1. Within
    BY <1>0, <1>1 DEF Start, Close, Exit, Recovered, RetryHandler
  <2>2. Rest
    BY <1>1 DEF Start, Close, Exit, Recovered, RetryHandler, Halt, EndHandler, strand
  <2> QED
    BY <2>1, <2>2, LimitKeptAtRest
<1>2. ASSUME NEW malformed \in BOOLEAN, Write(malformed)
      PROVE  LimitInv'
  <2>1. Rest
    BY <1>2 DEF Write, strand
  <2> QED
    BY <1>0, <1>2, <2>1, LimitKeptAtRest DEF Write
<1>3. CASE RotateIfNeeded
  <2>1. disk' = disk /\ i' = 1 /\ i = 1 /\ pc = "check" /\ job' = "write"
    BY <1>3 DEF RotateIfNeeded, Control
  <2>2. \A f \in Files : ~(f < 1)
    BY FilesAssumption DEF Files
  <2>3. CASE OverLimit
    BY <1>0, <1>3, <2>1, <2>2, <2>3 DEF RotateIfNeeded, LimitInv, SizeBounded
  <2>4. CASE ~OverLimit
    <3>1. \A f \in Files : mSize[f] = disk[f][0].size /\ mSize[f] \in Nat
      BY <2>1 DEF CountInv, Counted, Control, TypeOK
    <3>2. MaxSize # 0 => \A f \in Files : disk[f][0].size < MaxSize
      BY <2>4, <3>1, SizesAssumption DEF OverLimit
    <3>3. pc' = "write"
      BY <1>3, <2>4 DEF RotateIfNeeded
    <3> QED
      BY <1>0, <2>1, <3>2, <3>3 DEF LimitInv, SizeBounded
  <2> QED
    BY <2>3, <2>4
<1>4. CASE Probe
  BY <1>4, LimitKept DEF Probe
<1>5. CASE Remove
  <2>1. /\ n \in Gens /\ i \in Files /\ i' = i
        /\ pc = "remove" /\ pc' \in {"remove", "shift"}
    BY <1>5 DEF Remove, TypeOK
  <2>2. Within /\ \A f \in Files : disk[f][0].size = 0 => disk'[f][0].size = 0
    BY <1>5, <2>1, LimitEmptyFile DEF Remove
  <2> QED
    BY <2>1, <2>2 DEF LimitInv, SizeBounded
<1>6. CASE Shift
  <2>1. /\ n \in 0..Cap /\ n \in Gens /\ n + 1 \in Gens /\ i \in Files
        /\ disk \in [Files -> [Gens -> Content]] /\ pc = "shift"
    BY <1>6 DEF Shift, TypeOK
  <2>2. \A f \in Files, g \in Gens :
            \/ disk'[f][g] = NoFile
            \/ f = i /\ g = n + 1 /\ disk'[f][g] = disk[f][n]
            \/ disk'[f][g] = disk[f][g]
    BY <1>6, <2>1 DEF Shift, RotatedTo
  <2>3. Within
    <3> SUFFICES ASSUME NEW f \in Files, NEW g \in Gens
                 PROVE  /\ ~disk'[f][g].there =>
                               disk'[f][g].recs = {} /\ disk'[f][g].size = 0
                        /\ MaxSize # 0 => disk'[f][g].size < MaxSize + LineSize[f]
      OBVIOUS
    <3>1. CASE disk'[f][g] = NoFile
      BY <3>1, SizesAssumption DEF NoFile
    <3>2. CASE \E h \in Gens : disk'[f][g] = disk[f][h]
      BY <3>2 DEF LimitInv, SizeBounded
    <3> QED
      BY <2>1, <2>2, <3>1, <3>2
  <2>4. \A f \in Files : disk[f][0].size = 0 => disk'[f][0].size = 0
    BY <2>1, <2>2 DEF NoFile
  <2>5. CASE ~ShiftDone
    <3>1. pc' = "shift" /\ i' = i
      BY <1>6, <2>5 DEF Shift
    <3> QED
      BY <2>1, <2>3, <2>4, <3>1 DEF LimitInv, SizeBounded
  <2>6. CASE ShiftDone
    <3>1. disk'[i][0].size = 0
      BY <1>6, <2>1, <2>6 DEF Shift, ShiftDone, RotatedTo, LimitInv, NoFile
    <3>2. MaxSize # 0 => \A f \in Files : f <= i => disk'[f][0].size = 0
      BY <2>1, <2>4, <3>1, FilesAssumption DEF LimitInv, Files
    <3>3. CASE i = NumFiles
      <4>1. pc' = "open"
        BY <1>6, <2>6, <3>3 DEF Shift
      <4>2. \A f \in Files : f <= i
        BY <3>3, FilesAssumption DEF Files
      <4> QED
        BY <2>3, <3>2, <4>1, <4>2 DEF LimitInv, SizeBounded
    <3>4. CASE i # NumFiles
      <4>1. pc' = "probe" /\ i' = i + 1
        BY <1>6, <2>6, <3>4 DEF Shift
      <4>2. \A f \in Files : f < i' => f <= i
        BY <2>1, <4>1, FilesAssumption DEF Files
      <4> QED
        BY <2>3, <3>2, <4>1, <4>2 DEF LimitInv, SizeBounded
    <3> QED
      BY <3>3, <3>4
  <2> QED
    BY <2>5, <2>6
<1>7. CASE OpenFile
  <2>1. Within /\ \A f \in Files : disk[f][0].size = 0 => disk'[f][0].size = 0
    <3>1. CASE disk[i][0].there
      BY <1>0, <1>7, <3>1, OpenFileEffect
    <3>2. CASE ~disk[i][0].there
      BY <1>7, <3>2, LimitEmptyFile, OpenFileEffect DEF TypeOK
    <3> QED
      BY <3>1, <3>2
  <2>2. pc' \in {"open", "idle", "recovered", "check", "write"} /\ pc = "open"
    BY <1>7 DEF OpenFile, EndHandler
  <2>3. (pc' = "write" \/ (pc' = "open" /\ job' = "write")) => job = "write"
    BY <1>7 DEF OpenFile, EndHandler, TypeOK, Control
  <2>4. ASSUME MaxSize # 0, job = "write"
        PROVE  \A f \in Files : disk'[f][0].size = 0 /\ 0 < MaxSize
    BY <2>1, <2>2, <2>4, SizesAssumption DEF LimitInv
  <2> QED
    BY <2>1, <2>2, <2>3, <2>4 DEF LimitInv, SizeBounded
<1>8. CASE WriteFile
  <2>0. i \in Files /\ pc = "write"
    BY <1>8 DEF WriteFile, TypeOK
  <2>1. /\ LineSize[i] \in Nat /\ LineSize[i] <= LineSize[i] /\ i \in Files
        /\ pc = "write"
    BY <2>0, SizesAssumption
  <2>2. Within /\ \A f \in Files : f # i => disk'[f][0] = disk[f][0]
    BY <1>8, <2>1, LimitAppend DEF WriteFile
  <2>3. CASE i < NumFiles
    <3>1. pc' = "write" /\ i' = i + 1 /\ job' = job
      BY <1>8, <2>1, <2>3 DEF WriteFile
    <3>2. \A f \in Files : f >= i' => f >= i /\ f # i
      BY <2>1, <3>1, FilesAssumption DEF Files
    <3> QED
      BY <2>1, <2>2, <3>1, <3>2 DEF LimitInv, SizeBounded
  <2>4. CASE ~(i < NumFiles)
    <3>1. Rest
      BY <1>8, <2>4 DEF WriteFile, EndHandler
    <3> QED
      BY <2>2, <3>1, LimitKeptAtRest
  <2> QED
    BY <2>3, <2>4
<1>9. CASE Failure
  <2>1. Rest
    BY <1>9 DEF Failure, WriteFails, RotationFails, OpenFails, Throw, ThrowTwice,
                FailSink, Halt, EndHandler
  <2>2. Within
    <3>1. CASE WriteFails
      <4>1. PICK b \in 0..(LineSize[i] - 1) : Append(b)
        BY <3>1 DEF WriteFails
      <4>2. LineSize[i] \in Nat /\ pc = "write"
        BY <3>1, SizesAssumption DEF WriteFails, TypeOK
      <4>3. b \in Nat /\ b <= LineSize[i]
        BY <4>2
      <4> QED
        BY <4>1, <4>2, <4>3, LimitAppend
    <3>2. CASE OpenFails
      BY <1>0, <3>2, LimitEmptyFile DEF OpenFails, TypeOK
    <3>3. CASE RotationFails \/ Throw \/ ThrowTwice
      BY <1>0, <3>3 DEF RotationFails, Throw, ThrowTwice
    <3> QED
      BY <1>9, <3>1, <3>2, <3>3 DEF Failure
  <2> QED
    BY <2>1, <2>2, LimitKeptAtRest
<1>10. CASE RetryExpires
  BY <1>10, LimitKept DEF RetryExpires, strand
<1>11. CASE Crash
  <2>1. Rest
    BY <1>11 DEF Crash, Halt, EndHandler
  <2>2. Within
    <3>1. CASE pc = "write" /\ \E b \in 1..(LineSize[i] - 1) : Append(b)
      <4>1. PICK b \in 1..(LineSize[i] - 1) : Append(b)
        BY <3>1
      <4>2. LineSize[i] \in Nat
        BY SizesAssumption DEF TypeOK
      <4>3. b \in Nat /\ b <= LineSize[i]
        BY <4>2
      <4> QED
        BY <3>1, <4>1, <4>3, LimitAppend
    <3> QED
      BY <1>0, <1>11, <3>1 DEF Crash
  <2> QED
    BY <2>1, <2>2, LimitKeptAtRest
<1>12. CASE FaultChanges
  BY <1>12, LimitKept DEF FaultChanges, strand
<1>13. CASE DeleteGeneration
  <2>1. Within /\ \A f \in Files : disk'[f][0] = disk[f][0]
    <3>1. PICK f0 \in Files, g0 \in Gens \ {0} :
              disk' = [disk EXCEPT ![f0][g0] = NoFile]
      BY <1>13 DEF DeleteGeneration
    <3>2. Within
      BY <3>1, LimitEmptyFile
    <3>3. \A f \in Files : disk'[f][0] = disk[f][0]
      BY <3>1 DEF TypeOK
    <3> QED
      BY <3>2, <3>3
  <2>2. UNCHANGED <<pc, job, i>>
    BY <1>13 DEF DeleteGeneration, strand
  <2> QED
    BY <2>1, <2>2 DEF LimitInv, SizeBounded
<1>14. CASE UNCHANGED vars
  BY <1>14, LimitKept DEF vars
<1> QED
  BY <1>1, <1>2, <1>3, <1>4, <1>5, <1>6, <1>7, <1>8, <1>9, <1>10, <1>11,
     <1>12, <1>13, <1>14 DEF Next, HandlerStep, Environment

\* Whatever fails, dies or is deleted, no file outgrows max_size by a record,
\* and a sink in service between two handlers counts what is on disk.
THEOREM SizesAccounted == Spec => [](SizeBounded /\ Accounting)
<1> DEFINE Inv == TypeOK /\ Control /\ CountInv /\ LimitInv
<1>1. Init => Inv
  <2> SUFFICES ASSUME Init PROVE CountInv /\ LimitInv
    BY InitType
  <2>1. \A f \in Files, g \in Gens : disk[f][g] = NoFile
    BY DEF Init
  <2>2. \A f \in Files : MaxSize # 0 => 0 < MaxSize + LineSize[f]
    BY SizesAssumption
  <2> QED
    BY <2>1, <2>2 DEF Init, CountInv, LimitInv, SizeBounded, NoFile
<1>2. Inv /\ [Next]_vars => Inv'
  BY TypeStep, CountStep, LimitStep
<1>3. Inv => SizeBounded /\ Accounting
  BY DEF LimitInv, CountInv, Counted, Accounting
<1> QED
  BY <1>1, <1>2, <1>3, PTL DEF Spec
-----------------------------------------------------------------------------
(***************************************************************************)
(* The sink implements the retained log: proofs that the chain stays       *)
(* within its depth, that no rename replaces a generation that is still to *)
(* be kept, and that every step is a step of module RetainedLog.           *)
(***************************************************************************)

\* The depth of the chain made inductive: what is removed is the deepest
\* generation there can be, and a generation is renamed onto a number that is
\* free, except for the one after the cap when max_files is 0.
DepthInv ==
    /\ GenerationsBounded
    /\ pc = "remove" => n = maxFiles
    /\ pc = "shift" => /\ n + 1 <= Depth(maxFiles)
                       /\ disk[i][n + 1].there => maxFiles = 0 /\ n = Cap

\* The record under way has a number.
NumberInv == job \in {"write", "lazyOpen"} => cur \in 1..MaxMsgs

LEMMA DepthValues ==
    ASSUME NEW k \in MaxFilesChoices
    PROVE  /\ Depth(k) \in Gens /\ Depth(k) >= 1
           /\ k \in 0..Cap
           /\ k > 0 => Depth(k) = k
           /\ k = 0 => Depth(k) = Cap + 1
BY MaxFilesAssumption, CapAssumption DEF Depth, Gens

\* A step that brings no rotated generation into being.
LEMMA DepthKept ==
    ASSUME TypeOK, DepthInv, maxFiles' = maxFiles,
           \A f \in Files, g \in Gens :
               disk'[f][g].there => g = 0 \/ disk[f][g].there,
           pc' # "remove" \/ (pc = "remove" /\ n' = n),
           pc' # "shift" \/ (pc = "shift" /\ n' = n /\ i' = i)
    PROVE  DepthInv'
<1>1. GenerationsBounded'
  <2> SUFFICES ASSUME NEW f \in Files, NEW g \in Gens, disk'[f][g].there
               PROVE  g <= Depth(maxFiles)
    BY DEF GenerationsBounded
  <2>1. 0 <= Depth(maxFiles)
    BY DepthValues DEF TypeOK, Gens
  <2> QED
    BY <2>1 DEF DepthInv, GenerationsBounded
<1>2. pc' = "shift" => /\ n' + 1 <= Depth(maxFiles')
                       /\ disk'[i'][n' + 1].there => maxFiles' = 0 /\ n' = Cap
  <2> SUFFICES ASSUME pc' = "shift"
               PROVE  /\ n' + 1 <= Depth(maxFiles')
                      /\ disk'[i'][n' + 1].there => maxFiles' = 0 /\ n' = Cap
    OBVIOUS
  <2>1. n + 1 \in Gens /\ n + 1 # 0 /\ i \in Files
    BY GenValues DEF TypeOK
  <2> QED
    BY <2>1 DEF DepthInv
<1> QED
  BY <1>1, <1>2 DEF DepthInv

LEMMA DepthStep ==
    ASSUME "lower" \notin Hazards, TypeOK, Control, DepthInv, [Next]_vars
    PROVE  DepthInv'
<1> USE GenValues
<1> DEFINE NoneCreated == \A f \in Files, g \in Gens :
                              disk'[f][g].there => g = 0 \/ disk[f][g].there
<1>0. UNCHANGED disk => NoneCreated
  OBVIOUS
<1>1. CASE Start
  <2>1. Depth(maxFiles') >= Depth(maxFiles) /\ maxFiles' \in MaxFilesChoices
    BY <1>1 DEF Start
  <2>2. GenerationsBounded'
    <3> SUFFICES ASSUME NEW f \in Files, NEW g \in Gens, disk'[f][g].there
                 PROVE  g <= Depth(maxFiles')
      BY DEF GenerationsBounded
    <3>1. g <= Depth(maxFiles)
      BY <1>1 DEF Start, DepthInv, GenerationsBounded
    <3>2. Depth(maxFiles) \in Int /\ Depth(maxFiles') \in Int /\ g \in Int
      BY <2>1, DepthValues, CapAssumption DEF TypeOK, Gens
    <3> QED
      BY <2>1, <3>1, <3>2
  <2> QED
    BY <1>1, <2>2 DEF Start, DepthInv
<1>2. CASE Close \/ Exit \/ Recovered \/ RetryHandler
  <2>1. UNCHANGED <<disk, maxFiles>>
    BY <1>2 DEF Close, Exit, Recovered, RetryHandler, process
  <2>2. pc' \notin {"remove", "shift"}
    BY <1>2 DEF Close, Exit, Recovered, RetryHandler, Halt, EndHandler, strand
  <2> QED
    BY <1>0, <2>1, <2>2, DepthKept
<1>3. ASSUME NEW malformed \in BOOLEAN, Write(malformed)
      PROVE  DepthInv'
  <2>1. UNCHANGED <<disk, maxFiles>> /\ pc' \notin {"remove", "shift"}
    BY <1>3 DEF Write, process, strand
  <2> QED
    BY <1>0, <2>1, DepthKept
<1>4. CASE RotateIfNeeded
  BY <1>0, <1>4, DepthKept DEF RotateIfNeeded, process
<1>5. CASE Probe
  <2>1. PICK h \in 0..ProbeLimit :
            /\ \A g \in 1..ProbeLimit : disk[i][g].there => g <= h
            /\ n' = h
            /\ pc' = IF maxFiles > 0 /\ h >= maxFiles THEN "remove" ELSE "shift"
    BY <1>5 DEF Probe, ChainFull
  <2>2. UNCHANGED <<disk, maxFiles, i>>
    BY <1>5 DEF Probe, process
  <2>3. /\ maxFiles \in 0..Cap /\ ProbeLimit \in 0..Cap
        /\ maxFiles > 0 => ProbeLimit = maxFiles /\ Depth(maxFiles) = maxFiles
        /\ maxFiles = 0 => ProbeLimit = Cap /\ Depth(maxFiles) = Cap + 1
    BY DepthValues, CapAssumption DEF TypeOK, ProbeLimit
  <2>4. pc' = "remove" => n' = maxFiles
    BY <2>1, <2>3
  <2>5. ASSUME pc' = "shift"
        PROVE  /\ n' + 1 <= Depth(maxFiles)
               /\ disk[i][n' + 1].there => maxFiles = 0 /\ n' = Cap
    <3>1. ~(maxFiles > 0 /\ h >= maxFiles)
      BY <2>1, <2>5
    <3>2. h + 1 <= Depth(maxFiles)
      BY <2>1, <2>3, <3>1
    <3>3. ASSUME disk[i][h + 1].there, ~(maxFiles = 0 /\ h = Cap)
          PROVE  FALSE
      <4>1. h + 1 \in 1..ProbeLimit
        BY <2>1, <2>3, <3>1, <3>3
      <4>2. h + 1 <= h
        BY <2>1, <3>3, <4>1
      <4> QED
        BY <2>3, <4>2
    <3> QED
      BY <2>1, <3>2, <3>3
  <2> QED
    BY <2>1, <2>2, <2>4, <2>5 DEF DepthInv, GenerationsBounded
<1>6. CASE Remove
  <2>1. /\ n = maxFiles /\ n \in Gens /\ n \in Int /\ i \in Files /\ maxFiles > 0
        /\ disk \in [Files -> [Gens -> Content]] /\ Depth(maxFiles) = maxFiles
    BY <1>6, DepthValues, CapAssumption DEF Remove, DepthInv, Control, TypeOK
  <2>2. /\ disk' = [disk EXCEPT ![i][n] = NoFile]
        /\ pc' = "shift" /\ n' = n - 1 /\ i' = i /\ maxFiles' = maxFiles
    BY <1>6, <2>1 DEF Remove, process
  <2>3. /\ ~disk'[i][n].there
        /\ \A f \in Files, g \in Gens : disk'[f][g].there => disk[f][g].there
    BY <2>1, <2>2 DEF NoFile
  <2>4. GenerationsBounded'
    BY <2>2, <2>3 DEF DepthInv, GenerationsBounded
  <2>5. n' + 1 = n
    BY <2>1, <2>2
  <2> QED
    BY <2>1, <2>2, <2>3, <2>4, <2>5 DEF DepthInv
<1>7. CASE Shift
  <2>1. /\ n \in 0..Cap /\ n \in Gens /\ n + 1 \in Gens /\ i \in Files
        /\ disk \in [Files -> [Gens -> Content]] /\ pc = "shift"
        /\ maxFiles' = maxFiles
    BY <1>7 DEF Shift, TypeOK, process
  <2>2. \A f \in Files, g \in Gens :
            disk'[f][g].there => disk[f][g].there \/ g = n + 1
    BY <1>7, <2>1 DEF Shift, RotatedTo, NoFile
  <2>3. ~disk'[i][n].there
    BY <1>7, <2>1 DEF Shift, RotatedTo, NoFile
  <2>4. GenerationsBounded'
    BY <2>1, <2>2 DEF DepthInv, GenerationsBounded
  <2>5. CASE ShiftDone
    BY <1>7, <2>4, <2>5 DEF Shift, DepthInv
  <2>6. CASE ~ShiftDone
    <3>1. /\ n' = n - 1 /\ i' = i /\ n' + 1 = n
      BY <1>7, <2>1, <2>6 DEF Shift, ShiftDone
    <3>2. n <= Depth(maxFiles)
      <4>1. n + 1 <= Depth(maxFiles) /\ Depth(maxFiles) \in Int /\ n \in Int
        BY <2>1, DepthValues, CapAssumption DEF DepthInv, TypeOK, Gens
      <4> QED
        BY <4>1
    <3>3. pc' = "shift"
      BY <1>7, <2>6 DEF Shift
    <3> QED
      BY <2>1, <2>3, <2>4, <3>1, <3>2, <3>3 DEF DepthInv
  <2> QED
    BY <2>5, <2>6
<1>8. CASE OpenFile
  <2>1. NoneCreated
    BY <1>8, OpenFileEffect DEF TypeOK, EmptyFile
  <2>2. maxFiles' = maxFiles /\ pc' \notin {"remove", "shift"}
    BY <1>8 DEF OpenFile, EndHandler, process
  <2> QED
    BY <2>1, <2>2, DepthKept
<1>9. CASE WriteFile
  <2>1. NoneCreated
    BY <1>9 DEF WriteFile, Append, TypeOK
  <2>2. maxFiles' = maxFiles /\ pc' \notin {"remove", "shift"}
    BY <1>9 DEF WriteFile, EndHandler, process
  <2> QED
    BY <2>1, <2>2, DepthKept
<1>10. CASE Failure \/ Crash
  <2>1. NoneCreated
    <3>1. CASE UNCHANGED disk
      BY <3>1
    <3>2. CASE \E b : Append(b)
      BY <3>2 DEF Append, TypeOK
    <3>3. CASE OpenFails
      BY <3>3 DEF OpenFails, TypeOK, EmptyFile
    <3> QED
      BY <1>10, <3>1, <3>2, <3>3
      DEF Failure, Crash, WriteFails, RotationFails, Throw, ThrowTwice
  <2>2. maxFiles' = maxFiles
    BY <1>10 DEF Failure, Crash, WriteFails, RotationFails, OpenFails, Throw,
                 ThrowTwice, process
  <2>3. pc' = "idle"
    BY <1>10 DEF Failure, Crash, WriteFails, RotationFails, OpenFails, Throw,
                 ThrowTwice, FailSink, Halt, EndHandler
  <2> QED
    BY <2>1, <2>2, <2>3, DepthKept
<1>11. CASE RetryExpires \/ FaultChanges
  BY <1>0, <1>11, DepthKept DEF RetryExpires, FaultChanges, strand, process
<1>12. CASE DeleteGeneration
  <2>1. NoneCreated
    BY <1>12 DEF DeleteGeneration, TypeOK, NoFile
  <2> QED
    BY <1>12, <2>1, DepthKept DEF DeleteGeneration, strand, process
<1>13. CASE UNCHANGED vars
  BY <1>0, <1>13, DepthKept DEF vars
<1> QED
  BY <1>1, <1>2, <1>3, <1>4, <1>5, <1>6, <1>7, <1>8, <1>9, <1>10, <1>11,
     <1>12, <1>13 DEF Next, HandlerStep, Environment

\* As long as max_files is not lowered between two runs of the process, no
\* generation beyond it survives: gaps in the chain, failures and crashes in a
\* rotation leave nothing out of the probe's reach.
THEOREM ChainStaysBounded ==
    ASSUME "lower" \notin Hazards
    PROVE  Spec => []GenerationsBounded
<1> DEFINE Inv == TypeOK /\ Control /\ DepthInv
<1>1. Init => Inv
  <2>1. Init => DepthInv
    BY DEF Init, DepthInv, GenerationsBounded, NoFile
  <2> QED
    BY <2>1, InitType
<1>2. Inv /\ [Next]_vars => Inv'
  BY TypeStep, DepthStep
<1>3. Inv => GenerationsBounded
  BY DEF DepthInv
<1> QED
  BY <1>1, <1>2, <1>3, PTL DEF Spec
-----------------------------------------------------------------------------
(***************************************************************************)
(* The refinement.                                                         *)
(***************************************************************************)

\* The log of module RetainedLog as LogFile sees it.
KeptLog == [f \in Files |-> Kept(f)]

LEMMA KeptMembers ==
    \A f \in Files : \A x :
        /\ x \in Kept(f) <=> \E g \in Gens : x \in disk[f][g].recs
        /\ x \in Kept(f)' <=> \E g \in Gens : x \in disk'[f][g].recs
BY DEF Kept

\* A step that moves no record between the files and the outside.
LEMMA SameRecordsStutter ==
    ASSUME \A f \in Files : \A x :
               (\E g \in Gens : x \in disk'[f][g].recs)
                   <=> (\E g \in Gens : x \in disk[f][g].recs)
    PROVE  UNCHANGED KeptLog
<1>1. \A f \in Files : Kept(f)' = Kept(f)
  BY KeptMembers
<1> QED
  BY <1>1 DEF KeptLog

\* Losing the deepest generation of one file is forgetting its oldest records.
LEMMA LosingDeepestForgets ==
    ASSUME TypeOK, ChainOrdered, NEW f0 \in Files, NEW d \in Gens,
           \A g \in Gens : g > d => disk[f0][g].recs = {},
           \A f \in Files : f # f0 => disk'[f] = disk[f],
           \A x : (\E g \in Gens : x \in disk'[f0][g].recs)
                      <=> (\E g \in Gens : g # d /\ x \in disk[f0][g].recs)
    PROVE  Abstract!Forget(f0)
<1> DEFINE gone == disk[f0][d].recs
<1>1. gone \in SUBSET Kept(f0)
  BY KeptMembers
<1>2. \A g \in Gens : \A y \in disk[f0][g].recs :
          g # d => g < d
  BY CapAssumption DEF Gens
<1>3. ASSUME NEW g \in Gens, g # d, NEW y \in disk[f0][g].recs, NEW x \in gone
      PROVE  x < y /\ y # x
  <2>1. x < y
    BY <1>2, <1>3 DEF ChainOrdered
  <2>2. x \in Nat /\ y \in Nat
    BY <1>3 DEF TypeOK, Content
  <2> QED
    BY <2>1, <2>2
<1>4. \A x \in gone, y \in Kept(f0) \ gone : x < y
  <2> SUFFICES ASSUME NEW x \in gone, NEW y \in Kept(f0) \ gone
               PROVE  x < y
    OBVIOUS
  <2>1. PICK g \in Gens : y \in disk[f0][g].recs
    BY KeptMembers
  <2>2. g # d
    BY <2>1
  <2> QED
    BY <1>3, <2>1, <2>2
<1>5. Kept(f0)' = Kept(f0) \ gone
  <2>1. ASSUME NEW x
        PROVE  x \in Kept(f0)' <=> x \in Kept(f0) /\ x \notin gone
    <3>1. CASE x \in gone
      <4>1. ~\E g \in Gens : g # d /\ x \in disk[f0][g].recs
        BY <1>3, <3>1
      <4> QED
        BY <3>1, <4>1, KeptMembers
    <3>2. CASE x \notin gone
      BY <3>2, KeptMembers
    <3> QED
      BY <3>1, <3>2
  <2> QED
    BY <2>1
<1>6. \A f \in Files : f # f0 => Kept(f)' = Kept(f)
  BY DEF Kept
<1>7. KeptLog' = [KeptLog EXCEPT ![f0] = @ \ gone]
  BY <1>5, <1>6 DEF KeptLog
<1> QED
  BY <1>1, <1>4, <1>7 DEF Abstract!Forget, KeptLog

LEMMA NumberStep ==
    ASSUME TypeOK, Control, NumberInv, [Next]_vars
    PROVE  NumberInv'
<1>1. ASSUME NEW malformed \in BOOLEAN, Write(malformed)
      PROVE  NumberInv'
  <2>1. next \in 1..MaxMsgs
    BY <1>1, SwitchAssumption DEF Write, TypeOK
  <2> QED
    BY <1>1, <2>1 DEF Write, NumberInv, strand, Control
<1>2. CASE Start \/ Close \/ Exit \/ Recovered \/ RetryHandler \/ Failure
           \/ RetryExpires \/ Environment
  BY <1>2
  DEF Start, Close, Exit, Recovered, RetryHandler, Failure, RetryExpires,
      Environment, WriteFails, RotationFails, OpenFails, Throw, ThrowTwice, Crash,
      FaultChanges, DeleteGeneration, FailSink, Halt, EndHandler, strand, NumberInv,
      Control
<1>3. CASE RotateIfNeeded \/ Probe \/ Remove \/ Shift
  BY <1>3 DEF RotateIfNeeded, Probe, Remove, Shift, NumberInv
<1>4. CASE OpenFile
  BY <1>4 DEF OpenFile, EndHandler, NumberInv, TypeOK, Control
<1>5. CASE WriteFile
  BY <1>5 DEF WriteFile, EndHandler, NumberInv
<1>6. CASE UNCHANGED vars
  BY <1>6 DEF vars, NumberInv
<1> QED
  BY <1>1, <1>2, <1>3, <1>4, <1>5, <1>6 DEF Next, HandlerStep

\* Every step of the sink is a step of the retained log, or changes nothing in
\* it.
LEMMA RefinementStep ==
    ASSUME "lower" \notin Hazards, "delete" \notin Hazards,
           TypeOK, Control, OrderInv, LimitInv, DepthInv, NumberInv, [Next]_vars
    PROVE  Abstract!Next \/ UNCHANGED KeptLog
<1> USE GenValues
<1> DEFINE Same == \A f \in Files, g \in Gens : disk'[f][g].recs = disk[f][g].recs
<1>0. Same => UNCHANGED KeptLog
  BY SameRecordsStutter
<1>1. CASE WriteFile
  <2>1. /\ i \in Files /\ disk \in [Files -> [Gens -> Content]]
        /\ pc = "write" /\ job = "write"
    BY <1>1 DEF WriteFile, TypeOK, Control
  <2>2. /\ disk'[i][0].recs = disk[i][0].recs \cup {cur}
        /\ \A f \in Files, g \in Gens :
              ~(f = i /\ g = 0) => disk'[f][g].recs = disk[f][g].recs
    BY <1>1, <2>1 DEF WriteFile, Append
  <2>3. cur \in 1..MaxMsgs
    BY <2>1 DEF NumberInv
  <2>4. \A x \in Kept(i) : x < cur
    <3>1. i >= i
      BY <2>1, FilesAssumption DEF Files
    <3> QED
      BY <2>1, <3>1, KeptMembers DEF OrderInv, CurIsNewest
  <2>5. \A f \in Files : Kept(f)' = IF f = i THEN Kept(f) \cup {cur} ELSE Kept(f)
    <3> SUFFICES ASSUME NEW f \in Files, NEW x
                 PROVE  x \in Kept(f)' <=> x \in Kept(f) \/ (f = i /\ x = cur)
      OBVIOUS
    <3>1. (\E g \in Gens : x \in disk'[f][g].recs)
              <=> (\E g \in Gens : x \in disk[f][g].recs) \/ (f = i /\ x = cur)
      BY <2>1, <2>2
    <3> QED
      BY <3>1, KeptMembers
  <2>6. KeptLog' = [KeptLog EXCEPT ![i] = @ \cup {cur}]
    BY <2>1, <2>5 DEF KeptLog
  <2>7. Abstract!Append(i)
    BY <2>1, <2>3, <2>4, <2>6 DEF Abstract!Append, KeptLog
  <2> QED
    BY <2>1, <2>7 DEF Abstract!Next
<1>2. CASE Remove
  <2>1. /\ n \in Gens /\ i \in Files /\ disk \in [Files -> [Gens -> Content]]
        /\ n = maxFiles /\ Depth(maxFiles) = maxFiles
        /\ disk' = [disk EXCEPT ![i][n] = NoFile]
    BY <1>2, DepthValues DEF Remove, TypeOK, DepthInv, Control
  <2>2. \A g \in Gens : g > n => disk[i][g].recs = {}
    <3> SUFFICES ASSUME NEW g \in Gens, g > n PROVE disk[i][g].recs = {}
      OBVIOUS
    <3>1. ~(g <= Depth(maxFiles))
      BY <2>1, CapAssumption DEF Gens
    <3> QED
      BY <2>1, <3>1 DEF DepthInv, GenerationsBounded, LimitInv
  <2>3. \A f \in Files : f # i => disk'[f] = disk[f]
    BY <2>1
  <2>4. /\ disk'[i][n].recs = {}
        /\ \A g \in Gens : g # n => disk'[i][g] = disk[i][g]
    BY <2>1 DEF NoFile
  <2>5. Abstract!Forget(i)
    BY <2>1, <2>2, <2>3, <2>4, LosingDeepestForgets DEF OrderInv
  <2> QED
    BY <2>1, <2>5 DEF Abstract!Next
<1>3. CASE Shift
  <2>1. /\ n \in 0..Cap /\ n \in Gens /\ n + 1 \in Gens /\ n + 1 # n /\ i \in Files
        /\ disk \in [Files -> [Gens -> Content]] /\ pc = "shift"
    BY <1>3 DEF Shift, TypeOK
  <2>2. CASE ~disk[i][n].there
    BY <1>0, <1>3, <2>2 DEF Shift
  <2>3. CASE disk[i][n].there
    <3>1. /\ disk'[i][n].recs = {}
          /\ disk'[i][n + 1].recs = disk[i][n].recs
          /\ \A g \in Gens : g \notin {n, n + 1} => disk'[i][g] = disk[i][g]
          /\ \A f \in Files : f # i => disk'[f] = disk[f]
      BY <1>3, <2>1, <2>3 DEF Shift, RotatedTo, NoFile
    <3>2. \A x : (\E g \in Gens : x \in disk'[i][g].recs)
                     <=> (\E g \in Gens : g # n + 1 /\ x \in disk[i][g].recs)
      BY <2>1, <3>1
    <3>3. CASE ~disk[i][n + 1].there
      <4>1. disk[i][n + 1].recs = {}
        BY <2>1, <3>3 DEF LimitInv
      <4>2. \A x : (\E g \in Gens : x \in disk'[i][g].recs)
                     <=> (\E g \in Gens : x \in disk[i][g].recs)
        BY <3>2, <4>1
      <4> QED
        BY <3>1, <4>2, SameRecordsStutter
    <3>4. CASE disk[i][n + 1].there
      <4>1. n + 1 = Cap + 1
        BY <2>1, <3>4 DEF DepthInv
      <4>2. \A g \in Gens : g > n + 1 => disk[i][g].recs = {}
        BY <4>1, CapAssumption DEF Gens
      <4>3. Abstract!Forget(i)
        BY <2>1, <3>1, <3>2, <4>2, LosingDeepestForgets DEF OrderInv
      <4> QED
        BY <2>1, <4>3 DEF Abstract!Next
    <3> QED
      BY <3>3, <3>4
  <2> QED
    BY <2>2, <2>3
<1>4. CASE OpenFile \/ OpenFails
  <2>1. \A g \in Gens : ~disk[i][g].there => disk[i][g].recs = {}
    BY DEF LimitInv, TypeOK
  <2>2. Same
    <3>1. CASE disk' = disk
      BY <3>1
    <3>2. CASE ~disk[i][0].there /\ disk' = [disk EXCEPT ![i][0] = EmptyFile]
      BY <2>1, <3>2 DEF EmptyFile, TypeOK
    <3> QED
      BY <1>4, <3>1, <3>2, OpenFileEffect DEF OpenFails
  <2> QED
    BY <1>0, <2>2
<1>5. CASE WriteFails \/ Crash
  <2>1. LineSize[i] \in Nat /\ i \in Files /\ disk \in [Files -> [Gens -> Content]]
    BY SizesAssumption DEF TypeOK
  <2>2. ASSUME NEW b \in Nat, b < LineSize[i], Append(b) PROVE Same
    BY <2>1, <2>2 DEF Append
  <2>3. Same
    <3>1. CASE disk' = disk
      BY <3>1
    <3>2. CASE \E b \in 0..(LineSize[i] - 1) : Append(b)
      BY <2>1, <2>2, <3>2
    <3> QED
      BY <1>5, <2>1, <3>1, <3>2 DEF WriteFails, Crash
  <2> QED
    BY <1>0, <2>3
<1>6. CASE DeleteGeneration
  BY <1>6 DEF DeleteGeneration
<1>7. CASE UNCHANGED disk
  BY <1>0, <1>7
<1>8. ASSUME NEW malformed \in BOOLEAN, Write(malformed)
      PROVE  UNCHANGED disk
  BY <1>8 DEF Write
<1>9. CASE \/ Start \/ Close \/ Exit \/ RotateIfNeeded \/ Probe \/ Recovered
           \/ RotationFails \/ Throw \/ ThrowTwice \/ RetryExpires \/ RetryHandler
           \/ FaultChanges \/ UNCHANGED vars
  BY <1>7, <1>9
  DEF Start, Close, Exit, RotateIfNeeded, Probe, Recovered, RotationFails, Throw,
      ThrowTwice, RetryExpires, RetryHandler, FaultChanges, vars
<1> QED
  BY <1>1, <1>2, <1>3, <1>4, <1>5, <1>6, <1>7, <1>8, <1>9
  DEF Next, HandlerStep, Failure, Environment

\* As long as nobody deletes generations and max_files is not lowered, the
\* chain of each file is a log that grows at its new end and is forgotten at
\* its old end only, through every failure and crash.
THEOREM LogFileImplementsRetainedLog ==
    ASSUME "lower" \notin Hazards, "delete" \notin Hazards
    PROVE  Spec => ImplementsRetainedLog
<1> DEFINE Inv == /\ TypeOK /\ Control /\ OrderInv /\ CountInv /\ LimitInv
                  /\ DepthInv /\ NumberInv
<1>1. Init => Inv
  <2> SUFFICES ASSUME Init PROVE Inv
    OBVIOUS
  <2>1. \A f \in Files, g \in Gens : disk[f][g] = NoFile
    BY DEF Init
  <2>2. \A f \in Files : MaxSize # 0 => 0 < MaxSize + LineSize[f]
    BY SizesAssumption
  <2>3. OrderInv
    BY <2>1 DEF Init, OrderInv, ChainOrdered, CurIsNewest, NoFile
  <2>4. CountInv /\ LimitInv
    BY <2>1, <2>2 DEF Init, CountInv, LimitInv, SizeBounded, NoFile
  <2>5. DepthInv /\ NumberInv
    BY <2>1 DEF Init, DepthInv, GenerationsBounded, NumberInv, NoFile
  <2> QED
    BY <2>3, <2>4, <2>5, InitType
<1>2. Inv /\ [Next]_vars => Inv'
  BY TypeStep, OrderStep, CountStep, LimitStep, DepthStep, NumberStep
<1>3. Init => Abstract!Init
  <2> SUFFICES ASSUME Init PROVE KeptLog = [f \in Files |-> {}]
    BY DEF Abstract!Init, KeptLog
  <2>1. \A f \in Files, g \in Gens : disk[f][g].recs = {}
    BY DEF Init, NoFile
  <2>2. \A f \in Files : Kept(f) = {}
    BY <2>1, KeptMembers
  <2> QED
    BY <2>2 DEF KeptLog
<1>4. Inv /\ [Next]_vars => [Abstract!Next]_KeptLog
  BY RefinementStep
<1> QED
  BY <1>1, <1>2, <1>3, <1>4, PTL
  DEF Spec, ImplementsRetainedLog, Abstract!Spec, KeptLog

-----------------------------------------------------------------------------
(***************************************************************************)
(* What the reports of Reports promise, for every value of the intervals,  *)
(* every delay of the timers and behaviours of any length.                 *)
(***************************************************************************)

\* What the reports of the socket rest on.  The rate is kept because the time
\* of the last report survives the end of a streak: each line about an error is
\* an interval later than the one before, and a line about a recovery is owed
\* only to a streak that has one.
SocketInv ==
    /\ ErrorsAccounted
    /\ lastReport = Never => errorLines = 0
    /\ errorLines > 0 => (errorLines - 1) * ReportInterval <= lastReport
    /\ recoveryLines <= errorLines
    /\ streakReported => recoveryLines + 1 <= errorLines

\* What the reports of a closed sink rest on: an outage begins with an empty
\* count, and its next attempt is due within an interval and a wait of the last
\* report.
SinkInv ==
    /\ OutageAccounted
    /\ failures = 0 => sinkUnreported = 0
    /\ failures # 0 => /\ retryAt <= sinkReport + ReportInterval + RetryInterval
                       /\ now <= retryAt + Slack

ReportsInv == ReportsTypeOK /\ SocketInv /\ SinkInv

-----------------------------------------------------------------------------
\* One more line takes one more interval.
LEMMA OneMoreInterval ==
    ASSUME NEW k \in Nat, NEW r \in Nat, NEW t \in Int, k > 0, (k - 1) * r <= t
    PROVE  ((k + 1) - 1) * r <= t + r
<1>1. ((k + 1) - 1) * r = (k - 1) * r + r
  OBVIOUS
<1>2. (k - 1) * r \in Int
  OBVIOUS
<1> QED
  BY <1>1, <1>2

LEMMA ReportsInitInv == ReportsInit => ReportsInv
<1> SUFFICES ASSUME ReportsInit PROVE ReportsInv
  OBVIOUS
<1>1. streakReported \in BOOLEAN /\ ~streakReported
  BY Zenon DEF ReportsInit
<1>2. ReportsTypeOK
  BY <1>1, DelaysAssumption DEF ReportsInit, ReportsTypeOK, Never
<1>3. SocketInv
  BY <1>1 DEF ReportsInit, SocketInv, ErrorsAccounted
<1>4. SinkInv
  BY DelaysAssumption DEF ReportsInit, SinkInv, OutageAccounted
<1> QED
  BY <1>2, <1>3, <1>4 DEF ReportsInv

\* The delay grows to its cap and no further.
LEMMA NextDelayCapped ==
    ASSUME ReportsTypeOK
    PROVE  NextDelay \in 0..MaxDelay
  BY DelaysAssumption DEF ReportsTypeOK, NextDelay, Min2

-----------------------------------------------------------------------------
LEMMA ReportsTypeStep == ReportsTypeOK /\ [ReportsNext]_reportsVars => ReportsTypeOK'
<1> SUFFICES ASSUME ReportsTypeOK, [ReportsNext]_reportsVars PROVE ReportsTypeOK'
  OBVIOUS
<1> USE DelaysAssumption
<1>1. CASE ReceiveError
  <2>1. streakReported' \in BOOLEAN
    <3>1. streakReported' = TRUE \/ UNCHANGED streakReported
      BY <1>1, Zenon DEF ReceiveError
    <3> QED
      BY <3>1, Zenon DEF ReportsTypeOK
  <2> QED
    BY <1>1, <2>1, NextDelayCapped DEF ReportsTypeOK, ReceiveError, ReportError, sinkVars, Never
<1>2. CASE ReceiveSucceeds
  <2>1. streakReported' \in BOOLEAN
    BY <1>2, Zenon DEF ReceiveSucceeds
  <2> QED
    BY <1>2, <2>1 DEF ReportsTypeOK, ReceiveSucceeds, EndInterval, sinkVars
<1>3. CASE SinkFails
  BY <1>3 DEF ReportsTypeOK, SinkFails, socketVars
<1>4. CASE ReopenFails
  BY <1>4 DEF ReportsTypeOK, ReopenFails, socketVars
<1>5. CASE Reopened
  BY <1>5 DEF ReportsTypeOK, Reopened, ResetUnreported, socketVars
<1>6. CASE Tick
  BY <1>6 DEF ReportsTypeOK, Tick, socketVars, sinkVars
<1>7. CASE UNCHANGED reportsVars
  BY <1>7 DEF ReportsTypeOK, reportsVars
<1> QED
  BY <1>1, <1>2, <1>3, <1>4, <1>5, <1>6, <1>7 DEF ReportsNext

LEMMA SocketStep == ReportsInv /\ [ReportsNext]_reportsVars => SocketInv'
<1> SUFFICES ASSUME ReportsInv, [ReportsNext]_reportsVars PROVE SocketInv'
  OBVIOUS
<1> USE DelaysAssumption DEF ReportsInv, ReportsTypeOK
<1>1. CASE ReceiveError
  <2>1. CASE ReportDue
    <3>1. ErrorsAccounted'
      BY <1>1, <2>1 DEF ReceiveError, ReportError, SocketInv, ErrorsAccounted
    <3>2. lastReport' = now /\ now # Never /\ errorLines' = errorLines + 1
      BY <1>1, <2>1 DEF ReceiveError, Never
    <3>3. ((errorLines + 1) - 1) * ReportInterval <= now
      <4>1. CASE errorLines = 0
        BY <4>1
      <4>2. CASE errorLines > 0
        <5>1. lastReport \in Int /\ lastReport + ReportInterval <= now
          BY <2>1, <4>2 DEF ReportDue, SocketInv, Never
        <5>2. ((errorLines + 1) - 1) * ReportInterval <= lastReport + ReportInterval
          BY <4>2, <5>1, OneMoreInterval DEF SocketInv
        <5> QED
          BY <5>1, <5>2
      <4> QED
        BY <4>1, <4>2
    <3>4. recoveryLines' + 1 <= errorLines'
      BY <1>1, <3>2 DEF ReceiveError, SocketInv
    <3> QED
      BY <1>1, <3>1, <3>2, <3>3, <3>4 DEF SocketInv, ReceiveError
  <2>2. CASE ~ReportDue
    BY <1>1, <2>2 DEF ReceiveError, SocketInv, ErrorsAccounted
  <2> QED
    BY <2>1, <2>2
<1>2. CASE ReceiveSucceeds
  BY <1>2 DEF ReceiveSucceeds, EndInterval, SocketInv, ErrorsAccounted
<1>3. CASE UNCHANGED socketVars
  BY <1>3 DEF socketVars, SocketInv, ErrorsAccounted
<1> QED
  BY <1>1, <1>2, <1>3
    DEF ReportsNext, SinkFails, ReopenFails, Reopened, Tick, reportsVars, socketVars

LEMMA SinkStep == ReportsInv /\ [ReportsNext]_reportsVars => SinkInv'
<1> SUFFICES ASSUME ReportsInv, [ReportsNext]_reportsVars PROVE SinkInv'
  OBVIOUS
<1> USE DelaysAssumption DEF ReportsInv, ReportsTypeOK
<1>1. CASE SinkFails
  BY <1>1 DEF SinkFails, SinkInv, OutageAccounted
<1>2. CASE ReopenFails
  BY <1>2 DEF ReopenFails, SinkReportDue, SinkInv, OutageAccounted
<1>3. CASE Reopened
  BY <1>3 DEF Reopened, ResetUnreported, SinkInv, OutageAccounted
<1>4. CASE Tick
  BY <1>4 DEF Tick, sinkVars, SinkInv, OutageAccounted
<1>5. CASE UNCHANGED <<now, sinkVars>>
  BY <1>5 DEF sinkVars, SinkInv, OutageAccounted
<1> QED
  BY <1>1, <1>2, <1>3, <1>4, <1>5
    DEF ReportsNext, ReceiveError, ReceiveSucceeds, reportsVars, sinkVars

\* The invariant the theorems below are read off.
LEMMA ReportsInvAlways == ReportsSpec => []ReportsInv
<1>1. ReportsInv /\ [ReportsNext]_reportsVars => ReportsInv'
  BY ReportsTypeStep, SocketStep, SinkStep DEF ReportsInv
<1> QED
  BY ReportsInitInv, <1>1, PTL DEF ReportsSpec

-----------------------------------------------------------------------------
\* The delay before a socket in error listens again never exceeds its cap, and
\* every variable has its type.
THEOREM ReportsTypeCorrect == ReportsSpec => []ReportsTypeOK
  BY ReportsInvAlways, PTL DEF ReportsInv

\* Every receive error is in exactly one line or waiting for the next.
THEOREM ErrorsAlwaysAccounted == ReportsSpec => []ErrorsAccounted
<1>1. ReportsInv => ErrorsAccounted
  BY DEF ReportsInv, SocketInv
<1> QED
  BY ReportsInvAlways, <1>1, PTL

\* The lines about a socket that flaps are bounded by the time that passed.
THEOREM LinesAlwaysBounded == ReportsSpec => []LinesBounded
<1>1. ReportsInv => LinesBounded
  <2> SUFFICES ASSUME ReportsInv PROVE LinesBounded
    OBVIOUS
  <2> USE DelaysAssumption DEF ReportsInv, ReportsTypeOK, SocketInv
  <2>1. ASSUME errorLines > 0
        PROVE  (errorLines - 1) * ReportInterval <= now
    <3>1. lastReport \in 0..now
      BY <2>1
    <3>2. (errorLines - 1) * ReportInterval \in Int
      OBVIOUS
    <3> QED
      BY <2>1, <3>1, <3>2
  <2> QED
    BY <2>1 DEF LinesBounded
<1> QED
  BY ReportsInvAlways, <1>1, PTL

\* In each outage every failed reopening is in one summary or waiting for it.
THEOREM OutagesAlwaysAccounted == ReportsSpec => []OutageAccounted
<1>1. ReportsInv => OutageAccounted
  BY DEF ReportsInv, SinkInv
<1> QED
  BY ReportsInvAlways, <1>1, PTL

\* A closed sink is never left unmentioned for longer than an interval, a wait
\* and the lateness of a timer.
THEOREM SinkNeverSilentLong == ReportsSpec => []NeverSilentLong
<1>1. ReportsInv => NeverSilentLong
  BY DelaysAssumption DEF ReportsInv, ReportsTypeOK, SinkInv, NeverSilentLong
<1> QED
  BY ReportsInvAlways, <1>1, PTL

=============================================================================
