------------------------- MODULE BaselineFileProofs -------------------------
(***************************************************************************)
(* What BaselineFile promises for any number of processes, starts, items   *)
(* and bucket lengths.                                                     *)
(*                                                                         *)
(* All of it rests on redb's lock: a file is open in one process at a time *)
(* (Exclusive), so what open has established about the file it holds       *)
(* (Process) is still true when the process saves, however long after.     *)
(* A rename changes neither; it only takes the name away.                  *)
(*                                                                         *)
(* That what was saved is what is loaded holds as long as one process at a *)
(* time uses the path; then the file it holds is the one at the path, and  *)
(* its data are those of the last save (Sole).                             *)
(***************************************************************************)
EXTENDS BaselineFile, TLAPS

\* Where a process has not yet come to the file, where it has it open, and
\* where it has loaded it or has given up on it.
Before == {"off", "open", "aside", "recreate"}
Opening == {"tables", "schema", "length", "stamp", "load"}

\* redb locks the file for the one process that has it open.
Exclusive == \A i, j \in Instances : hold[i] # 0 /\ hold[i] = hold[j] => i = j

\* What a process knows of itself and of the file it holds.
Process(i) ==
  /\ pc[i] \in Before => hold[i] = 0
  /\ pc[i] \in Opening => hold[i] # 0
  /\ pc[i] \in Before \cup Opening => mind[i] = Nothing
  /\ pc[i] # "off" => length[i] \in Lengths
  /\ \A e \in mind[i].hist : e[2] = length[i]
  /\ hold[i] # 0 /\ pc[i] \notin {"tables", "schema"} => files[hold[i]].schema = Current
  /\ pc[i] = "stamp" => files[hold[i]].data.hist = {}
  /\ hold[i] # 0 /\ pc[i] \notin {"tables", "schema", "length", "stamp"} =>
       files[hold[i]].length = length[i]
  /\ hold[i] # 0 /\ hold[i] = here => \A n \in mind[i].tmpl : n > forgot

\* The histograms of a file are counted in the length it is stamped with.
OneLength ==
  \A f \in 1..Len(files) : files[f].length # NoLength =>
    \A e \in files[f].data.hist : e[2] = files[f].length

IInv ==
  /\ TypeOK /\ Exclusive /\ OneLength /\ ResetForgets /\ forgot <= items
  /\ \A i \in Instances : Process(i)

-----------------------------------------------------------------------------
(* Writing to a file                                                       *)

\* What a transaction of redb makes of the files.
Writes(f, x) ==
  /\ files' \in Seq(File) /\ Len(files') = Len(files)
  /\ files'[f] = x
  /\ \A g \in 1..Len(files) : g # f => files'[g] = files[g]

LEMMA OneFile ==
  ASSUME files \in Seq(File), NEW f \in 1..Len(files), NEW x \in File,
         files' = [files EXCEPT ![f] = x]
  PROVE  Writes(f, x)
BY DEF Writes

LEMMA NewFile ==
  ASSUME files \in Seq(File), files' = Append(files, Fresh)
  PROVE  /\ files' \in Seq(File) /\ Len(files') = Len(files) + 1
         /\ files'[Len(files) + 1] = Fresh
         /\ \A g \in 1..Len(files) : files'[g] = files[g]
<1>1. Fresh \in File
  BY DEF Fresh, File, Learned, Nothing, NoSchema
<1> QED
  BY <1>1

\* A step of process i.
Step(i) ==
  \/ \E l \in Lengths : \E d, reset \in BOOLEAN : Start(i, l, d, reset)
  \/ Open(i) \/ MoveAside(i) \/ Recreate(i)
  \/ EnsureTables(i) \/ ReadSchema(i) \/ CheckLength(i) \/ Stamp(i) \/ Load(i)
  \/ Probe(i) \/ Unlink(i) \/ Bind(i)
  \/ Learn(i) \/ Save(i)
  \/ Shutdown(i) \/ FinalSave(i) \/ RemoveSocket(i) \/ Crash(i)

\* The transactions, each with what the file holds afterwards.
LEMMA TablesWrite ==
  ASSUME IInv, NEW i \in Instances, EnsureTables(i)
  PROVE  Writes(hold[i], [files[hold[i]] EXCEPT !.tables = TRUE])
<1>1. hold[i] \in 1..Len(files) /\ files \in Seq(File)
  BY DEF IInv, TypeOK, Process, Opening, EnsureTables
<1>2. files[hold[i]] \in File
  BY <1>1
<1>3. [files[hold[i]] EXCEPT !.tables = TRUE] \in File
  BY <1>2 DEF File
<1> QED
  BY <1>1, <1>3, OneFile DEF EnsureTables

LEMMA SchemaWrite ==
  ASSUME IInv, NEW i \in Instances, pc[i] = "schema",
         files' = [files EXCEPT ![hold[i]].schema = Current]
  PROVE  Writes(hold[i], [files[hold[i]] EXCEPT !.schema = Current])
<1>1. hold[i] \in 1..Len(files) /\ files \in Seq(File)
  BY DEF IInv, TypeOK, Process, Opening
<1>2. files[hold[i]] \in File
  BY <1>1
<1>3. [files[hold[i]] EXCEPT !.schema = Current] \in File
  BY <1>2 DEF File, Current
<1> QED
  BY <1>1, <1>3, OneFile

LEMMA WipeWrite ==
  ASSUME IInv, NEW i \in Instances, pc[i] = "length",
         files' = [files EXCEPT ![hold[i]].data.hist = {}]
  PROVE  Writes(hold[i], [files[hold[i]] EXCEPT !.data.hist = {}])
<1>1. hold[i] \in 1..Len(files) /\ files \in Seq(File)
  BY DEF IInv, TypeOK, Process, Opening
<1>2. files[hold[i]] \in File
  BY <1>1
<1>3. [files[hold[i]].data EXCEPT !.hist = {}] \in Learned
  BY <1>2 DEF File, Learned
<1>4. [files[hold[i]] EXCEPT !.data.hist = {}] \in File
  BY <1>2, <1>3 DEF File
<1> QED
  BY <1>1, <1>4, OneFile

LEMMA StampWrite ==
  ASSUME IInv, NEW i \in Instances, pc[i] = "stamp",
         files' = [files EXCEPT ![hold[i]].length = length[i]]
  PROVE  Writes(hold[i], [files[hold[i]] EXCEPT !.length = length[i]])
<1>1. hold[i] \in 1..Len(files) /\ files \in Seq(File) /\ length[i] \in Lengths \cup {NoLength}
  BY DEF IInv, TypeOK, Process, Opening
<1>2. files[hold[i]] \in File
  BY <1>1
<1>3. [files[hold[i]] EXCEPT !.length = length[i]] \in File
  BY <1>1, <1>2 DEF File
<1> QED
  BY <1>1, <1>3, OneFile

LEMMA SaveWrite ==
  ASSUME IInv, NEW i \in Instances, hold[i] # 0, WriteAll(i)
  PROVE  Writes(hold[i], [files[hold[i]] EXCEPT !.data = mind[i], !.parses = TRUE])
<1>1. hold[i] \in 1..Len(files) /\ files \in Seq(File) /\ mind[i] \in Learned
  BY DEF IInv, TypeOK
<1>2. files[hold[i]] \in File
  BY <1>1
<1>3. [files[hold[i]] EXCEPT !.data = mind[i], !.parses = TRUE] \in File
  BY <1>1, <1>2 DEF File
<1>4. files' = [files EXCEPT ![hold[i]] =
                  [files[hold[i]] EXCEPT !.data = mind[i], !.parses = TRUE]]
  BY <1>1 DEF WriteAll
<1> QED
  BY <1>1, <1>3, <1>4, OneFile

-----------------------------------------------------------------------------
(* Types                                                                   *)

ProcessTypes(n) ==
  /\ pc' \in [Instances -> Steps] /\ length' \in [Instances -> Lengths \cup {NoLength}]
  /\ dump' \in [Instances -> BOOLEAN] /\ hold' \in [Instances -> 0..n]
  /\ mind' \in [Instances -> Learned]

LEMMA NothingLearned == Nothing \in Learned
BY DEF Nothing, Learned

LEMMA ExitTypes ==
  ASSUME TypeOK, NEW i \in Instances, Exit(i) PROVE ProcessTypes(Len(files))
BY NothingLearned DEF TypeOK, Exit, ProcessTypes, Steps

LEMMA WithoutFileTypes ==
  ASSUME TypeOK, NEW i \in Instances, WithoutFile(i) PROVE ProcessTypes(Len(files))
<1>1. CASE dump[i]
  BY <1>1, ExitTypes DEF WithoutFile
<1>2. CASE ~dump[i]
  <2>1. 0 \in 0..Len(files) /\ "probe" \in Steps
    BY DEF TypeOK, Steps
  <2>2. pc' = [pc EXCEPT ![i] = "probe"] /\ hold' = [hold EXCEPT ![i] = 0]
        /\ UNCHANGED <<mind, options>>
    BY <1>2 DEF WithoutFile
  <2> QED
    BY <2>1, <2>2 DEF TypeOK, ProcessTypes, options
<1> QED
  BY <1>1, <1>2

LEMMA CreateTypes ==
  ASSUME TypeOK, NEW i \in Instances, Create(i)
  PROVE  /\ files' \in Seq(File) /\ Len(files') >= Len(files)
         /\ here' \in 0..Len(files') /\ ProcessTypes(Len(files'))
<1>1. CASE here = 0
  <2>1. files' \in Seq(File) /\ Len(files') = Len(files) + 1
    BY <1>1, NewFile DEF Create, TypeOK
  <2>2. Len(files) \in Nat
    BY DEF TypeOK
  <2>3. here' = Len(files) + 1 /\ hold' = [hold EXCEPT ![i] = Len(files) + 1]
        /\ pc' = [pc EXCEPT ![i] = "tables"] /\ UNCHANGED <<mind, options>>
    BY <1>1 DEF Create
  <2> QED
    BY <2>1, <2>2, <2>3 DEF TypeOK, ProcessTypes, Steps, options
<1>2. CASE here # 0
  <2>1. /\ UNCHANGED <<files, here>> /\ hold' = [hold EXCEPT ![i] = here]
        /\ pc' = [pc EXCEPT ![i] = "tables"] /\ UNCHANGED <<mind, options>>
    BY <1>2 DEF Create
  <2>2. here \in 0..Len(files) /\ Len(files) \in Nat
    BY DEF TypeOK
  <2> QED
    BY <2>1, <2>2 DEF TypeOK, ProcessTypes, Steps, options
<1> QED
  BY <1>1, <1>2

LEMMA WriteAllTypes ==
  ASSUME IInv, NEW i \in Instances, WriteAll(i)
  PROVE  files' \in Seq(File) /\ Len(files') = Len(files) /\ saved' \in Learned
<1>1. CASE hold[i] = 0
  BY <1>1 DEF WriteAll, IInv, TypeOK
<1>2. CASE hold[i] # 0
  <2>1. files' \in Seq(File) /\ Len(files') = Len(files)
    BY <1>2, SaveWrite DEF Writes
  <2>2. saved' = mind[i] /\ mind[i] \in Learned
    BY <1>2 DEF WriteAll, IInv, TypeOK
  <2> QED
    BY <2>1, <2>2
<1> QED
  BY <1>1, <1>2

LEMMA StartTypes ==
  ASSUME TypeOK, NEW i \in Instances, NEW l \in Lengths, NEW d \in BOOLEAN,
         NEW reset \in BOOLEAN, Start(i, l, d, reset)
  PROVE  TypeOK'
BY NothingLearned DEF TypeOK, Start, Steps

LEMMA StepTypes == ASSUME IInv, NEW i \in Instances, Step(i) PROVE TypeOK'
<1>0. TypeOK /\ Len(files) \in Nat
  BY DEF IInv, TypeOK
<1>1. ASSUME NEW l \in Lengths, NEW d \in BOOLEAN, NEW reset \in BOOLEAN,
             Start(i, l, d, reset)
      PROVE  TypeOK'
  BY <1>0, <1>1, StartTypes
<1>2. CASE Open(i)
  <2>1. CASE Create(i)
    BY <1>0, <1>2, <2>1, CreateTypes DEF Open, TypeOK, ProcessTypes, countVars, historyVars
  <2>2. CASE UNCHANGED <<files, here, hold, mind, options>> /\ pc' = [pc EXCEPT ![i] = "aside"]
    BY <1>0, <1>2, <2>2 DEF Open, TypeOK, Steps, options, countVars, historyVars
  <2> QED
    BY <1>2, <2>1, <2>2 DEF Open
<1>3. CASE MoveAside(i)
  <2>1. CASE here = 0
    BY <1>0, <1>3, <2>1, WithoutFileTypes
       DEF MoveAside, TypeOK, ProcessTypes, countVars, historyVars
  <2>2. CASE here # 0
    <3>1. here \in 1..Len(files)
      BY <1>0, <2>2 DEF TypeOK
    <3>2. corrupt' \subseteq 1..Len(files) /\ here' = 0
          /\ pc' = [pc EXCEPT ![i] = "recreate"]
      BY <1>0, <1>3, <2>2, <3>1 DEF MoveAside, TypeOK
    <3>3. UNCHANGED <<files, sock, options, hold, mind, countVars, historyVars>>
      BY <1>3, <2>2 DEF MoveAside
    <3> QED
      BY <1>0, <3>2, <3>3 DEF TypeOK, Steps, options, countVars, historyVars
  <2> QED
    BY <2>1, <2>2
<1>4. CASE Recreate(i)
  <2>1. CASE Create(i)
    BY <1>0, <1>4, <2>1, CreateTypes DEF Recreate, TypeOK, ProcessTypes, countVars, historyVars
  <2>2. CASE WithoutFile(i) /\ UNCHANGED <<files, here>>
    BY <1>0, <1>4, <2>2, WithoutFileTypes
       DEF Recreate, TypeOK, ProcessTypes, countVars, historyVars
  <2> QED
    BY <1>4, <2>1, <2>2 DEF Recreate
<1>5. CASE ReadSchema(i)
  <2>1. CASE files[hold[i]].schema \in {NoSchema, Current}
             /\ files' = [files EXCEPT ![hold[i]].schema = Current]
             /\ pc' = [pc EXCEPT ![i] = "length"] /\ UNCHANGED <<hold, mind, options>>
    BY <1>0, <1>5, <2>1, SchemaWrite
       DEF ReadSchema, Writes, TypeOK, Steps, options, countVars, historyVars
  <2>2. CASE Exit(i) /\ UNCHANGED files
    BY <1>0, <1>5, <2>2, ExitTypes
       DEF ReadSchema, TypeOK, ProcessTypes, countVars, historyVars
  <2>3. CASE WithoutFile(i) /\ UNCHANGED files
    BY <1>0, <1>5, <2>3, WithoutFileTypes
       DEF ReadSchema, TypeOK, ProcessTypes, countVars, historyVars
  <2> QED
    BY <1>5, <2>1, <2>2, <2>3 DEF ReadSchema
<1>6. CASE CheckLength(i)
  <2>1. CASE files[hold[i]].length = length[i]
    BY <1>0, <1>6, <2>1 DEF CheckLength, TypeOK, Steps, options, countVars, historyVars
  <2>2. CASE files[hold[i]].length # length[i]
    BY <1>0, <1>6, <2>2, WipeWrite
       DEF CheckLength, Writes, TypeOK, Steps, options, countVars, historyVars
  <2> QED
    BY <2>1, <2>2
<1>7. CASE Stamp(i)
  BY <1>0, <1>7, StampWrite
     DEF Stamp, Writes, TypeOK, Steps, options, countVars, historyVars
<1>8. CASE Load(i)
  <2>1. CASE dump[i]
    BY <1>0, <1>8, <2>1, ExitTypes
       DEF Load, TypeOK, ProcessTypes, fileVars, countVars, historyVars
  <2>2. CASE ~dump[i]
    <3>1. hold[i] \in 1..Len(files)
      BY <1>8 DEF Load, IInv, TypeOK, Process, Opening
    <3>2. files[hold[i]].data \in Learned
      <4>1. files[hold[i]] \in File
        BY <1>0, <3>1 DEF TypeOK
      <4> QED
        BY <4>1 DEF File
    <3>3. mind' \in [Instances -> Learned]
      BY <1>0, <1>8, <2>2, <3>2, NothingLearned DEF Load, TypeOK
    <3> QED
      BY <1>0, <1>8, <2>2, <3>3
         DEF Load, TypeOK, Steps, fileVars, options, countVars, historyVars
  <2> QED
    BY <2>1, <2>2
<1>9. CASE Probe(i)
  <2>1. CASE Exit(i)
    BY <1>0, <1>9, <2>1, ExitTypes
       DEF Probe, TypeOK, ProcessTypes, fileVars, countVars, historyVars
  <2>2. ASSUME NEW next \in {"unlink", "bind"}, pc' = [pc EXCEPT ![i] = next],
               UNCHANGED <<hold, mind, options>>
        PROVE  TypeOK'
    BY <1>0, <1>9, <2>2
       DEF Probe, TypeOK, Steps, fileVars, options, countVars, historyVars
  <2> QED
    BY <1>9, <2>1, <2>2 DEF Probe
<1>10. CASE Unlink(i)
  <2>1. CASE Exit(i) /\ UNCHANGED sock
    BY <1>0, <1>10, <2>1, ExitTypes
       DEF Unlink, TypeOK, ProcessTypes, fileVars, countVars, historyVars
  <2>2. CASE sock' = Free /\ pc' = [pc EXCEPT ![i] = "bind"]
             /\ UNCHANGED <<hold, mind, options>>
    BY <1>0, <1>10, <2>2
       DEF Unlink, TypeOK, Steps, fileVars, options, countVars, historyVars
  <2> QED
    BY <1>10, <2>1, <2>2 DEF Unlink
<1>11. CASE Bind(i)
  BY <1>0, <1>11 DEF Bind, TypeOK, Steps, fileVars, options, countVars, historyVars
<1>12. CASE Learn(i)
  <2>1. items + 1 \in 1..MaxItems /\ length[i] \in Lengths /\ mind[i] \in Learned
    BY <1>0, <1>12, BaselineAssumption DEF Learn, Working, IInv, Process, TypeOK
  <2>2. [hist |-> mind[i].hist \cup {<<items + 1, length[i]>>},
         tmpl |-> mind[i].tmpl \cup {items + 1}] \in Learned
    BY <2>1 DEF Learned
  <2>3. mind' \in [Instances -> Learned]
    BY <1>0, <1>12, <2>1, <2>2 DEF Learn, Learned, TypeOK
  <2> QED
    BY <1>0, <1>12, <2>3 DEF Learn, TypeOK, fileVars, options, historyVars
<1>13. CASE Save(i)
  BY <1>0, <1>13, WriteAllTypes DEF Save, TypeOK, processVars, options, countVars
<1>14. CASE Shutdown(i)
  BY <1>0, <1>14 DEF Shutdown, TypeOK, Steps, fileVars, options, countVars, historyVars
<1>15. CASE FinalSave(i)
  <2>1. CASE Exit(i)
    BY <1>0, <1>15, <2>1, ExitTypes, WriteAllTypes
       DEF FinalSave, TypeOK, ProcessTypes, countVars
  <2>2. CASE pc' = [pc EXCEPT ![i] = "saved"] /\ hold' = [hold EXCEPT ![i] = 0]
             /\ UNCHANGED <<options, mind>>
    BY <1>0, <1>15, <2>2, WriteAllTypes DEF FinalSave, TypeOK, Steps, options, countVars
  <2> QED
    BY <1>15, <2>1, <2>2 DEF FinalSave
<1>16. CASE RemoveSocket(i)
  <2>1. CASE Exit(i)
    BY <1>0, <1>16, <2>1, ExitTypes
       DEF RemoveSocket, TypeOK, ProcessTypes, fileVars, countVars, historyVars
  <2>2. CASE pc' = [pc EXCEPT ![i] = "removed"] /\ UNCHANGED <<options, hold, mind>>
    BY <1>0, <1>16, <2>2
       DEF RemoveSocket, TypeOK, Steps, fileVars, options, countVars, historyVars
  <2> QED
    BY <1>16, <2>1, <2>2 DEF RemoveSocket
<1>17. CASE Crash(i)
  BY <1>0, <1>17, ExitTypes
     DEF Crash, TypeOK, ProcessTypes, fileVars, countVars, historyVars
<1>18. CASE EnsureTables(i)
  BY <1>0, <1>18, TablesWrite
     DEF EnsureTables, Writes, TypeOK, Steps, options, countVars, historyVars
<1> QED
  BY <1>1, <1>2, <1>3, <1>4, <1>5, <1>6, <1>7, <1>8, <1>9, <1>10, <1>11, <1>12,
     <1>13, <1>14, <1>15, <1>16, <1>17, <1>18 DEF Step

-----------------------------------------------------------------------------
(* What a process does not touch                                           *)

\* The other processes are where they were.
OthersStay(i) ==
  \A j \in Instances : j # i =>
    pc'[j] = pc[j] /\ length'[j] = length[j] /\ hold'[j] = hold[j] /\ mind'[j] = mind[j]

\* The files that others have open are as they were; the path is as it was,
\* empty, or at a new file; only a reset empties it for good.
FilesStay(i) ==
  /\ Len(files') \in Nat /\ Len(files') >= Len(files)
  /\ \A f \in 1..Len(files) : f # hold[i] => files'[f] = files[f]
  /\ here' = 0 \/ (here' \in {here, Len(files) + 1} /\ forgot' = forgot)

LEMMA ExitStays == ASSUME TypeOK, NEW i \in Instances, Exit(i) PROVE OthersStay(i)
BY DEF TypeOK, Exit, OthersStay

LEMMA CreateStays ==
  ASSUME TypeOK, NEW i \in Instances, Create(i), forgot' = forgot
  PROVE  OthersStay(i) /\ FilesStay(i)
<1>1. OthersStay(i)
  BY DEF TypeOK, Create, OthersStay, options
<1>2. CASE here = 0
  BY <1>1, <1>2, NewFile DEF TypeOK, Create, FilesStay
<1>3. CASE here # 0
  BY <1>1, <1>3 DEF TypeOK, Create, FilesStay
<1> QED
  BY <1>2, <1>3

LEMMA StepStays ==
  ASSUME IInv, NEW i \in Instances, Step(i) PROVE OthersStay(i) /\ FilesStay(i)
<1>0. TypeOK /\ Len(files) \in Nat
  BY DEF IInv, TypeOK
<1>1. ASSUME NEW l \in Lengths, NEW d \in BOOLEAN, NEW reset \in BOOLEAN,
             Start(i, l, d, reset)
      PROVE  OthersStay(i) /\ FilesStay(i)
  BY <1>0, <1>1 DEF Start, TypeOK, OthersStay, FilesStay
<1>2. CASE Open(i)
  BY <1>0, <1>2, CreateStays
     DEF Open, TypeOK, OthersStay, FilesStay, options, historyVars
<1>3. CASE MoveAside(i)
  BY <1>0, <1>3, ExitStays
     DEF MoveAside, WithoutFile, TypeOK, OthersStay, FilesStay, options, historyVars
<1>4. CASE Recreate(i)
  BY <1>0, <1>4, CreateStays, ExitStays
     DEF Recreate, WithoutFile, TypeOK, OthersStay, FilesStay, options, historyVars
<1>5. CASE ReadSchema(i)
  <2>1. OthersStay(i)
    BY <1>0, <1>5, ExitStays
       DEF ReadSchema, WithoutFile, TypeOK, OthersStay, options
  <2>2. CASE UNCHANGED files
    BY <1>0, <1>5, <2>1, <2>2 DEF ReadSchema, FilesStay, historyVars
  <2>3. CASE files' = [files EXCEPT ![hold[i]].schema = Current]
    BY <1>0, <1>5, <2>1, <2>3, SchemaWrite DEF ReadSchema, Writes, FilesStay, historyVars
  <2> QED
    BY <1>5, <2>2, <2>3 DEF ReadSchema
<1>6. CASE CheckLength(i)
  <2>1. OthersStay(i)
    BY <1>0, <1>6 DEF CheckLength, TypeOK, OthersStay, options
  <2>2. CASE UNCHANGED files
    BY <1>0, <1>6, <2>1, <2>2 DEF CheckLength, FilesStay, historyVars
  <2>3. CASE files' = [files EXCEPT ![hold[i]].data.hist = {}]
    BY <1>0, <1>6, <2>1, <2>3, WipeWrite DEF CheckLength, Writes, FilesStay, historyVars
  <2> QED
    BY <1>6, <2>2, <2>3 DEF CheckLength
<1>7. CASE Stamp(i)
  <2>1. OthersStay(i)
    BY <1>0, <1>7 DEF Stamp, TypeOK, OthersStay, options
  <2> QED
    BY <1>0, <1>7, <2>1, StampWrite DEF Stamp, Writes, FilesStay, historyVars
<1>8. CASE Load(i) \/ Probe(i) \/ Unlink(i) \/ Bind(i) \/ Shutdown(i) \/ RemoveSocket(i)
           \/ Crash(i)
  <2>1. UNCHANGED <<fileVars, historyVars>>
    BY <1>8 DEF Load, Probe, Unlink, Bind, Shutdown, RemoveSocket, Crash
  <2>2. OthersStay(i)
    BY <1>0, <1>8, ExitStays
       DEF Load, Probe, Unlink, Bind, Shutdown, RemoveSocket, Crash, TypeOK, OthersStay,
           options
  <2> QED
    BY <1>0, <2>1, <2>2 DEF FilesStay, fileVars, historyVars
<1>9. CASE Learn(i)
  BY <1>0, <1>9 DEF Learn, TypeOK, OthersStay, FilesStay, fileVars, options, historyVars
<1>10. CASE Save(i) \/ FinalSave(i)
  <2>1. OthersStay(i)
    BY <1>0, <1>10, ExitStays
       DEF Save, FinalSave, TypeOK, OthersStay, processVars, options
  <2>2. UNCHANGED <<here, forgot>> /\ WriteAll(i)
    BY <1>10 DEF Save, FinalSave
  <2>3. CASE hold[i] = 0
    BY <1>0, <2>1, <2>2, <2>3 DEF WriteAll, FilesStay
  <2>4. CASE hold[i] # 0
    <3>1. Len(files') = Len(files)
          /\ \A f \in 1..Len(files) : f # hold[i] => files'[f] = files[f]
      BY <2>2, <2>4, SaveWrite DEF Writes
    <3> QED
      BY <1>0, <2>1, <2>2, <3>1 DEF FilesStay
  <2> QED
    BY <2>3, <2>4
<1>11. CASE EnsureTables(i)
  <2>1. OthersStay(i)
    BY <1>0, <1>11 DEF EnsureTables, TypeOK, OthersStay, options
  <2> QED
    BY <1>0, <1>11, <2>1, TablesWrite DEF EnsureTables, Writes, FilesStay, historyVars
<1> QED
  BY <1>1, <1>2, <1>3, <1>4, <1>5, <1>6, <1>7, <1>8, <1>9, <1>10, <1>11 DEF Step

\* So what another process knows stays true.
LEMMA OtherProcess ==
  ASSUME IInv, NEW i \in Instances, Step(i), NEW j \in Instances, j # i
  PROVE  Process(j)'
<1>1. OthersStay(i) /\ FilesStay(i)
  BY StepStays
<1>2. pc'[j] = pc[j] /\ length'[j] = length[j] /\ hold'[j] = hold[j] /\ mind'[j] = mind[j]
  BY <1>1 DEF OthersStay
<1>3. hold[j] \in 0..Len(files) /\ Len(files) \in Nat
  BY DEF IInv, TypeOK
<1>4. hold[j] # 0 => files'[hold[j]] = files[hold[j]]
  BY <1>1, <1>3 DEF FilesStay, IInv, Exclusive
<1>5. hold[j] # 0 /\ hold[j] = here' => hold[j] = here /\ forgot' = forgot
  BY <1>1, <1>3 DEF FilesStay
<1>6. Process(j)
  BY DEF IInv
<1>7. pc[j] = "stamp" => hold[j] # 0
  BY <1>6 DEF Process, Opening
<1> QED
  BY <1>2, <1>4, <1>5, <1>6, <1>7 DEF Process

-----------------------------------------------------------------------------
(* The process that steps                                                  *)

LEMMA ExitProcess ==
  ASSUME IInv, NEW i \in Instances, Exit(i) PROVE Process(i)'
BY DEF IInv, TypeOK, Exit, Process, Before, Opening, Nothing

LEMMA WithoutFileProcess ==
  ASSUME IInv, NEW i \in Instances, WithoutFile(i), pc[i] \in Before \cup Opening,
         pc[i] # "off"
  PROVE  Process(i)'
<1>1. CASE dump[i]
  BY <1>1, ExitProcess DEF WithoutFile
<1>2. CASE ~dump[i]
  BY <1>2 DEF IInv, TypeOK, WithoutFile, options, Process, Before, Opening, Nothing
<1> QED
  BY <1>1, <1>2

LEMMA CreateProcess ==
  ASSUME IInv, NEW i \in Instances, Create(i), pc[i] \in {"open", "recreate"}
  PROVE  Process(i)'
<1>1. pc'[i] = "tables" /\ mind'[i] = Nothing /\ length'[i] \in Lengths
  BY DEF IInv, TypeOK, Process, Before, Create, options
<1>2. hold'[i] # 0
  BY DEF IInv, TypeOK, Create
<1> QED
  BY <1>1, <1>2 DEF Process, Before, Opening, Nothing

LEMMA OwnProcess == ASSUME IInv, NEW i \in Instances, Step(i) PROVE Process(i)'
<1>0. TypeOK /\ Process(i) /\ hold[i] \in 0..Len(files)
  BY DEF IInv, TypeOK
<1>1. ASSUME NEW l \in Lengths, NEW d \in BOOLEAN, NEW reset \in BOOLEAN,
             Start(i, l, d, reset)
      PROVE  Process(i)'
  BY <1>0, <1>1 DEF Start, TypeOK, Process, Before, Opening, Nothing
<1>2. CASE Open(i)
  <2>1. CASE Create(i)
    BY <1>2, <2>1, CreateProcess DEF Open
  <2>2. CASE UNCHANGED <<files, here, hold, mind, options>> /\ pc' = [pc EXCEPT ![i] = "aside"]
    BY <1>0, <1>2, <2>2 DEF Open, TypeOK, Process, Before, Opening, Nothing, options
  <2> QED
    BY <1>2, <2>1, <2>2 DEF Open
<1>3. CASE MoveAside(i)
  <2>1. CASE here = 0
    BY <1>3, <2>1, WithoutFileProcess DEF MoveAside, Before
  <2>2. CASE here # 0
    BY <1>0, <1>3, <2>2 DEF MoveAside, TypeOK, Process, Before, Opening, Nothing, options
  <2> QED
    BY <2>1, <2>2
<1>4. CASE Recreate(i)
  BY <1>4, CreateProcess, WithoutFileProcess DEF Recreate, Before
<1>5. CASE ReadSchema(i)
  <2>1. CASE files' = [files EXCEPT ![hold[i]].schema = Current]
             /\ pc' = [pc EXCEPT ![i] = "length"] /\ UNCHANGED <<hold, mind, options>>
    <3>1. files'[hold[i]].schema = Current
      <4>1. files'[hold[i]] = [files[hold[i]] EXCEPT !.schema = Current]
            /\ files[hold[i]] \in File
        <5>1. pc[i] = "schema" /\ hold[i] \in 1..Len(files)
          BY <1>0, <1>5 DEF ReadSchema, Process, Opening
        <5>2. files'[hold[i]] = [files[hold[i]] EXCEPT !.schema = Current]
          BY <2>1, <5>1, SchemaWrite DEF Writes
        <5> QED
          BY <1>0, <5>1, <5>2 DEF TypeOK
      <4> QED
        BY <4>1 DEF File
    <3>2. pc'[i] = "length" /\ hold'[i] = hold[i] /\ mind'[i] = mind[i]
          /\ length'[i] = length[i] /\ here' = here /\ forgot' = forgot /\ pc[i] = "schema"
      BY <1>0, <1>5, <2>1 DEF ReadSchema, TypeOK, options, historyVars
    <3> QED
      BY <1>0, <3>1, <3>2 DEF Process, Before, Opening
  <2>2. CASE Exit(i)
    BY <2>2, ExitProcess
  <2>3. CASE WithoutFile(i)
    BY <1>5, <2>3, WithoutFileProcess DEF ReadSchema, Opening
  <2> QED
    BY <1>5, <2>1, <2>2, <2>3 DEF ReadSchema
<1>6. CASE CheckLength(i)
  <2>1. hold'[i] = hold[i] /\ mind'[i] = mind[i] /\ length'[i] = length[i]
        /\ here' = here /\ forgot' = forgot /\ pc[i] = "length"
    BY <1>6 DEF CheckLength, options, historyVars
  <2>2. CASE files[hold[i]].length = length[i]
    <3>1. files' = files /\ pc'[i] = "load"
      BY <1>0, <1>6, <2>2 DEF CheckLength, TypeOK
    <3> QED
      BY <1>0, <2>1, <2>2, <3>1 DEF Process, Before, Opening
  <2>3. CASE files[hold[i]].length # length[i]
    <3>1. pc'[i] = "stamp"
      BY <1>0, <1>6, <2>3 DEF CheckLength, TypeOK
    <3>2. files'[hold[i]] = [files[hold[i]] EXCEPT !.data.hist = {}]
      BY <1>6, <2>3, WipeWrite DEF CheckLength, Writes
    <3>3. files[hold[i]] \in File
      BY <1>0, <2>1 DEF TypeOK, Process, Opening
    <3>4. files'[hold[i]].data.hist = {} /\ files'[hold[i]].schema = files[hold[i]].schema
      BY <3>2, <3>3 DEF File, Learned
    <3> QED
      BY <1>0, <2>1, <3>1, <3>4 DEF Process, Before, Opening
  <2> QED
    BY <2>2, <2>3
<1>7. CASE Stamp(i)
  <2>1. hold'[i] = hold[i] /\ mind'[i] = mind[i] /\ length'[i] = length[i]
        /\ here' = here /\ forgot' = forgot /\ pc[i] = "stamp" /\ pc'[i] = "load"
    BY <1>0, <1>7 DEF Stamp, TypeOK, options, historyVars
  <2>2. files'[hold[i]] = [files[hold[i]] EXCEPT !.length = length[i]]
    BY <1>7, StampWrite DEF Stamp, Writes
  <2>3. files[hold[i]] \in File
    BY <1>0, <2>1 DEF TypeOK, Process, Opening
  <2>4. files'[hold[i]].length = length[i] /\ files'[hold[i]].schema = files[hold[i]].schema
    BY <2>2, <2>3 DEF File
  <2> QED
    BY <1>0, <2>1, <2>4 DEF Process, Before, Opening
<1>8. CASE Load(i)
  <2>1. CASE dump[i]
    BY <1>8, <2>1, ExitProcess DEF Load
  <2>2. CASE ~dump[i]
    <3>1. hold'[i] = hold[i] /\ length'[i] = length[i] /\ files' = files
          /\ here' = here /\ forgot' = forgot /\ pc[i] = "load" /\ pc'[i] = "probe"
          /\ mind'[i] = IF files[hold[i]].parses THEN files[hold[i]].data ELSE Nothing
      BY <1>0, <1>8, <2>2 DEF Load, TypeOK, fileVars, options, historyVars
    <3>2. hold[i] \in 1..Len(files) /\ files[hold[i]].length = length[i]
          /\ length[i] # NoLength
      BY <1>0, <3>1, BaselineAssumption DEF Process, Opening
    <3>3. \A e \in files[hold[i]].data.hist : e[2] = length[i]
      BY <3>2 DEF IInv, OneLength
    <3>4. \A e \in mind'[i].hist : e[2] = length[i]
      BY <3>1, <3>3 DEF Nothing
    <3>5. hold[i] = here => \A n \in mind'[i].tmpl : n > forgot
      BY <3>1, <3>2 DEF IInv, ResetForgets, Nothing
    <3> QED
      BY <1>0, <3>1, <3>2, <3>4, <3>5 DEF Process, Before, Opening
  <2> QED
    BY <2>1, <2>2
<1>9. CASE Probe(i) \/ Unlink(i)
  <2>1. CASE Exit(i)
    BY <2>1, ExitProcess
  <2>2. CASE ~Exit(i)
    BY <1>0, <1>9, <2>2
       DEF Probe, Unlink, TypeOK, Process, Before, Opening, fileVars, options, historyVars
  <2> QED
    BY <2>1, <2>2
<1>10. CASE Bind(i) \/ Shutdown(i)
  BY <1>0, <1>10
     DEF Bind, Shutdown, TypeOK, Process, Before, Opening, fileVars, options, historyVars
<1>11. CASE Learn(i)
  <2>1. /\ pc'[i] = pc[i] /\ hold'[i] = hold[i] /\ length'[i] = length[i] /\ files' = files
        /\ here' = here /\ forgot' = forgot /\ pc[i] \in {"up", "draining", "removed"}
    BY <1>11 DEF Learn, Working, fileVars, options, historyVars
  <2>2. mind[i] \in Learned /\ mind'[i].hist = mind[i].hist \cup {<<items + 1, length[i]>>}
        /\ mind'[i].tmpl = mind[i].tmpl \cup {items + 1}
    BY <1>0, <1>11 DEF Learn, TypeOK, Learned
  <2>3. items + 1 > forgot
    BY DEF IInv, TypeOK
  <2> QED
    BY <1>0, <2>1, <2>2, <2>3 DEF Process, Before, Opening
<1>12. CASE Save(i)
  <2>1. UNCHANGED <<pc, length, hold, mind, here, forgot>> /\ WriteAll(i) /\ Working(i)
    BY <1>12 DEF Save, processVars, options
  <2>2. CASE hold[i] = 0
    BY <1>0, <2>1, <2>2 DEF WriteAll, Process, Before, Opening, Working
  <2>3. CASE hold[i] # 0
    <3>1. files'[hold[i]] = [files[hold[i]] EXCEPT !.data = mind[i], !.parses = TRUE]
      BY <2>1, <2>3, SaveWrite DEF Writes
    <3>2. files[hold[i]] \in File
      BY <1>0, <2>3 DEF TypeOK
    <3>3. files'[hold[i]].schema = files[hold[i]].schema
          /\ files'[hold[i]].length = files[hold[i]].length
      BY <3>1, <3>2 DEF File
    <3> QED
      BY <1>0, <2>1, <3>3 DEF Process, Before, Opening, Working
  <2> QED
    BY <2>2, <2>3
<1>13. CASE FinalSave(i)
  <2>1. CASE Exit(i)
    BY <2>1, ExitProcess
  <2>2. CASE ~Exit(i)
    BY <1>0, <1>13, <2>2 DEF FinalSave, TypeOK, Process, Before, Opening, options
  <2> QED
    BY <2>1, <2>2
<1>14. CASE RemoveSocket(i) \/ Crash(i)
  <2>1. CASE Exit(i)
    BY <2>1, ExitProcess
  <2>2. CASE ~Exit(i)
    BY <1>0, <1>14, <2>2
       DEF RemoveSocket, Crash, TypeOK, Process, Before, Opening, fileVars, options,
           historyVars
  <2> QED
    BY <2>1, <2>2
<1>15. CASE EnsureTables(i)
  <2>1. /\ hold'[i] = hold[i] /\ mind'[i] = mind[i] /\ length'[i] = length[i]
        /\ here' = here /\ forgot' = forgot /\ pc[i] = "tables" /\ pc'[i] = "schema"
    BY <1>0, <1>15 DEF EnsureTables, TypeOK, options, historyVars
  <2> QED
    BY <1>0, <2>1 DEF Process, Before, Opening
<1> QED
  BY <1>1, <1>2, <1>3, <1>4, <1>5, <1>6, <1>7, <1>8, <1>9, <1>10, <1>11, <1>12,
     <1>13, <1>14, <1>15 DEF Step

-----------------------------------------------------------------------------
(* The lock, and what the files hold                                       *)

\* A process gets a file open only when it is no one else's.
LEMMA HoldStep ==
  ASSUME IInv, NEW i \in Instances, Step(i)
  PROVE  hold'[i] \in {0, hold[i]} \/ \A j \in Instances : hold[j] # hold'[i]
<1>0. TypeOK /\ Len(files) \in Nat /\ \A j \in Instances : hold[j] \in 0..Len(files)
  BY DEF IInv, TypeOK
<1>1. ASSUME Create(i), CanCreate PROVE \A j \in Instances : hold[j] # hold'[i]
  BY <1>0, <1>1 DEF Create, CanCreate, Locked, TypeOK
<1>2. CASE Open(i) \/ Recreate(i)
  BY <1>0, <1>1, <1>2 DEF Open, Recreate, WithoutFile, Exit, TypeOK
<1>3. CASE ~(Open(i) \/ Recreate(i))
  BY <1>0, <1>3
     DEF Step, Start, MoveAside, EnsureTables, ReadSchema, CheckLength, Stamp, Load, Probe,
         Unlink, Bind, Learn, Save, Shutdown, FinalSave, RemoveSocket, Crash, WithoutFile, Exit, TypeOK,
         processVars
<1> QED
  BY <1>2, <1>3

\* A file is made empty and without a length.
LEMMA NewStep ==
  ASSUME IInv, NEW i \in Instances, Step(i)
  PROVE  \/ Len(files') = Len(files)
         \/ Len(files') = Len(files) + 1 /\ files'[Len(files) + 1] = Fresh
<1>0. TypeOK
  BY DEF IInv
<1>1. CASE Open(i) \/ Recreate(i)
  BY <1>0, <1>1, NewFile DEF Open, Recreate, Create, TypeOK
<1>2. CASE Save(i) \/ FinalSave(i)
  BY <1>0, <1>2 DEF Save, FinalSave, WriteAll, TypeOK
<1>3. CASE EnsureTables(i) \/ ReadSchema(i) \/ CheckLength(i) \/ Stamp(i)
  BY <1>0, <1>3 DEF EnsureTables, ReadSchema, CheckLength, Stamp, TypeOK
<1>4. CASE ~(Open(i) \/ Recreate(i) \/ Save(i) \/ FinalSave(i)
             \/ EnsureTables(i) \/ ReadSchema(i) \/ CheckLength(i) \/ Stamp(i))
  BY <1>4 DEF Step, Start, MoveAside, Load, Probe, Unlink, Bind, Learn, Shutdown,
              RemoveSocket, Crash, fileVars
<1> QED
  BY <1>1, <1>2, <1>3, <1>4

\* The file a process has open keeps to one length, and to what came after
\* the last reset.
LEMMA OwnFile ==
  ASSUME IInv, NEW i \in Instances, Step(i), hold[i] # 0
  PROVE  LET f == files'[hold[i]] IN
         /\ f.length # NoLength => \A e \in f.data.hist : e[2] = f.length
         /\ hold[i] = here => \A n \in f.data.tmpl : n > forgot
<1> DEFINE f == files[hold[i]]
           g == files'[hold[i]]
<1>0. /\ TypeOK /\ Process(i) /\ hold[i] \in 1..Len(files) /\ f \in File
      /\ f.length # NoLength => \A e \in f.data.hist : e[2] = f.length
      /\ hold[i] = here => \A n \in f.data.tmpl : n > forgot
  BY DEF IInv, TypeOK, OneLength, ResetForgets
<1>1. CASE UNCHANGED files
  BY <1>0, <1>1
<1>2. CASE ReadSchema(i) /\ ~UNCHANGED files
  <2>1. g = [f EXCEPT !.schema = Current]
    BY <1>2, SchemaWrite DEF ReadSchema, Writes
  <2>2. g.length = f.length /\ g.data = f.data
    BY <1>0, <2>1 DEF File
  <2> QED
    BY <1>0, <2>2
<1>3. CASE CheckLength(i) /\ ~UNCHANGED files
  <2>1. g = [f EXCEPT !.data.hist = {}]
    BY <1>3, WipeWrite DEF CheckLength, Writes
  <2>2. g.data.hist = {} /\ g.data.tmpl = f.data.tmpl
    BY <1>0, <2>1 DEF File, Learned
  <2> QED
    BY <1>0, <2>2
<1>4. CASE Stamp(i)
  <2>1. g = [f EXCEPT !.length = length[i]] /\ f.data.hist = {}
    BY <1>0, <1>4, StampWrite DEF Stamp, Writes, Process
  <2>2. g.data = f.data
    BY <1>0, <2>1 DEF File
  <2> QED
    BY <1>0, <2>1, <2>2
<1>5. CASE Save(i) \/ FinalSave(i)
  <2>1. WriteAll(i) /\ pc[i] \notin {"tables", "schema", "length", "stamp"}
    BY <1>5 DEF Save, FinalSave, Working
  <2>2. g = [f EXCEPT !.data = mind[i], !.parses = TRUE]
    BY <2>1, SaveWrite DEF Writes
  <2>3. g.data = mind[i] /\ g.length = f.length /\ f.length = length[i]
    BY <1>0, <2>1, <2>2 DEF File, Process
  <2> QED
    BY <1>0, <2>3 DEF Process
<1>6. CASE Open(i) \/ Recreate(i)
  BY <1>0, <1>6 DEF Open, Recreate, Process, Before
<1>7. CASE ~(Open(i) \/ Recreate(i) \/ Save(i) \/ FinalSave(i)
             \/ EnsureTables(i) \/ ReadSchema(i) \/ CheckLength(i) \/ Stamp(i))
  <2>1. UNCHANGED files
    BY <1>7 DEF Step, Start, MoveAside, Load, Probe, Unlink, Bind, Learn, Shutdown,
                RemoveSocket, Crash, fileVars
  <2> QED
    BY <1>1, <2>1
<1>8. CASE EnsureTables(i)
  <2>1. g = [f EXCEPT !.tables = TRUE]
    BY <1>8, TablesWrite DEF Writes
  <2>2. g.length = f.length /\ g.data = f.data
    BY <1>0, <2>1 DEF File
  <2> QED
    BY <1>0, <2>2
<1> QED
  BY <1>1, <1>2, <1>3, <1>4, <1>5, <1>6, <1>7, <1>8

-----------------------------------------------------------------------------
(* The inductive invariant                                                 *)

LEMMA InitInv == Init => IInv
<1> SUFFICES ASSUME Init PROVE IInv
  OBVIOUS
<1>1. /\ pc = [i \in Instances |-> "off"] /\ hold = [i \in Instances |-> 0]
      /\ mind = [i \in Instances |-> Nothing] /\ items = 1 /\ forgot = 0
      /\ length = [i \in Instances |-> NoLength] /\ dump = [i \in Instances |-> FALSE]
      /\ corrupt = {} /\ sock \in {Free, Stale} /\ starts = 0 /\ alone = TRUE
  BY DEF Init
<1>2. Exclusive /\ forgot <= items /\ \A i \in Instances : Process(i)
  BY <1>1 DEF Exclusive, Process, Before, Opening, Nothing
<1>3. CASE files = <<>> /\ here = 0 /\ saved = Nothing
  <2>1. files \in Seq(File) /\ Len(files) = 0
    BY <1>3
  <2>2. TypeOK
    BY <1>1, <1>3, <2>1, NothingLearned DEF TypeOK, Steps
  <2>3. OneLength /\ ResetForgets
    BY <1>3, <2>1 DEF OneLength, ResetForgets
  <2> QED
    BY <1>1, <1>2, <2>2, <2>3 DEF IInv
<1>4. ASSUME NEW l \in Lengths, NEW f \in Earlier(l), files = <<f>>, here = 1,
             saved = IF f.schema = Current /\ f.opens /\ f.parses THEN f.data ELSE Nothing
      PROVE  IInv
  <2> DEFINE d == [hist |-> {<<1, l>>}, tmpl |-> {1}]
  <2>0. d \in Learned
    <3>1. 1 \in 1..MaxItems
      BY BaselineAssumption
    <3> QED
      BY <3>1 DEF Learned
  <2>1. f \in File /\ f.length \in {l, NoLength} /\ f.data.hist = {<<1, l>>}
        /\ f.data.tmpl = {1} /\ f.data \in Learned
    <3> HIDE DEF d
    <3>1. \E s \in {Current, Newer, Older}, n \in {l, NoLength}, o, p, t \in BOOLEAN :
            f = [schema |-> s, length |-> n, opens |-> o, parses |-> p, tables |-> t,
                 data |-> d]
      BY <1>4 DEF Earlier, d
    <3>2. f \in File /\ f.length \in {l, NoLength} /\ f.data = d
      BY <2>0, <3>1 DEF File
    <3> QED
      BY <2>0, <3>2 DEF d
  <2>2. files \in Seq(File) /\ Len(files) = 1 /\ files[1] = f
    BY <1>4, <2>1
  <2>3. TypeOK
    BY <1>1, <1>4, <2>1, <2>2, NothingLearned DEF TypeOK, Steps
  <2>4. OneLength /\ ResetForgets
    BY <1>1, <1>4, <2>1, <2>2 DEF OneLength, ResetForgets
  <2> QED
    BY <1>1, <1>2, <2>3, <2>4 DEF IInv
<1>5. \/ files = <<>> /\ here = 0 /\ saved = Nothing
      \/ \E l \in Lengths : \E f \in Earlier(l) :
           /\ files = <<f>> /\ here = 1
           /\ saved = IF f.schema = Current /\ f.opens /\ f.parses THEN f.data ELSE Nothing
  BY DEF Init
<1> QED
  BY <1>3, <1>4, <1>5

LEMMA NextInv == IInv /\ [Next]_vars => IInv'
<1> SUFFICES ASSUME IInv, [Next]_vars PROVE IInv'
  OBVIOUS
<1>1. ASSUME NEW i \in Instances, Step(i) PROVE IInv'
  <2>1. TypeOK' /\ OthersStay(i) /\ FilesStay(i)
    BY <1>1, StepTypes, StepStays
  <2>2. \A j \in Instances : Process(j)'
    BY <1>1, OwnProcess, OtherProcess
  <2>3. Exclusive'
    BY <1>1, <2>1, HoldStep DEF IInv, Exclusive, OthersStay
  <2>4. OneLength'
    <3> SUFFICES ASSUME NEW f \in 1..Len(files'), files'[f].length # NoLength
                 PROVE  \A e \in files'[f].data.hist : e[2] = files'[f].length
      BY DEF OneLength
    <3>1. CASE f \in 1..Len(files) /\ f # hold[i]
      BY <2>1, <3>1 DEF FilesStay, IInv, OneLength
    <3>2. CASE f = hold[i]
      BY <1>1, <3>2, OwnFile
    <3>3. CASE f \notin 1..Len(files)
      <4>1. files'[f] = Fresh
        BY <1>1, <3>3, NewStep DEF IInv, TypeOK
      <4> QED
        BY <4>1 DEF Fresh, Nothing
    <3> QED
      BY <3>1, <3>2, <3>3
  <2>5. ResetForgets'
    <3> SUFFICES ASSUME here' # 0, NEW n \in files'[here'].data.tmpl PROVE n > forgot'
      BY DEF ResetForgets
    <3>0. here' \in 1..Len(files') /\ Len(files) \in Nat
      BY <2>1 DEF TypeOK, IInv
    <3>1. here' \in {here, Len(files) + 1} /\ forgot' = forgot
      BY <2>1 DEF FilesStay
    <3>2. CASE here' \notin 1..Len(files)
      <4>1. files'[here'] = Fresh
        BY <1>1, <3>0, <3>1, <3>2, NewStep
      <4> QED
        BY <4>1 DEF Fresh, Nothing
    <3>3. CASE here' \in 1..Len(files) /\ here' # hold[i]
      BY <2>1, <3>0, <3>1, <3>3 DEF FilesStay, IInv, ResetForgets
    <3>4. CASE here' \in 1..Len(files) /\ here' = hold[i]
      BY <1>1, <3>0, <3>1, <3>4, OwnFile
    <3> QED
      BY <3>2, <3>3, <3>4
  <2>6. (forgot <= items)'
    BY <1>1 DEF IInv, TypeOK, Step, Start, Open, MoveAside, Recreate, EnsureTables,
                ReadSchema, CheckLength, Stamp, Load, Probe, Unlink, Bind, Learn, Save, Shutdown,
                FinalSave, RemoveSocket, Crash, countVars, historyVars
  <2> QED
    BY <2>1, <2>2, <2>3, <2>4, <2>5, <2>6 DEF IInv
<1>2. CASE UNCHANGED vars
  BY <1>2 DEF IInv, vars, fileVars, options, processVars, countVars, historyVars, TypeOK,
              Exclusive, OneLength, ResetForgets, Process
<1> QED
  BY <1>1, <1>2 DEF Next, Step

LEMMA Invariance == Spec => []IInv
BY InitInv, NextInv, PTL DEF Spec

-----------------------------------------------------------------------------
(* The theorems                                                            *)

\* Every variable of files, processes and socket stays in its domain.
THEOREM FileTypes == Spec => []TypeOK
<1>1. IInv => TypeOK
  BY DEF IInv
<1> QED
  BY <1>1, Invariance, PTL

\* redb's lock, as open and the end of a process use it: no file is open in
\* two processes.
THEOREM OneHolder == Spec => []Exclusive
<1>1. IInv => Exclusive
  BY DEF IInv
<1> QED
  BY <1>1, Invariance, PTL

\* check_bucket_seconds: no histogram is used with, or lies in a file beside,
\* a bucket length it was not counted in.
THEOREM LengthsStayApart == Spec => []NeverMixesLengths
<1>1. IInv => NeverMixesLengths
  BY DEF IInv, NeverMixesLengths, Process, OneLength
<1> QED
  BY <1>1, Invariance, PTL

\* --reset-baselines: nothing from before it is in the file at the path.
THEOREM ResetIsFinal == Spec => []ResetForgets
<1>1. IInv => ResetForgets
  BY DEF IInv
<1> QED
  BY <1>1, Invariance, PTL

\* What a newer version saved is never changed: a process has such a file open
\* only until it has read the version, and all it writes before are the tables.
THEOREM NewerStays == Spec => NewerIsKept
<1> DEFINE Kept == \A f \in 1..Len(files) : files[f].schema = Newer =>
              files'[f] \in {files[f], [files[f] EXCEPT !.tables = TRUE]}
<1>1. IInv /\ [Next]_vars => [Kept]_vars
  <2> SUFFICES ASSUME IInv, NEW i \in Instances, Step(i), NEW f \in 1..Len(files),
                      files[f].schema = Newer
               PROVE  files'[f] \in {files[f], [files[f] EXCEPT !.tables = TRUE]}
    BY DEF Next, Step
  <2>1. CASE f # hold[i]
    BY <2>1, StepStays DEF FilesStay
  <2>2. CASE f = hold[i]
    <3>1. pc[i] \in {"tables", "schema"}
      BY <2>2 DEF IInv, Process, Current, Newer
    <3>2. CASE EnsureTables(i)
      BY <2>2, <3>2, TablesWrite DEF Writes
    <3>3. CASE ~EnsureTables(i)
      <4>1. UNCHANGED files
        BY <2>2, <3>1, <3>3
           DEF Step, Start, Open, MoveAside, Recreate, ReadSchema, CheckLength, Stamp, Load,
               Probe, Unlink, Bind, Learn, Working, Save, Shutdown, FinalSave, RemoveSocket,
               Crash, fileVars, Current, Newer, NoSchema
      <4> QED
        BY <4>1
    <3> QED
      BY <3>2, <3>3
  <2> QED
    BY <2>1, <2>2
<1> QED
  BY <1>1, Invariance, PTL DEF Spec, NewerIsKept

-----------------------------------------------------------------------------
(* One process at a time                                                   *)

\* What is at the path says what was saved last, but for histograms that were
\* wiped for their length; what no process could read says nothing.
Agrees ==
  IF here # 0 /\ files[here].opens /\ files[here].parses
              /\ files[here].schema \in {Current, NoSchema}
  THEN files[here].data.tmpl = saved.tmpl /\ files[here].data.hist \in {saved.hist, {}}
  ELSE saved = Nothing

\* What a process has open is at the path; what it moves aside cannot be opened.
AtPath(i) ==
  /\ hold[i] # 0 => hold[i] = here /\ files[here].opens
  /\ pc[i] = "aside" => here # 0 /\ ~files[here].opens

Sole ==
  alone =>
    /\ Agrees
    /\ \A i, j \in Instances : pc[i] # "off" /\ pc[j] # "off" => i = j
    /\ \A i \in Instances : AtPath(i)

\* Only the start of a second process ends being alone.
LEMMA AloneStep ==
  ASSUME IInv, Sole, NEW i \in Instances, Step(i), alone'
  PROVE  /\ alone /\ Agrees /\ AtPath(i)
         /\ \A j \in Instances : j # i => pc[j] = "off" /\ hold[j] = 0
<1>1. alone /\ (pc[i] # "off" \/ \A j \in Instances : pc[j] = "off")
  BY DEF Step, Start, Open, MoveAside, Recreate, EnsureTables, ReadSchema, CheckLength, Stamp, Load, Probe,
         Unlink, Bind, Learn, Working, Save, Shutdown, FinalSave, RemoveSocket, Crash,
         countVars, historyVars
<1>2. \A j \in Instances : pc[j] = "off" => hold[j] = 0
  BY DEF IInv, Process, Before
<1> QED
  BY <1>1, <1>2 DEF Sole

\* A file that is only stamped says what it said.
LEMMA SameSaid ==
  ASSUME TypeOK, here \in 1..Len(files), Agrees,
         here' = here, saved' = saved, NEW f, Writes(here, f),
         f.opens = files[here].opens, f.parses = files[here].parses,
         f.schema \in {Current, NoSchema} <=> files[here].schema \in {Current, NoSchema},
         f.data.tmpl = files[here].data.tmpl, f.data.hist \in {files[here].data.hist, {}}
  PROVE  Agrees' /\ files'[here'].opens = files[here].opens
BY DEF Agrees, Writes

LEMMA CreateSole ==
  ASSUME IInv, Agrees, NEW i \in Instances, CanCreate, Create(i), saved' = saved
  PROVE  Agrees' /\ AtPath(i)'
<1>1. /\ TypeOK /\ Len(files) \in Nat
      /\ hold'[i] = here' /\ pc'[i] = "tables"
  BY DEF IInv, TypeOK, Create
<1>2. CASE here = 0
  <2>1. here' = Len(files) + 1 /\ files'[here'] = Fresh /\ here' # 0
    BY <1>1, <1>2, NewFile DEF Create, TypeOK
  <2>2. saved' = Nothing
    BY <1>2 DEF Agrees
  <2> QED
    BY <1>1, <2>1, <2>2 DEF Agrees, AtPath, Fresh, Nothing
<1>3. CASE here # 0
  <2>1. UNCHANGED <<files, here>> /\ files[here].opens
    BY <1>3 DEF Create, CanCreate
  <2> QED
    BY <1>1, <1>3, <2>1 DEF Agrees, AtPath
<1> QED
  BY <1>2, <1>3

\* What a process does that has the file open, or none.
LEMMA GoneSole ==
  ASSUME Agrees, NEW i \in Instances, UNCHANGED <<files, here, saved>>,
         hold'[i] = 0 \/ (hold'[i] = hold[i] /\ AtPath(i)), pc'[i] # "aside"
  PROVE  Agrees' /\ AtPath(i)'
BY DEF Agrees, AtPath

LEMMA OwnSole ==
  ASSUME IInv, NEW i \in Instances, Step(i), alone', Agrees, AtPath(i),
         \A j \in Instances : j # i => pc[j] = "off" /\ hold[j] = 0
  PROVE  Agrees' /\ AtPath(i)'
<1>0. TypeOK /\ Process(i) /\ hold[i] \in 0..Len(files) /\ Len(files) \in Nat
  BY DEF IInv, TypeOK
<1>1. ASSUME NEW l \in Lengths, NEW d \in BOOLEAN, NEW reset \in BOOLEAN,
             Start(i, l, d, reset)
      PROVE  Agrees' /\ AtPath(i)'
  <2>1. hold'[i] = 0 /\ pc'[i] = "open" /\ files' = files
    BY <1>0, <1>1 DEF Start, TypeOK, Process, Before
  <2>2. UNCHANGED <<here, saved>> \/ (here' = 0 /\ saved' = Nothing)
    BY <1>1 DEF Start
  <2> QED
    BY <2>1, <2>2 DEF Agrees, AtPath
<1>2. CASE Open(i)
  <2>1. CASE CanCreate /\ Create(i)
    BY <1>2, <2>1, CreateSole DEF Open, historyVars
  <2>2. CASE ~CanCreate /\ UNCHANGED <<files, here, hold, mind, options>>
    <3>1. hold[i] = 0 /\ pc'[i] # "off" /\ saved' = saved
      BY <1>0, <1>2, <2>2 DEF Open, Process, Before, TypeOK, historyVars
    <3>2. here # 0 /\ ~files[here].opens
      BY <2>2, <3>1 DEF CanCreate, Locked
    <3> QED
      BY <2>2, <3>1, <3>2 DEF Agrees, AtPath
  <2> QED
    BY <1>2, <2>1, <2>2 DEF Open
<1>3. CASE MoveAside(i)
  <2>1. here # 0 /\ ~files[here].opens /\ saved = Nothing /\ hold[i] = 0
    BY <1>0, <1>3 DEF MoveAside, AtPath, Agrees, Process, Before
  <2>2. here' = 0 /\ saved' = saved /\ hold'[i] = 0 /\ pc'[i] = "recreate"
    BY <1>0, <1>3, <2>1 DEF MoveAside, TypeOK, historyVars
  <2> QED
    BY <2>1, <2>2 DEF Agrees, AtPath
<1>4. ASSUME WithoutFile(i), UNCHANGED <<files, here, saved>>
      PROVE  Agrees' /\ AtPath(i)'
  <2>1. hold'[i] = 0 /\ pc'[i] # "aside"
    BY <1>0, <1>4 DEF WithoutFile, Exit, TypeOK
  <2> QED
    BY <1>4, <2>1, GoneSole
<1>5. ASSUME Exit(i), UNCHANGED <<files, here, saved>>
      PROVE  Agrees' /\ AtPath(i)'
  <2>1. hold'[i] = 0 /\ pc'[i] # "aside"
    BY <1>0, <1>5 DEF Exit, TypeOK
  <2> QED
    BY <1>5, <2>1, GoneSole
<1>6. CASE Recreate(i)
  <2>1. CASE CanCreate /\ Create(i)
    BY <1>6, <2>1, CreateSole DEF Recreate, historyVars
  <2>2. CASE WithoutFile(i) /\ UNCHANGED <<files, here>>
    BY <1>4, <1>6, <2>2 DEF Recreate, historyVars
  <2> QED
    BY <1>6, <2>1, <2>2 DEF Recreate
<1>7. ASSUME hold[i] # 0
      PROVE  /\ hold[i] = here /\ here \in 1..Len(files) /\ files[here].opens
             /\ files[here] \in File /\ files[here].data \in Learned
  <2>1. hold[i] = here /\ here \in 1..Len(files) /\ files[here].opens
    BY <1>0, <1>7 DEF AtPath
  <2>2. files[here] \in File
    BY <1>0, <2>1 DEF TypeOK
  <2> QED
    BY <2>1, <2>2 DEF File
<1>8. CASE ReadSchema(i)
  <2>1. CASE files[hold[i]].schema \in {NoSchema, Current}
             /\ files' = [files EXCEPT ![hold[i]].schema = Current]
             /\ pc' = [pc EXCEPT ![i] = "length"] /\ UNCHANGED <<hold, mind, options>>
    <3>1. hold[i] # 0 /\ pc[i] = "schema" /\ here' = here /\ saved' = saved
      BY <1>0, <1>8 DEF ReadSchema, Process, Opening, historyVars
    <3> DEFINE f == [files[here] EXCEPT !.schema = Current]
    <3>2. Writes(here, f)
      BY <1>7, <2>1, <3>1, SchemaWrite
    <3>3. f.opens = files[here].opens /\ f.parses = files[here].parses
          /\ f.schema = Current /\ f.data = files[here].data
      BY <1>7, <3>1 DEF File
    <3> HIDE DEF f
    <3>4. Agrees' /\ files'[here'].opens = files[here].opens
      BY <1>0, <1>7, <2>1, <3>1, <3>2, <3>3, SameSaid
    <3>5. hold'[i] = hold[i] /\ pc'[i] # "aside"
      BY <1>0, <2>1 DEF TypeOK
    <3> QED
      BY <1>7, <3>1, <3>4, <3>5 DEF AtPath
  <2> QED
    BY <1>4, <1>5, <1>8, <2>1 DEF ReadSchema, historyVars
<1>9. CASE CheckLength(i)
  <2>1. /\ hold[i] # 0 /\ pc[i] = "length" /\ here' = here /\ saved' = saved
        /\ hold'[i] = hold[i] /\ pc'[i] # "aside"
    BY <1>0, <1>9 DEF CheckLength, Process, Opening, TypeOK, historyVars
  <2>2. CASE UNCHANGED files
    BY <2>1, <2>2, GoneSole
  <2>3. CASE files' = [files EXCEPT ![hold[i]].data.hist = {}]
    <3> DEFINE f == [files[here] EXCEPT !.data.hist = {}]
    <3>1. Writes(here, f)
      BY <1>7, <2>1, <2>3, WipeWrite
    <3>2. f.opens = files[here].opens /\ f.parses = files[here].parses
          /\ f.schema = files[here].schema /\ f.data.tmpl = files[here].data.tmpl
          /\ f.data.hist = {}
      BY <1>7, <2>1 DEF File, Learned
    <3> HIDE DEF f
    <3>3. Agrees' /\ files'[here'].opens = files[here].opens
      BY <1>0, <1>7, <2>1, <3>1, <3>2, SameSaid
    <3> QED
      BY <1>7, <2>1, <3>3 DEF AtPath
  <2> QED
    BY <1>9, <2>2, <2>3 DEF CheckLength
<1>10. CASE Stamp(i)
  <2>1. /\ hold[i] # 0 /\ pc[i] = "stamp" /\ here' = here /\ saved' = saved
        /\ hold'[i] = hold[i] /\ pc'[i] # "aside"
    BY <1>0, <1>10 DEF Stamp, Process, Opening, TypeOK, historyVars
  <2> DEFINE f == [files[here] EXCEPT !.length = length[i]]
  <2>2. Writes(here, f)
    BY <1>7, <1>10, <2>1, StampWrite DEF Stamp
  <2>3. f.opens = files[here].opens /\ f.parses = files[here].parses
        /\ f.schema = files[here].schema /\ f.data = files[here].data
    BY <1>7, <2>1 DEF File
  <2> HIDE DEF f
  <2>4. Agrees' /\ files'[here'].opens = files[here].opens
    BY <1>0, <1>7, <2>1, <2>2, <2>3, SameSaid
  <2> QED
    BY <1>7, <2>1, <2>4 DEF AtPath
<1>11. CASE Load(i) \/ Probe(i) \/ Unlink(i) \/ Bind(i) \/ Learn(i) \/ Shutdown(i)
            \/ RemoveSocket(i) \/ Crash(i)
  <2>1. UNCHANGED <<files, here, saved>>
    BY <1>11 DEF Load, Probe, Unlink, Bind, Learn, Shutdown, RemoveSocket, Crash, fileVars,
                 historyVars
  <2>2. CASE Exit(i)
    BY <1>5, <2>1, <2>2
  <2>3. CASE ~Exit(i)
    <3>1. hold'[i] = hold[i] /\ pc'[i] # "aside"
      BY <1>0, <1>11, <2>3
         DEF Load, Probe, Unlink, Bind, Learn, Working, Shutdown, RemoveSocket, Crash, TypeOK
    <3> QED
      BY <2>1, <3>1, GoneSole
  <2> QED
    BY <2>2, <2>3
<1>12. CASE Save(i) \/ FinalSave(i)
  <2>1. /\ WriteAll(i) /\ here' = here /\ hold'[i] \in {0, hold[i]} /\ pc'[i] # "aside"
        /\ pc[i] \in {"up", "draining", "removed"}
    BY <1>0, <1>12 DEF Save, FinalSave, Exit, Working, TypeOK, processVars
  <2>2. CASE hold[i] = 0
    BY <2>1, <2>2, GoneSole DEF WriteAll
  <2>3. CASE hold[i] # 0
    <3>1. saved' = mind[i]
      BY <2>1, <2>3 DEF WriteAll
    <3>2. files'[here] = [files[here] EXCEPT !.data = mind[i], !.parses = TRUE]
      BY <1>7, <2>1, <2>3, SaveWrite DEF Writes
    <3>3. files'[here].data = mind[i] /\ files'[here].opens
          /\ files'[here].schema = files[here].schema /\ files'[here].parses
      BY <1>7, <2>3, <3>2 DEF File
    <3>4. files[here].schema = Current /\ here # 0
      BY <1>0, <1>7, <2>1, <2>3 DEF Process
    <3> QED
      BY <1>7, <2>1, <2>3, <3>1, <3>3, <3>4 DEF Agrees, AtPath
  <2> QED
    BY <2>2, <2>3
<1>13. CASE EnsureTables(i)
  <2>1. /\ hold[i] # 0 /\ pc[i] = "tables" /\ here' = here /\ saved' = saved
        /\ hold'[i] = hold[i] /\ pc'[i] # "aside"
    BY <1>0, <1>13 DEF EnsureTables, Process, Opening, TypeOK, historyVars
  <2> DEFINE f == [files[here] EXCEPT !.tables = TRUE]
  <2>2. Writes(here, f)
    BY <1>7, <1>13, <2>1, TablesWrite
  <2>3. f.opens = files[here].opens /\ f.parses = files[here].parses
        /\ f.schema = files[here].schema /\ f.data = files[here].data
    BY <1>7, <2>1 DEF File
  <2> HIDE DEF f
  <2>4. Agrees' /\ files'[here'].opens = files[here].opens
    BY <1>0, <1>7, <2>1, <2>2, <2>3, SameSaid
  <2> QED
    BY <1>7, <2>1, <2>4 DEF AtPath
<1> QED
  BY <1>1, <1>2, <1>3, <1>6, <1>8, <1>9, <1>10, <1>11, <1>12, <1>13 DEF Step

LEMMA SoleHolds == Spec => []Sole
<1>1. Init => Sole
  <2> SUFFICES ASSUME Init
               PROVE  Sole
    OBVIOUS
  <2>1. /\ pc = [i \in Instances |-> "off"] /\ hold = [i \in Instances |-> 0]
    BY DEF Init
  <2>2. CASE here = 0 /\ saved = Nothing
    BY <2>1, <2>2 DEF Sole, Agrees, AtPath
  <2>3. ASSUME NEW l \in Lengths, NEW f \in Earlier(l), files = <<f>>, here = 1,
               saved = IF f.schema = Current /\ f.opens /\ f.parses THEN f.data ELSE Nothing
        PROVE  Sole
    <3>1. files[here] = f
      BY <2>3
    <3>2. f.schema # NoSchema
      <4> DEFINE d == [hist |-> {<<1, l>>}, tmpl |-> {1}]
      <4> HIDE DEF d
      <4>1. \E s \in {Current, Newer, Older}, n \in {l, NoLength}, o, p, t \in BOOLEAN :
              f = [schema |-> s, length |-> n, opens |-> o, parses |-> p, tables |-> t,
                   data |-> d]
        BY <2>3 DEF Earlier, d
      <4> QED
        BY <4>1 DEF Current, Newer, Older, NoSchema
    <3>3. Agrees
      BY <2>3, <3>1, <3>2 DEF Agrees
    <3> QED
      BY <2>1, <3>3 DEF Sole, AtPath
  <2>4. \/ here = 0 /\ saved = Nothing
        \/ \E l \in Lengths : \E f \in Earlier(l) :
             /\ files = <<f>> /\ here = 1
             /\ saved = IF f.schema = Current /\ f.opens /\ f.parses THEN f.data ELSE Nothing
    BY DEF Init
  <2> QED
    BY <2>2, <2>3, <2>4
<1>2. IInv /\ Sole /\ [Next]_vars => Sole'
  <2> SUFFICES ASSUME IInv, Sole, [Next]_vars
               PROVE  Sole'
    OBVIOUS
  <2>1. ASSUME NEW i \in Instances, Step(i), alone'
        PROVE  /\ Agrees'
               /\ \A j, k \in Instances : pc'[j] # "off" /\ pc'[k] # "off" => j = k
               /\ \A j \in Instances : AtPath(j)'
    <3>1. /\ Agrees /\ AtPath(i)
          /\ \A j \in Instances : j # i => pc[j] = "off" /\ hold[j] = 0
      BY <2>1, AloneStep
    <3>2. Agrees' /\ AtPath(i)'
      BY <2>1, <3>1, OwnSole
    <3>3. \A j \in Instances : j # i => pc'[j] = "off" /\ hold'[j] = 0
      BY <2>1, <3>1, StepStays DEF OthersStay
    <3> QED
      BY <3>2, <3>3 DEF AtPath
  <2>2. CASE UNCHANGED vars
    BY <2>2 DEF vars, fileVars, options, processVars, countVars, historyVars, Sole, Agrees,
                AtPath
  <2> QED
    BY <2>1, <2>2 DEF Next, Step, Sole
<1> QED
  BY <1>1, <1>2, Invariance, PTL DEF Spec

\* What one daemon saves the next one starts with, whole: kills between the
\* wipe and the stamp, in the middle of the shutdown or before the first save,
\* files moved aside, resets and dumps in between, as long as one process runs
\* at a time.
THEOREM SavesAreRestored == Spec => SavedIsRestored
<1> DEFINE A == alone' => \A i \in Instances :
              /\ Working(i) /\ hold[i] # 0 => hold[i] = here
              /\ pc[i] = "load" /\ pc'[i] = "probe" =>
                   /\ mind'[i].tmpl = saved.tmpl
                   /\ mind'[i].hist \in {saved.hist, {}}
<1>1. IInv /\ Sole /\ [Next]_vars => [A]_vars
  <2> SUFFICES ASSUME IInv, Sole, NEW k \in Instances, Step(k), alone', NEW i \in Instances
               PROVE  /\ Working(i) /\ hold[i] # 0 => hold[i] = here
                      /\ pc[i] = "load" /\ pc'[i] = "probe" =>
                           /\ mind'[i].tmpl = saved.tmpl
                           /\ mind'[i].hist \in {saved.hist, {}}
    BY DEF Next, Step
  <2>1. Agrees /\ AtPath(i)
    BY AloneStep DEF Sole
  <2>2. ASSUME pc[i] = "load", pc'[i] = "probe"
        PROVE  mind'[i].tmpl = saved.tmpl /\ mind'[i].hist \in {saved.hist, {}}
    <3>1. TypeOK /\ Process(i)
      BY DEF IInv
    <3>2. i = k
      BY <2>2, StepStays DEF OthersStay
    <3>3. hold[i] # 0 /\ hold[i] = here /\ files[here].opens /\ files[here].schema = Current
      BY <2>1, <2>2, <3>1 DEF Process, Opening, AtPath
    <3>4. Load(i)
      BY <2>2, <3>1, <3>2
         DEF Step, Start, Open, MoveAside, Recreate, EnsureTables, ReadSchema, CheckLength,
             Stamp, Probe, Unlink, Bind, Learn, Working, Save, Shutdown, FinalSave, RemoveSocket, Crash,
             Exit, TypeOK
    <3>5. mind'[i] = IF files[here].parses THEN files[here].data ELSE Nothing
      BY <2>2, <3>1, <3>3, <3>4 DEF Load, Exit, TypeOK
    <3> QED
      BY <2>1, <3>3, <3>5 DEF Agrees, Nothing
  <2> QED
    BY <2>1, <2>2 DEF AtPath
<1> QED
  BY <1>1, Invariance, SoleHolds, PTL DEF Spec, SavedIsRestored
=============================================================================
