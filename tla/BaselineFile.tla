---------------------------- MODULE BaselineFile ----------------------------
(***************************************************************************)
(* How a daemon comes up, what it does to the baseline file and to the     *)
(* socket path on the way, and what is left when it goes down or dies      *)
(* (core/src/baseline/persist.rs, daemon/src/main.rs, the bind and the     *)
(* removal of the socket in daemon/src/server.rs).                         *)
(*                                                                         *)
(* main opens the database before it binds the socket, and the socket is   *)
(* what tells a second instance that there is a first.  Instances are      *)
(* processes: nothing stops an operator from starting two, or from running *)
(* --dump-baselines or --reset-baselines beside a running daemon.  A step  *)
(* is one transaction of redb or one file operation; a process may be      *)
(* killed between any two of them.                                         *)
(*                                                                         *)
(* Files are inodes: a rename moves the name, and a process goes on        *)
(* writing to the inode it opened.  redb, as the code uses it: create      *)
(* makes the file, or opens it under an exclusive lock; it fails for a     *)
(* file that is locked as well as for one that is no redb file; a          *)
(* transaction is atomic; the lock goes with the process.                  *)
(*                                                                         *)
(* What is learned is a set of numbered items.  An item is a template and  *)
(* a histogram entry, the latter counted in buckets of some length.        *)
(* Left out: the host name (a mismatch only warns), created_us and         *)
(* last_snapshot_us (only dumped), the permissions open restricts, the     *)
(* limits that prune what is saved.                                        *)
(***************************************************************************)
EXTENDS Integers, Sequences, FiniteSets, TLC

CONSTANTS
  Instances,  \* slots for processes
  Lengths,    \* values of analysis.bucket_seconds
  NoLength,   \* the meta table has no bucket_seconds
  Free,       \* nothing at the socket path
  Stale,      \* a socket file at the path that nobody listens on
  MaxStarts,  \* bound of the model: how many processes are ever started
  MaxItems    \* bound of the model: how many items are ever learned

ASSUME BaselineAssumption ==
  /\ NoLength \notin Lengths
  /\ Free \notin Instances /\ Stale \notin Instances /\ Free # Stale
  /\ MaxStarts \in Nat /\ MaxItems \in Nat \ {0}

\* Processes are alike, and bucket lengths are only compared for equality.
Alike == Permutations(Instances) \cup Permutations(Lengths)

VARIABLES
  files,   \* the inodes made so far
  here,    \* the inode at persistence.path, 0 if there is none
  corrupt, \* the inodes move_aside renamed as unreadable
  sock,    \* what is at socket.path: Free, Stale, or who listens on it
  pc,      \* per process: what it does next
  length,  \* per process: its analysis.bucket_seconds
  dump,    \* per process: started with --dump-baselines
  hold,    \* per process: the inode it has open, 0 if it has none
  mind,    \* per process: what it has learned
  items,   \* how many items exist
  starts,  \* how many processes were started
  saved,   \* history: what the last save wrote, if no reset came after it
  forgot,  \* history: the items that existed at the last reset
  alone    \* history: no two processes have run at the same time

fileVars    == <<files, here, corrupt>>
options     == <<length, dump>>
processVars == <<pc, options, hold, mind>>
countVars   == <<items, starts>>
historyVars == <<saved, forgot, alone>>
vars == <<fileVars, sock, processVars, countVars, historyVars>>

\* SCHEMA_VERSION, and a version of a later and of an unknown earlier program.
Current == 1
Newer == 2
Older == 0
NoSchema == -1

Learned == [hist : SUBSET ((1..MaxItems) \X Lengths), tmpl : SUBSET (1..MaxItems)]
Nothing == [hist |-> {}, tmpl |-> {}]

\* opens: redb can read it; parses: serde can read its values; tables: it has
\* all the tables of this program.
File == [schema : {NoSchema, Older, Current, Newer}, length : Lengths \cup {NoLength},
         opens : BOOLEAN, parses : BOOLEAN, tables : BOOLEAN, data : Learned]
Fresh == [schema |-> NoSchema, length |-> NoLength,
          opens |-> TRUE, parses |-> TRUE, tables |-> FALSE, data |-> Nothing]

Steps == {"off", "open", "aside", "recreate", "tables", "schema", "length", "stamp",
          "load", "probe", "unlink", "bind", "up", "draining", "saved", "removed"}

\* What an earlier run may have left at the path: nothing, or a file with
\* item 1, whose length a program before bucket_seconds did not write down,
\* or one that is damaged or of another version, without all the tables of
\* this one.
Earlier(l) ==
  LET good == [schema |-> Current, length |-> l, opens |-> TRUE, parses |-> TRUE,
               tables |-> TRUE, data |-> [hist |-> {<<1, l>>}, tmpl |-> {1}]]
  IN {good} \cup {[good EXCEPT !.length = NoLength],
                  [good EXCEPT !.opens = FALSE], [good EXCEPT !.parses = FALSE],
                  [good EXCEPT !.schema = Newer, !.tables = FALSE],
                  [good EXCEPT !.schema = Older, !.tables = FALSE]}

Init ==
  /\ \/ files = <<>> /\ here = 0 /\ saved = Nothing
     \/ \E l \in Lengths : \E f \in Earlier(l) :
          /\ files = <<f>> /\ here = 1
          /\ saved = IF f.schema = Current /\ f.opens /\ f.parses THEN f.data ELSE Nothing
  /\ corrupt = {} /\ sock \in {Free, Stale}
  /\ pc = [i \in Instances |-> "off"]
  /\ length = [i \in Instances |-> NoLength]
  /\ dump = [i \in Instances |-> FALSE]
  /\ hold = [i \in Instances |-> 0]
  /\ mind = [i \in Instances |-> Nothing]
  /\ items = 1 /\ starts = 0
  /\ forgot = 0 /\ alone = TRUE

-----------------------------------------------------------------------------
(* main, up to the database                                                *)

\* --reset-baselines renames the file, whoever has it open.
Start(i, l, d, reset) ==
  /\ pc[i] = "off" /\ starts < MaxStarts
  /\ pc' = [pc EXCEPT ![i] = "open"]
  /\ length' = [length EXCEPT ![i] = l]
  /\ dump' = [dump EXCEPT ![i] = d]
  /\ starts' = starts + 1
  /\ alone' = (alone /\ \A j \in Instances : pc[j] = "off")
  /\ IF reset
     THEN here' = 0 /\ saved' = Nothing /\ forgot' = items
     ELSE UNCHANGED <<here, saved, forgot>>
  /\ UNCHANGED <<files, corrupt, sock, hold, mind, items>>

\* The process ends, and with it its lock.
Exit(i) ==
  /\ pc' = [pc EXCEPT ![i] = "off"]
  /\ length' = [length EXCEPT ![i] = NoLength]
  /\ dump' = [dump EXCEPT ![i] = FALSE]
  /\ hold' = [hold EXCEPT ![i] = 0]
  /\ mind' = [mind EXCEPT ![i] = Nothing]

\* open_baseline_db gives up on the file: a daemon runs without, a dump ends.
WithoutFile(i) ==
  IF dump[i]
  THEN Exit(i)
  ELSE /\ pc' = [pc EXCEPT ![i] = "probe"]
       /\ hold' = [hold EXCEPT ![i] = 0]
       /\ UNCHANGED <<mind, options>>

\* Whether Database::create succeeds.
Locked(f) == \E j \in Instances : hold[j] = f
CanCreate == here # 0 => files[here].opens /\ ~Locked(here)

Create(i) ==
  /\ IF here = 0
     THEN /\ files' = Append(files, Fresh)
          /\ here' = Len(files) + 1
          /\ hold' = [hold EXCEPT ![i] = Len(files) + 1]
     ELSE /\ hold' = [hold EXCEPT ![i] = here]
          /\ UNCHANGED <<files, here>>
  /\ pc' = [pc EXCEPT ![i] = "tables"]
  /\ UNCHANGED <<mind, options>>

\* The first Database::create of open.
Open(i) ==
  /\ pc[i] = "open"
  /\ \/ CanCreate /\ Create(i)
     \/ /\ ~CanCreate
        /\ pc' = [pc EXCEPT ![i] = "aside"]
        /\ UNCHANGED <<files, here, hold, mind, options>>
  /\ UNCHANGED <<corrupt, sock, countVars, historyVars>>

\* Any error of create leads here.  What is renamed is what is at the path
\* by now; a path that is gone makes the rename fail.
MoveAside(i) ==
  /\ pc[i] = "aside"
  /\ \/ /\ here = 0
        /\ WithoutFile(i)
        /\ UNCHANGED <<here, corrupt>>
     \/ /\ here # 0
        /\ corrupt' = corrupt \cup {here}
        /\ here' = 0
        /\ pc' = [pc EXCEPT ![i] = "recreate"]
        /\ UNCHANGED <<hold, mind, options>>
  /\ UNCHANGED <<files, sock, countVars, historyVars>>

\* The second Database::create, whose error is not handled again.
Recreate(i) ==
  /\ pc[i] = "recreate"
  /\ \/ CanCreate /\ Create(i)
     \/ ~CanCreate /\ WithoutFile(i) /\ UNCHANGED <<files, here>>
  /\ UNCHANGED <<corrupt, sock, countVars, historyVars>>

-----------------------------------------------------------------------------
(* The rest of BaselineDb::open, and load                                  *)

\* ensure_tables: one transaction on whatever file was opened, before its
\* version is known.
EnsureTables(i) ==
  /\ pc[i] = "tables"
  /\ files' = [files EXCEPT ![hold[i]].tables = TRUE]
  /\ pc' = [pc EXCEPT ![i] = "schema"]
  /\ UNCHANGED <<here, corrupt, sock, options, hold, mind, countVars, historyVars>>

\* Mutant: a newer version is taken for the current one.
ReadSchemaTrusting(i) ==
  LET f == hold[i] IN
  /\ pc[i] = "schema"
  /\ \/ /\ files[f].schema # Older
        /\ files' = [files EXCEPT ![f].schema = Current]
        /\ pc' = [pc EXCEPT ![i] = "length"]
        /\ UNCHANGED <<hold, mind, options>>
     \/ files[f].schema = Older /\ WithoutFile(i) /\ UNCHANGED files
  /\ UNCHANGED <<here, corrupt, sock, countVars, historyVars>>

\* A file without a version gets the current one; a newer one ends the
\* process; for an older one no migration exists.
ReadSchema(i) ==
  LET f == hold[i] IN
  /\ pc[i] = "schema"
  /\ \/ /\ files[f].schema \in {NoSchema, Current}
        /\ files' = [files EXCEPT ![f].schema = Current]
        /\ pc' = [pc EXCEPT ![i] = "length"]
        /\ UNCHANGED <<hold, mind, options>>
     \/ files[f].schema = Newer /\ Exit(i) /\ UNCHANGED files
     \/ files[f].schema = Older /\ WithoutFile(i) /\ UNCHANGED files
  /\ UNCHANGED <<here, corrupt, sock, countVars, historyVars>>

\* Mutants: an unknown length passes for the right one; the templates are
\* wiped along with the histograms.
CheckLengthTrusting(i) ==
  LET f == hold[i] IN
  /\ pc[i] = "length"
  /\ IF files[f].length \in {length[i], NoLength}
     THEN pc' = [pc EXCEPT ![i] = "load"] /\ UNCHANGED files
     ELSE /\ files' = [files EXCEPT ![f].data.hist = {}]
          /\ pc' = [pc EXCEPT ![i] = "stamp"]
  /\ UNCHANGED <<here, corrupt, sock, options, hold, mind, countVars, historyVars>>
CheckLengthWipesAll(i) ==
  LET f == hold[i] IN
  /\ pc[i] = "length"
  /\ IF files[f].length = length[i]
     THEN pc' = [pc EXCEPT ![i] = "load"] /\ UNCHANGED files
     ELSE /\ files' = [files EXCEPT ![f].data = Nothing]
          /\ pc' = [pc EXCEPT ![i] = "stamp"]
  /\ UNCHANGED <<here, corrupt, sock, options, hold, mind, countVars, historyVars>>

\* check_bucket_seconds: histograms of another or of an unknown length are
\* wiped, in a transaction of its own.
CheckLength(i) ==
  LET f == hold[i] IN
  /\ pc[i] = "length"
  /\ IF files[f].length = length[i]
     THEN pc' = [pc EXCEPT ![i] = "load"] /\ UNCHANGED files
     ELSE /\ files' = [files EXCEPT ![f].data.hist = {}]
          /\ pc' = [pc EXCEPT ![i] = "stamp"]
  /\ UNCHANGED <<here, corrupt, sock, options, hold, mind, countVars, historyVars>>

\* The write_meta that ends check_bucket_seconds.
Stamp(i) ==
  /\ pc[i] = "stamp"
  /\ files' = [files EXCEPT ![hold[i]].length = length[i]]
  /\ pc' = [pc EXCEPT ![i] = "load"]
  /\ UNCHANGED <<here, corrupt, sock, options, hold, mind, countVars, historyVars>>

\* A dump prints and ends.  A daemon that cannot load begins empty.
Load(i) ==
  /\ pc[i] = "load"
  /\ IF dump[i]
     THEN Exit(i)
     ELSE /\ mind' = [mind EXCEPT ![i] = IF files[hold[i]].parses
                                         THEN files[hold[i]].data ELSE Nothing]
          /\ pc' = [pc EXCEPT ![i] = "probe"]
          /\ UNCHANGED <<hold, options>>
  /\ UNCHANGED <<fileVars, sock, countVars, historyVars>>

-----------------------------------------------------------------------------
(* bind_socket                                                             *)

\* Only an answer at the path tells of another daemon.  Where connect fails in
\* another way than by being refused, the start goes on, whoever listens.
Probe(i) ==
  /\ pc[i] = "probe"
  /\ \/ sock \in Instances /\ Exit(i)
     \/ /\ \E next \in {"unlink", "bind"} :
             /\ next = "unlink" => sock = Stale
             /\ pc' = [pc EXCEPT ![i] = next]
        /\ UNCHANGED <<hold, mind, options>>
  /\ UNCHANGED <<fileVars, sock, countVars, historyVars>>

\* Removes what is at the path by now; if nothing is, the start fails.
Unlink(i) ==
  /\ pc[i] = "unlink"
  /\ \/ sock = Free /\ Exit(i) /\ UNCHANGED sock
     \/ /\ sock # Free
        /\ sock' = Free
        /\ pc' = [pc EXCEPT ![i] = "bind"]
        /\ UNCHANGED <<hold, mind, options>>
  /\ UNCHANGED <<fileVars, countVars, historyVars>>

\* bind_with_mode: the rename replaces whatever is at the path.
Bind(i) ==
  /\ pc[i] = "bind"
  /\ sock' = i
  /\ pc' = [pc EXCEPT ![i] = "up"]
  /\ UNCHANGED <<fileVars, options, hold, mind, countVars, historyVars>>

-----------------------------------------------------------------------------
(* A running daemon                                                        *)

\* The pipeline works until it has drained what ingestion left behind.
Working(i) == pc[i] \in {"up", "draining", "removed"}

Learn(i) ==
  /\ Working(i) /\ items < MaxItems
  /\ items' = items + 1
  /\ mind' = [mind EXCEPT ![i].hist = @ \cup {<<items + 1, length[i]>>},
                          ![i].tmpl = @ \cup {items + 1}]
  /\ UNCHANGED <<fileVars, sock, pc, options, hold, starts, historyVars>>

\* save replaces everything in one transaction; nothing to do without a file.
WriteAll(i) ==
  IF hold[i] = 0
  THEN UNCHANGED <<files, saved>>
  ELSE /\ files' = [files EXCEPT ![hold[i]].data = mind[i], ![hold[i]].parses = TRUE]
       /\ saved' = mind[i]

\* The persist ticker.
Save(i) ==
  /\ Working(i)
  /\ WriteAll(i)
  /\ UNCHANGED <<here, corrupt, sock, processVars, countVars, forgot, alone>>

\* A signal, or the end of a replay.  From here the pipeline and the server
\* finish side by side, and main returns when both have.
Shutdown(i) ==
  /\ pc[i] = "up"
  /\ pc' = [pc EXCEPT ![i] = "draining"]
  /\ UNCHANGED <<fileVars, sock, options, hold, mind, countVars, historyVars>>

\* The pipeline saves once more and is dropped, which closes the database.
FinalSave(i) ==
  /\ WriteAll(i)
  /\ \/ /\ pc[i] = "draining"
        /\ pc' = [pc EXCEPT ![i] = "saved"]
        /\ hold' = [hold EXCEPT ![i] = 0]
        /\ UNCHANGED <<options, mind>>
     \/ pc[i] = "removed" /\ Exit(i)
  /\ UNCHANGED <<here, corrupt, sock, countVars, forgot, alone>>

\* After SHUTDOWN_GRACE server::run removes what is at the path by then.
RemoveSocket(i) ==
  /\ \/ /\ pc[i] = "draining"
        /\ pc' = [pc EXCEPT ![i] = "removed"]
        /\ UNCHANGED <<options, hold, mind>>
     \/ pc[i] = "saved" /\ Exit(i)
  /\ sock' = Free
  /\ UNCHANGED <<fileVars, countVars, historyVars>>

Crash(i) ==
  /\ pc[i] # "off"
  /\ sock' = IF sock = i THEN Stale ELSE sock
  /\ Exit(i)
  /\ UNCHANGED <<fileVars, countVars, historyVars>>

Next ==
  \E i \in Instances :
    \/ \E l \in Lengths : \E d, reset \in BOOLEAN : Start(i, l, d, reset)
    \/ Open(i) \/ MoveAside(i) \/ Recreate(i)
    \/ EnsureTables(i) \/ ReadSchema(i) \/ CheckLength(i) \/ Stamp(i) \/ Load(i)
    \/ Probe(i) \/ Unlink(i) \/ Bind(i)
    \/ Learn(i) \/ Save(i)
    \/ Shutdown(i) \/ FinalSave(i) \/ RemoveSocket(i) \/ Crash(i)

Spec == Init /\ [][Next]_vars

-----------------------------------------------------------------------------
(* Properties                                                              *)

\* Every variable stays in its domain.
TypeOK ==
  /\ files \in Seq(File) /\ here \in 0..Len(files) /\ corrupt \subseteq 1..Len(files)
  /\ sock \in Instances \cup {Free, Stale}
  /\ pc \in [Instances -> Steps] /\ length \in [Instances -> Lengths \cup {NoLength}]
  /\ dump \in [Instances -> BOOLEAN] /\ hold \in [Instances -> 0..Len(files)]
  /\ mind \in [Instances -> Learned]
  /\ items \in Nat /\ starts \in Nat
  /\ saved \in Learned /\ forgot \in Nat /\ alone \in BOOLEAN

\* persist.rs, check_bucket_seconds: bucket numbers of different lengths are
\* never compared.  No daemon works with a histogram counted in another
\* length, and no file holds one beside the length it is stamped with,
\* wherever a process died between the wipe and the stamp.
NeverMixesLengths ==
  /\ \A i \in Instances : \A e \in mind[i].hist : e[2] = length[i]
  /\ \A f \in 1..Len(files) : files[f].length # NoLength =>
       \A e \in files[f].data.hist : e[2] = files[f].length

\* persist.rs, NewerSchema: a file of a newer version is not overwritten.
\* Whatever process comes upon it, with whatever options, in whatever state
\* others left it: its version, its length and all its data stay.  Only tables
\* it lacks are added, before open looks at the version.
NewerIsKept ==
  [][\A f \in 1..Len(files) : files[f].schema = Newer =>
       files'[f] \in {files[f], [files[f] EXCEPT !.tables = TRUE]}]_vars

\* --reset-baselines is final: nothing that was learned before it is in the
\* file that daemons start from, whoever was running during the reset.
ResetForgets ==
  here # 0 => \A n \in files[here].data.tmpl : n > forgot

\* As long as there was one process at a time: while a daemon works its file
\* is the one at the path, so what it saves is what the next one loads; and a
\* daemon that starts with a database has exactly the templates of the last
\* save, and all or none of its histograms.
SavedIsRestored ==
  [][alone' => \A i \in Instances :
       /\ Working(i) /\ hold[i] # 0 => hold[i] = here
       /\ pc[i] = "load" /\ pc'[i] = "probe" =>
            /\ mind'[i].tmpl = saved.tmpl
            /\ mind'[i].hist \in {saved.hist, {}}]_vars

\* persist.rs: open moves unreadable files aside.
OnlyUnreadableIsMovedAside ==
  \A f \in corrupt : ~files[f].opens
=============================================================================
