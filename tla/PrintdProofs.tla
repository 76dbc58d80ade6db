---------------------------- MODULE PrintdProofs ----------------------------
(***************************************************************************)
(* Proofs about Printd, the print spooler daemon, and about the instance   *)
(* of it that MCPrintd describes.                                          *)
(*                                                                         *)
(* A job is in one place at a time: with the client thread that receives   *)
(* it, in the queue, with the printer thread, or on disk for the next      *)
(* start.  The inductive invariant says where, for every job and every     *)
(* control point (SpoolOwned to AtPrinter), and what the files, the        *)
(* answers and the paper say of it there (Progress to Emptied).  When the  *)
(* daemon stops while the job file is behind, numbers are given out again  *)
(* (Numbers): then the files of two jobs are the same, and what is said of *)
(* them is said only of jobs that are not Doubled.                         *)
(***************************************************************************)
EXTENDS MCPrintd, SequenceTheorems, TLAPS

-----------------------------------------------------------------------------
(* The inductive invariant.                                                *)

\* Control points of the printer thread at which it has a job.
PBusy == {"update", "config", "init", "open", "send", "status",
          "unlink_data", "unlink_req", "defer"}

\* The types of the variables, and what the types of some say of others: threads
\* exist while the daemon runs, and the printer thread has a job where its code
\* has one.
SpoolType ==
  /\ jobfile \in 0 .. (MaxJob + 1)
  /\ data \in [JobIds -> Files \cup {NoFile}]
  /\ reqs \in [JobIds -> {NoReq, Torn} \cup {Full(c) : c \in Clients}]
MainType ==
  /\ up \in {"down", "building", "signal", "serving"}
  /\ todo \subseteq JobIds
  /\ stops \in 0 .. MaxStops
  /\ nextjob \in 1 .. (MaxJob + 1)
  /\ unsaved \subseteq JobIds
  /\ stops = 0 => unsaved = {}
  /\ todo # {} => up \in {"building", "signal"}
PrinterType ==
  /\ queue \in Seq(Jobs)
  /\ ppc \in PrinterPCs
  /\ pjob \in Jobs \cup {NoJob}
  /\ ppc \in PBusy <=> pjob # NoJob
  /\ ppc = "none" <=> up = "down"
  /\ up = "down" => queue = <<>>
ConfigType ==
  /\ reread \in BOOLEAN
  /\ conf \in 0 .. MaxConf /\ hup \in 0 .. conf /\ printer \in 0 .. conf
WorkerType ==
  /\ wpc \in [Clients -> WorkerPCs]
  /\ wjob \in [Clients -> 0 .. MaxJob]
  /\ got \in [Clients -> 0 .. Pieces]
CommandType ==
  /\ cst \in [Clients -> {"new", "connected", "sending", "sent", "dead"}]
  /\ sent \in [Clients -> 0 .. Pieces]
PaperType == paper \subseteq [job : Jobs, file : Files, conf : 0 .. MaxConf]
ReplyType == reply \in [Clients -> 0 .. (MaxJob + 1)]

Types == /\ SpoolType /\ MainType /\ PrinterType /\ ConfigType
         /\ WorkerType /\ CommandType /\ PaperType /\ ReplyType

\* How far a print command and its client thread are.
Progress(c) ==
  /\ cst[c] \in {"new", "connected"} => sent[c] = 0
  /\ cst[c] = "sending" => sent[c] < Pieces
  /\ cst[c] = "sent" => sent[c] = Pieces
  /\ got[c] <= sent[c]
  /\ wpc[c] # "none" => up = "serving" /\ cst[c] # "new"
  /\ cst[c] = "new" \/ wpc[c] \in {"header", "newjob"} =>
       wjob[c] = 0 /\ got[c] = 0 /\ reply[c] = Unanswered
  /\ wpc[c] = "creat" => got[c] = 0
  /\ Drawn(c) \/ wpc[c] = "signal" => wjob[c] # 0
  /\ reply[c] \in JobIds => reply[c] = wjob[c]

\* The numbers given out so far lie below the next one, or below what the job file
\* says when the daemon is down, except for those a stop of the daemon left unsaved.
Below(c) == wjob[c] # 0 =>
  wjob[c] \in unsaved \/ wjob[c] < (IF up = "down" THEN jobfile ELSE nextjob)
\* Only those are given to a second thread, and never while the first is at work.
Numbers(c) ==
  /\ Below(c)
  /\ Drawn(c) => wjob[c] < nextjob
  /\ Doubled(c) => wjob[c] \in unsaved
  /\ Drawn(c) => \A d \in Clients : Drawn(d) /\ wjob[d] = wjob[c] => d = c

\* What is in the spool under a number belongs to a thread that drew it.
SpoolOwned ==
  \A j \in JobIds :
    /\ reqs[j] # NoReq => \E c \in Clients : wjob[c] = j
    /\ \A c \in Clients : reqs[j] = Full(c) \/ data[j].owner = c => wjob[c] = j
    /\ j \in todo => reqs[j] # NoReq

\* A pending job has the number its thread drew, and its control file; its thread
\* has done with it and did not reject it, and build_qonstart will not queue it again.
JobSound(jb) ==
  /\ wjob[jb.owner] = jb.id /\ ~Drawn(jb.owner) /\ reply[jb.owner] # Rejected
  /\ jb.id \notin todo
  /\ Doubled(jb.owner) \/ reqs[jb.id] = Full(jb.owner)
PendingSound == \A i \in 1 .. Len(Pending) : JobSound(Pending[i])

PendingApart == \A i, k \in 1 .. Len(Pending) : Pending[i].owner = Pending[k].owner => i = k

\* What is on paper belongs to a thread that drew the number.
PaperOwned == \A x \in paper : wjob[x.job.owner] = x.job.id /\ ~Drawn(x.job.owner)

\* What the spool holds for a job while its client thread is at work.
OnDisk(c) ==
  LET j == wjob[c] IN
  ~Doubled(c) =>
    /\ wpc[c] = "creat" => data[j] = NoFile
    /\ Drawn(c) /\ wpc[c] # "creat" => data[j] = File(c, got[c])
    /\ wpc[c] \in {"creat", "read", "creat_req", "undo_data"} => reqs[j] = NoReq
    /\ wpc[c] \in {"write_req", "undo_req"} => reqs[j] = Torn
    /\ wpc[c] \in {"respond", "add_job"} => reqs[j] = Full(c)

\* A document whose control file was written stays until it is printed.
Written ==
  \A j \in JobIds, c \in Clients :
    reqs[j] = Full(c) /\ ~Doubled(c) =>
      data[j].owner = c \/ (data[j] = NoFile /\ Job(j, c) \in Printed)

\* What the printer thread's control point says of its job.
AtPrinter ==
  /\ ppc = "send" => Doubled(pjob.owner) \/ data[pjob.id] # NoFile
  /\ ppc \in {"status", "unlink_data", "unlink_req"} => pjob \in Printed

\* A job whose number a client was given is printed or has its control file.
Answered(c) ==
  reply[c] \in JobIds /\ ~Doubled(c) =>
    Job(reply[c], c) \in Printed \/ reqs[reply[c]] = Full(c)

\* A rejected job has no control file, is not on paper, and its thread only clears up;
\* and no job has one before its thread wrote it.
Refused(c) ==
  /\ reply[c] = Rejected => /\ wpc[c] \in {"none", "undo_req", "undo_data"}
                            /\ \A j \in JobIds : reqs[j] # Full(c)
                            /\ \A x \in paper : x.job.owner # c
  /\ wpc[c] \in {"undo_req", "undo_data"} => reply[c] = Rejected
  /\ wpc[c] \in {"creat", "read", "creat_req", "write_req"} =>
       \A j \in JobIds : reqs[j] # Full(c)

\* As long as the daemon has not stopped, a rejected job leaves nothing behind.
Emptied(c) ==
  stops = 0 /\ reply[c] = Rejected /\ wpc[c] = "none" /\ wjob[c] # 0 =>
    data[wjob[c]] = NoFile /\ reqs[wjob[c]] = NoReq

IInv ==
  /\ Types /\ SpoolOwned /\ PendingSound /\ PendingApart /\ PaperOwned
  /\ Written /\ AtPrinter
  /\ \A c \in Clients :
       Progress(c) /\ Numbers(c) /\ OnDisk(c) /\ Answered(c) /\ Refused(c) /\ Emptied(c)
-----------------------------------------------------------------------------
(* The constants, and the records the spool is made of.                    *)

\* What PrintdAssumption says of the constants.
LEMMA Consts ==
  /\ Pieces \in Nat /\ Pieces > 0 /\ MaxJob \in Nat /\ MaxJob > 0
  /\ MaxStops \in Nat /\ MaxConf \in Nat
  /\ None \notin Clients
BY PrintdAssumption

\* Files, control files and jobs are told apart by their fields.
LEMMA Records ==
  /\ NoJob \notin Jobs /\ NoFile \notin Files
  /\ NoReq # Torn /\ NoFile = NoReq
  /\ \A c \in Clients :
       /\ Full(c) # NoReq /\ Full(c) # Torn
       /\ \A d \in Clients : Full(c) = Full(d) => c = d
       /\ \A n \in 0 .. Pieces : File(c, n) \in Files /\ File(c, n) # NoFile /\ File(c, n).owner = c
       /\ \A j \in JobIds : Job(j, c) \in Jobs /\ Job(j, c).id = j /\ Job(j, c).owner = c
  /\ \A jb \in Jobs : jb.id \in JobIds /\ jb.owner \in Clients /\ jb = Job(jb.id, jb.owner)
  /\ \A f \in Files : f.owner \in Clients /\ f.n \in 0 .. Pieces /\ f = File(f.owner, f.n)
  /\ NoFile.owner \notin Clients
<1> USE Consts
<1>1. NoJob \notin Jobs /\ NoFile \notin Files /\ NoFile.owner \notin Clients
  BY DEF NoJob, Jobs, JobIds, NoFile, Files
<1>2. NoReq # Torn /\ NoFile = NoReq
  <2>1. NoReq.n # Torn.n
    BY DEF NoReq, Torn
  <2> QED BY <2>1 DEF NoFile, NoReq
<1>3. ASSUME NEW c \in Clients
      PROVE  /\ Full(c) # NoReq /\ Full(c) # Torn
             /\ \A d \in Clients : Full(c) = Full(d) => c = d
  <2>1. Full(c).owner = c /\ NoReq.owner = None /\ Torn.owner = None
    BY DEF Full, NoReq, Torn
  <2>2. \A d \in Clients : Full(d).owner = d
    BY DEF Full
  <2> QED BY <2>1, <2>2
<1>4. \A c \in Clients, n \in 0 .. Pieces :
        File(c, n) \in Files /\ File(c, n) # NoFile /\ File(c, n).owner = c
  BY <1>1 DEF Files, File
<1>5. \A c \in Clients, j \in JobIds :
        Job(j, c) \in Jobs /\ Job(j, c).id = j /\ Job(j, c).owner = c
  BY DEF Jobs, Job
<1>6. \A jb \in Jobs : jb.id \in JobIds /\ jb.owner \in Clients /\ jb = Job(jb.id, jb.owner)
  BY DEF Jobs, Job
<1>7. \A f \in Files : f.owner \in Clients /\ f.n \in 0 .. Pieces /\ f = File(f.owner, f.n)
  BY DEF Files, File
<1> QED BY <1>1, <1>2, <1>3, <1>4, <1>5, <1>6, <1>7

-----------------------------------------------------------------------------
(* The jobs to be printed: the printer thread's and those on the list.     *)

\* The pending jobs are jobs; the printer thread's is the first.
LEMMA PendingType ==
  ASSUME PrinterType
  PROVE  /\ Pending \in Seq(Jobs)
         /\ pjob # NoJob => Len(Pending) > 0 /\ Pending[1] = pjob
         /\ pjob = NoJob => Pending = queue
<1>1. CASE pjob = NoJob
  BY <1>1 DEF PrinterType, Pending
<1>2. CASE pjob # NoJob
  <2>1. <<pjob>> \in Seq(Jobs) /\ queue \in Seq(Jobs) /\ Len(<<pjob>>) = 1
    BY <1>2 DEF PrinterType
  <2>2. Pending = <<pjob>> \o queue
    BY <1>2 DEF Pending
  <2> QED BY <1>2, <2>1, <2>2
<1> QED BY <1>1, <1>2

\* A list that is not empty is its head and its tail.
LEMMA QueueHead ==
  ASSUME PrinterType, queue # <<>>
  PROVE  /\ Head(queue) \in Jobs /\ Tail(queue) \in Seq(Jobs)
         /\ queue = <<Head(queue)>> \o Tail(queue)
<1>1. queue \in Seq(Jobs)
  BY DEF PrinterType
<1> QED BY <1>1, HeadTailProperties

\* Taking a job off the list for printing, and putting it back at its head, leave
\* the pending jobs and their order as they are.
LEMMA PendingKept ==
  ASSUME PrinterType, remove_job \/ replace_job \/ UNCHANGED <<pjob, queue>>
  PROVE  Pending' = Pending
<1>1. CASE remove_job
  <2>1. pjob = NoJob /\ queue # <<>> /\ pjob' = Head(queue) /\ queue' = Tail(queue)
    BY <1>1 DEF remove_job, PGo, PrinterType, PBusy
  <2>2. pjob' # NoJob
    BY <2>1, QueueHead, Records
  <2> QED BY <2>1, <2>2, QueueHead, PendingType DEF Pending
<1>2. CASE replace_job
  <2>1. pjob # NoJob /\ pjob' = NoJob /\ queue' = <<pjob>> \o queue
    BY <1>2 DEF replace_job, PGo, PrinterType, PBusy
  <2>2. queue' \in Seq(Jobs)
    BY <2>1 DEF PrinterType
  <2>3. Pending' = <<>> \o queue'
    BY <2>1 DEF Pending
  <2> QED BY <2>1, <2>2, <2>3 DEF Pending
<1>3. CASE UNCHANGED <<pjob, queue>>
  BY <1>3 DEF Pending
<1> QED BY <1>1, <1>2, <1>3

\* The printer thread is done with a job, which was the first.
LEMMA PendingDropped ==
  ASSUME PrinterType, Cancel \/ UnlinkReq
  PROVE  /\ pjob # NoJob /\ Pending # <<>> /\ Head(Pending) = pjob
         /\ Pending' = Tail(Pending)
<1>1. pjob # NoJob /\ pjob' = NoJob /\ queue' = queue
  BY DEF Cancel, UnlinkReq, PGo, PrinterType, PBusy
<1>2. queue \in Seq(Jobs) /\ <<pjob>> \in Seq(Jobs) /\ Len(<<pjob>>) = 1
  BY <1>1 DEF PrinterType
<1>3. Pending = <<pjob>> \o queue /\ Pending' = <<>> \o queue
  BY <1>1 DEF Pending
<1>4. Pending' = queue
  BY <1>2, <1>3
<1>5. Pending \in Seq(Jobs) /\ Pending # <<>> /\ Head(Pending) = pjob
  BY <1>2, <1>3
<1>6. Tail(Pending) = queue
  BY <1>2, <1>3
<1> QED BY <1>1, <1>4, <1>5, <1>6

\* A job that joins the list is the last of the pending ones.
LEMMA PendingAdded ==
  ASSUME PrinterType, NEW jb \in Jobs, pjob' = pjob, queue' = Append(queue, jb)
  PROVE  Pending' = Append(Pending, jb)
<1>1. CASE pjob = NoJob
  BY <1>1 DEF Pending, PrinterType
<1>2. CASE pjob # NoJob
  <2>1. queue \in Seq(Jobs) /\ <<pjob>> \in Seq(Jobs) /\ Len(<<pjob>>) = 1
    BY <1>2 DEF PrinterType
  <2>2. Pending = <<pjob>> \o queue /\ Pending' = <<pjob>> \o Append(queue, jb)
    BY <1>2 DEF Pending
  <2> QED BY <2>1, <2>2
<1> QED BY <1>1, <1>2

\* The printer thread's job is a pending one.
LEMMA AtHand ==
  ASSUME Types, PendingSound, pjob # NoJob
  PROVE  /\ pjob \in Jobs /\ pjob.id \in JobIds /\ pjob.owner \in Clients
         /\ pjob = Job(pjob.id, pjob.owner) /\ JobSound(pjob)
<1>1. Len(Pending) > 0 /\ Pending[1] = pjob /\ Pending \in Seq(Jobs)
  BY PendingType DEF Types
<1>2. 1 \in 1 .. Len(Pending)
  BY <1>1
<1>3. JobSound(pjob)
  BY <1>1, <1>2 DEF PendingSound
<1> QED BY <1>3, Records DEF Types, PrinterType

\* Of two threads with one number, each has a number that is given twice.
LEMMA Shared ==
  \A c, d \in Clients : wjob[c] = wjob[d] /\ wjob[c] # 0 => c = d \/ Doubled(c)
BY DEF Doubled

\* A number given twice stays so.
LEMMA DoubledKept ==
  ASSUME Types, \A c \in Clients : Progress(c), [Next]_vars
  PROVE  \A c \in Clients : Doubled(c) => Doubled(c)'
<1> USE DEF Doubled, Go, PGo, Reply, wakeup, Running, spool, main, config, pthr, workr,
     client, pframe
<1>1. CASE UNCHANGED wjob
  BY <1>1
<1>2. CASE \E c \in Clients : get_newjobno(c)
  <2>1. PICK c \in Clients : get_newjobno(c)
    BY <1>2
  <2>2. wjob[c] = 0 /\ wjob' = [wjob EXCEPT ![c] = nextjob]
    BY <2>1 DEF get_newjobno, Progress
  <2>3. wjob \in [Clients -> 0 .. MaxJob]
    BY DEF Types, WorkerType
  <2> QED BY <2>2, <2>3
<1> HIDE DEF Doubled
<1> QED
  BY <1>1, <1>2 DEF Next, vars, Build, Printer, Worker, Command, Quiet, Start,
       BuildSignal, BuildDone, Stop, Sighup, EditConfig, BuildTorn, BuildAdd,
       Accept, SendHeader, SendPiece, ClientDies, ReadHeader, HeaderFails,
       CreatData, CreatDataFails, ReadPiece, WritePieceFails, EndOfData, CreatReq,
       CreatReqFails, WriteReq, WriteReqFails, UndoReq, UndoData, Respond, add_job,
       Signal, Wait, remove_job, update_jobno, CheckConfig, init_printer, Cancel,
       Open, Send, SendFails, StatusOk, StatusFails, UnlinkData, UnlinkReq,
       replace_job, WakeUp

\* A client thread that has not queued its job has the printer thread's number only when
\* that was given twice.
LEMMA NotAtHand ==
  ASSUME IInv, pjob # NoJob
  PROVE  /\ pjob.id \in JobIds /\ pjob.owner \in Clients /\ wjob[pjob.owner] = pjob.id
         /\ \A c \in Clients :
              wjob[c] = pjob.id => c = pjob.owner \/ (Doubled(c) /\ Doubled(pjob.owner))
         /\ \A c \in Clients : Drawn(c) => c # pjob.owner
<1>1. pjob.id \in JobIds /\ pjob.owner \in Clients /\ wjob[pjob.owner] = pjob.id /\ ~Drawn(pjob.owner)
  BY AtHand DEF JobSound, IInv
<1>2. pjob.id # 0
  BY <1>1, Consts DEF JobIds
<1> QED BY <1>1, <1>2, Shared

\* Before a client thread has written its control file there is none under its number,
\* but for that of a job that shares the number.
LEMMA NotWritten ==
  ASSUME IInv, NEW c \in Clients,
         wpc[c] \in {"creat", "read", "creat_req", "write_req", "undo_req", "undo_data"}
  PROVE  wjob[c] \in JobIds /\ \A d \in Clients : Doubled(d) \/ reqs[wjob[c]] # Full(d)
<1>1. Drawn(c)
  BY DEF Drawn
<1>2. wjob[c] \in JobIds /\ wjob[c] # 0
  BY <1>1, Consts DEF IInv, Progress, Types, WorkerType, JobIds
<1>3. ASSUME NEW d \in Clients, ~Doubled(d), reqs[wjob[c]] = Full(d)
      PROVE  FALSE
  <2>1. wjob[d] = wjob[c]
    BY <1>2, <1>3 DEF IInv, SpoolOwned
  <2>2. d = c
    BY <1>2, <1>3, <2>1, Shared
  <2>3. reqs[wjob[c]] \in {NoReq, Torn}
    BY <1>3, <2>2 DEF IInv, OnDisk
  <2> QED BY <1>3, <2>2, <2>3, Records
<1> QED BY <1>2, <1>3

\* A pending job is a job.
LEMMA PendingJob ==
  ASSUME Types, NEW i \in 1 .. Len(Pending)
  PROVE  Pending[i] \in Jobs /\ Pending[i].id \in JobIds /\ Pending[i].owner \in Clients
<1>1. Pending \in Seq(Jobs)
  BY PendingType DEF Types
<1> QED BY <1>1, Records

\* What was printed was a job.
LEMMA PaperJob ==
  ASSUME Types, NEW x \in paper
  PROVE  /\ x.job \in Jobs /\ x.job.id \in JobIds /\ x.job.owner \in Clients
         /\ x.file \in Files /\ x.conf \in 0 .. MaxConf
         /\ x.job = Job(x.job.id, x.job.owner)
<1>1. x \in [job : Jobs, file : Files, conf : 0 .. MaxConf]
  BY DEF Types, PaperType
<1> QED BY <1>1, Records

\* The pending jobs stay sound when each of them does.
LEMMA SoundKept ==
  ASSUME IInv, Pending' = Pending, \A jb \in Jobs : JobSound(jb) => JobSound(jb)'
  PROVE  PendingSound'
BY PendingJob DEF PendingSound, IInv

LEMMA SoundDropped ==
  ASSUME IInv, Cancel \/ UnlinkReq,
         \A jb \in Jobs : JobSound(jb) /\ jb.owner # pjob.owner => JobSound(jb)'
  PROVE  PendingSound'
<1>1. /\ Pending \in Seq(Jobs) /\ Pending # <<>> /\ Pending[1] = pjob
      /\ Pending' = Tail(Pending)
  BY PendingDropped, PendingType DEF IInv, Types
<1>2. Len(Pending') = Len(Pending) - 1
  BY <1>1
<1>3. ASSUME NEW i \in 1 .. Len(Pending')
      PROVE  \E jb \in Jobs : Pending'[i] = jb /\ JobSound(jb) /\ jb.owner # pjob.owner
  <2>1. Pending'[i] = Pending[i + 1] /\ i + 1 \in 1 .. Len(Pending)
    BY <1>1, <1>2
  <2>2. 1 \in 1 .. Len(Pending) /\ i + 1 # 1
    BY <2>1
  <2>3. Pending[i + 1].owner # pjob.owner
    BY <1>1, <2>1, <2>2 DEF IInv, PendingApart
  <2> QED BY <2>1, <2>3, PendingJob DEF IInv, PendingSound
<1> QED BY <1>3 DEF PendingSound

LEMMA SoundAdded ==
  ASSUME IInv, NEW jb \in Jobs, Pending' = Append(Pending, jb), JobSound(jb)',
         \A b \in Jobs : JobSound(b) => JobSound(b)'
  PROVE  PendingSound'
<1>1. Pending \in Seq(Jobs)
  BY PendingType DEF IInv, Types
<1>2. ASSUME NEW i \in 1 .. Len(Pending')
      PROVE  \E b \in Jobs : Pending'[i] = b /\ JobSound(b)'
  <2>1. CASE i \in 1 .. Len(Pending)
    <3>1. Pending'[i] = Pending[i]
      BY <1>1, <2>1
    <3> QED BY <2>1, <3>1, PendingJob DEF IInv, PendingSound
  <2>2. CASE i \notin 1 .. Len(Pending)
    <3>1. Pending'[i] = jb
      BY <1>1, <2>2
    <3> QED BY <3>1
  <2> QED BY <2>1, <2>2
<1> QED BY <1>2 DEF PendingSound

-----------------------------------------------------------------------------
(* Signals.  What is needed of the threads holds whatever the job file     *)
(* says when the daemon stops.                                             *)

\* Threads exist while the daemon runs, and client threads while it serves.
Threads ==
  /\ up \in {"down", "building", "signal", "serving"}
  /\ ppc \in PrinterPCs
  /\ ppc = "none" <=> up = "down"
  /\ wpc \in [Clients -> WorkerPCs]
  /\ cst \in [Clients -> {"new", "connected", "sending", "sent", "dead"}]
  /\ \A c \in Clients : wpc[c] # "none" => up = "serving" /\ cst[c] # "new"

Signals == Threads /\ ConfigType /\ NoWakeupLost /\ ConfigFresh

\* Every step keeps the threads with the daemon.
LEMMA ThreadsStep ==
  ASSUME Threads, [Next]_vars
  PROVE  Threads'
<1> USE DEF Threads, WorkerPCs, PrinterPCs, Go, PGo, Reply, wakeup, Running, spool,
     main, config, pthr, workr, client, pframe
<1>1. CASE UNCHANGED <<up, ppc, wpc, cst>>
  BY <1>1
<1>2. CASE Start
  BY <1>2 DEF Start
<1>3. CASE \E j \in JobIds : BuildAdd(j)
  BY <1>3 DEF BuildAdd
<1>4. CASE BuildSignal
  BY <1>4 DEF BuildSignal
<1>5. CASE BuildDone
  BY <1>5 DEF BuildDone
<1>6. CASE Stop
  BY <1>6 DEF Stop
<1>7. CASE \E c \in Clients : Accept(c)
  BY <1>7 DEF Accept
<1>8. CASE \E c \in Clients : SendHeader(c)
  BY <1>8 DEF SendHeader
<1>9. CASE \E c \in Clients : SendPiece(c)
  BY <1>9 DEF SendPiece
<1>10. CASE \E c \in Clients : ClientDies(c)
  BY <1>10 DEF ClientDies
<1>11. CASE \E c \in Clients : ReadHeader(c)
  BY <1>11 DEF ReadHeader
<1>12. CASE \E c \in Clients : HeaderFails(c)
  BY <1>12 DEF HeaderFails
<1>13. CASE \E c \in Clients : get_newjobno(c)
  BY <1>13 DEF get_newjobno
<1>14. CASE \E c \in Clients : CreatData(c)
  BY <1>14 DEF CreatData
<1>15. CASE \E c \in Clients : CreatDataFails(c)
  BY <1>15 DEF CreatDataFails
<1>16. CASE \E c \in Clients : ReadPiece(c)
  BY <1>16 DEF ReadPiece
<1>17. CASE \E c \in Clients : WritePieceFails(c)
  BY <1>17 DEF WritePieceFails
<1>18. CASE \E c \in Clients : EndOfData(c)
  BY <1>18 DEF EndOfData
<1>19. CASE \E c \in Clients : CreatReq(c)
  BY <1>19 DEF CreatReq
<1>20. CASE \E c \in Clients : CreatReqFails(c)
  BY <1>20 DEF CreatReqFails
<1>21. CASE \E c \in Clients : WriteReq(c)
  BY <1>21 DEF WriteReq
<1>22. CASE \E c \in Clients : WriteReqFails(c)
  BY <1>22 DEF WriteReqFails
<1>23. CASE \E c \in Clients : UndoReq(c)
  BY <1>23 DEF UndoReq
<1>24. CASE \E c \in Clients : UndoData(c)
  BY <1>24 DEF UndoData
<1>25. CASE \E c \in Clients : Respond(c)
  BY <1>25 DEF Respond
<1>26. CASE \E c \in Clients : add_job(c)
  BY <1>26 DEF add_job
<1>27. CASE \E c \in Clients : Signal(c)
  BY <1>27 DEF Signal
<1>28. CASE Wait
  BY <1>28 DEF Wait
<1>29. CASE remove_job
  BY <1>29 DEF remove_job
<1>30. CASE update_jobno
  BY <1>30 DEF update_jobno
<1>31. CASE CheckConfig
  BY <1>31 DEF CheckConfig
<1>32. CASE init_printer
  BY <1>32 DEF init_printer
<1>33. CASE Cancel
  BY <1>33 DEF Cancel
<1>34. CASE Open
  BY <1>34 DEF Open
<1>35. CASE Send
  BY <1>35 DEF Send
<1>36. CASE SendFails
  BY <1>36 DEF SendFails
<1>37. CASE StatusOk
  BY <1>37 DEF StatusOk
<1>38. CASE StatusFails
  BY <1>38 DEF StatusFails
<1>39. CASE UnlinkData
  BY <1>39 DEF UnlinkData
<1>40. CASE UnlinkReq
  BY <1>40 DEF UnlinkReq
<1>41. CASE replace_job
  BY <1>41 DEF replace_job
<1>42. CASE WakeUp
  BY <1>42 DEF WakeUp
<1> HIDE DEF Threads, WorkerPCs, PrinterPCs
<1> QED
  BY <1>1, <1>2, <1>3, <1>4, <1>5, <1>6, <1>7, <1>8, <1>9, <1>10, <1>11, <1>12,
       <1>13, <1>14, <1>15, <1>16, <1>17, <1>18, <1>19, <1>20, <1>21, <1>22, <1>23,
       <1>24, <1>25, <1>26, <1>27, <1>28, <1>29, <1>30, <1>31, <1>32, <1>33, <1>34,
       <1>35, <1>36, <1>37, <1>38, <1>39, <1>40, <1>41, <1>42 DEF Next, vars, Build,
       Printer, Worker, Command, Quiet, Sighup, EditConfig, BuildTorn

\* No step puts the printer thread to sleep on a job nobody will signal.
LEMMA NoWakeupLostStep ==
  ASSUME Threads, NoWakeupLost, [Next]_vars
  PROVE  NoWakeupLost'
<1> USE DEF Threads, WorkerPCs, PrinterPCs, NoWakeupLost, Go, PGo, Reply, wakeup,
     Running, spool, main, config, pthr, workr, client, pframe
<1>1. CASE UNCHANGED <<up, wpc, ppc, queue>>
  BY <1>1
<1>2. CASE Start
  BY <1>2 DEF Start
<1>3. CASE \E j \in JobIds : BuildAdd(j)
  BY <1>3 DEF BuildAdd
<1>4. CASE BuildSignal
  BY <1>4 DEF BuildSignal
<1>5. CASE BuildDone
  BY <1>5 DEF BuildDone
<1>6. CASE Stop
  BY <1>6 DEF Stop
<1>7. CASE \E c \in Clients : Accept(c)
  BY <1>7 DEF Accept
<1>8. CASE \E c \in Clients : ReadHeader(c)
  BY <1>8 DEF ReadHeader
<1>9. CASE \E c \in Clients : HeaderFails(c)
  BY <1>9 DEF HeaderFails
<1>10. CASE \E c \in Clients : get_newjobno(c)
  BY <1>10 DEF get_newjobno
<1>11. CASE \E c \in Clients : CreatData(c)
  BY <1>11 DEF CreatData
<1>12. CASE \E c \in Clients : CreatDataFails(c)
  BY <1>12 DEF CreatDataFails
<1>13. CASE \E c \in Clients : ReadPiece(c)
  BY <1>13 DEF ReadPiece
<1>14. CASE \E c \in Clients : WritePieceFails(c)
  BY <1>14 DEF WritePieceFails
<1>15. CASE \E c \in Clients : EndOfData(c)
  BY <1>15 DEF EndOfData
<1>16. CASE \E c \in Clients : CreatReq(c)
  BY <1>16 DEF CreatReq
<1>17. CASE \E c \in Clients : CreatReqFails(c)
  BY <1>17 DEF CreatReqFails
<1>18. CASE \E c \in Clients : WriteReq(c)
  BY <1>18 DEF WriteReq
<1>19. CASE \E c \in Clients : WriteReqFails(c)
  BY <1>19 DEF WriteReqFails
<1>20. CASE \E c \in Clients : UndoReq(c)
  BY <1>20 DEF UndoReq
<1>21. CASE \E c \in Clients : UndoData(c)
  BY <1>21 DEF UndoData
<1>22. CASE \E c \in Clients : Respond(c)
  BY <1>22 DEF Respond
<1>23. CASE \E c \in Clients : add_job(c)
  BY <1>23 DEF add_job
<1>24. CASE \E c \in Clients : Signal(c)
  BY <1>24 DEF Signal
<1>25. CASE Wait
  BY <1>25 DEF Wait
<1>26. CASE remove_job
  BY <1>26 DEF remove_job
<1>27. CASE update_jobno
  BY <1>27 DEF update_jobno
<1>28. CASE CheckConfig
  BY <1>28 DEF CheckConfig
<1>29. CASE init_printer
  BY <1>29 DEF init_printer
<1>30. CASE Cancel
  BY <1>30 DEF Cancel
<1>31. CASE Open
  BY <1>31 DEF Open
<1>32. CASE Send
  BY <1>32 DEF Send
<1>33. CASE SendFails
  BY <1>33 DEF SendFails
<1>34. CASE StatusOk
  BY <1>34 DEF StatusOk
<1>35. CASE StatusFails
  BY <1>35 DEF StatusFails
<1>36. CASE UnlinkData
  BY <1>36 DEF UnlinkData
<1>37. CASE UnlinkReq
  BY <1>37 DEF UnlinkReq
<1>38. CASE replace_job
  BY <1>38 DEF replace_job
<1>39. CASE WakeUp
  BY <1>39 DEF WakeUp
<1> HIDE DEF Threads, WorkerPCs, PrinterPCs, NoWakeupLost
<1> QED
  BY <1>1, <1>2, <1>3, <1>4, <1>5, <1>6, <1>7, <1>8, <1>9, <1>10, <1>11, <1>12,
       <1>13, <1>14, <1>15, <1>16, <1>17, <1>18, <1>19, <1>20, <1>21, <1>22, <1>23,
       <1>24, <1>25, <1>26, <1>27, <1>28, <1>29, <1>30, <1>31, <1>32, <1>33, <1>34,
       <1>35, <1>36, <1>37, <1>38, <1>39 DEF Next, vars, Build, Printer, Worker,
       Command, Quiet, Sighup, EditConfig, BuildTorn, SendHeader, SendPiece,
       ClientDies

\* Every step keeps the versions of the configuration in order.
LEMMA ConfigTypeStep ==
  ASSUME ConfigType, [Next]_vars
  PROVE  ConfigType'
<1> USE Consts DEF ConfigType, Go, PGo, Reply, wakeup, Running, spool, main, config,
     pthr, workr, client, pframe
<1>1. CASE UNCHANGED <<reread, conf, hup, printer>>
  BY <1>1
<1>2. CASE Start
  BY <1>2 DEF Start
<1>3. CASE Stop
  BY <1>3 DEF Stop
<1>4. CASE Sighup
  BY <1>4 DEF Sighup
<1>5. CASE EditConfig
  BY <1>5 DEF EditConfig
<1>6. CASE CheckConfig
  BY <1>6 DEF CheckConfig
<1>7. CASE init_printer
  BY <1>7 DEF init_printer
<1> HIDE DEF ConfigType
<1> QED
  BY <1>1, <1>2, <1>3, <1>4, <1>5, <1>6, <1>7, SMTT(30) DEF Next, vars, Build, Printer,
       Worker, Command, Quiet, BuildSignal, BuildDone, BuildTorn, BuildAdd, Accept,
       SendHeader, SendPiece, ClientDies, ReadHeader, HeaderFails, get_newjobno,
       CreatData, CreatDataFails, ReadPiece, WritePieceFails, EndOfData, CreatReq,
       CreatReqFails, WriteReq, WriteReqFails, UndoReq, UndoData, Respond, add_job,
       Signal, Wait, remove_job, update_jobno, Cancel, Open, Send, SendFails,
       StatusOk, StatusFails, UnlinkData, UnlinkReq, replace_job, WakeUp

\* No step leaves the printer in use older than the last SIGHUP without asking for it to be read.
LEMMA ConfigFreshStep ==
  ASSUME Threads, ConfigType, ConfigFresh, [Next]_vars
  PROVE  ConfigFresh'
<1> USE Consts DEF Threads, WorkerPCs, PrinterPCs, ConfigType, ConfigFresh, Go, PGo,
     Reply, wakeup, Running, spool, main, config, pthr, workr, client, pframe
<1>1. CASE UNCHANGED <<up, reread, conf, hup, printer, ppc>>
  BY <1>1
<1>2. CASE Start
  BY <1>2 DEF Start
<1>3. CASE \E j \in JobIds : BuildAdd(j)
  BY <1>3 DEF BuildAdd
<1>4. CASE BuildSignal
  BY <1>4 DEF BuildSignal
<1>5. CASE BuildDone
  BY <1>5 DEF BuildDone
<1>6. CASE Stop
  BY <1>6 DEF Stop
<1>7. CASE Sighup
  BY <1>7 DEF Sighup
<1>8. CASE EditConfig
  BY <1>8 DEF EditConfig
<1>9. CASE \E c \in Clients : Signal(c)
  BY <1>9 DEF Signal
<1>10. CASE Wait
  BY <1>10 DEF Wait
<1>11. CASE remove_job
  BY <1>11 DEF remove_job
<1>12. CASE update_jobno
  BY <1>12 DEF update_jobno
<1>13. CASE CheckConfig
  BY <1>13 DEF CheckConfig
<1>14. CASE init_printer
  BY <1>14 DEF init_printer
<1>15. CASE Cancel
  BY <1>15 DEF Cancel
<1>16. CASE Open
  BY <1>16 DEF Open
<1>17. CASE Send
  BY <1>17 DEF Send
<1>18. CASE SendFails
  BY <1>18 DEF SendFails
<1>19. CASE StatusOk
  BY <1>19 DEF StatusOk
<1>20. CASE StatusFails
  BY <1>20 DEF StatusFails
<1>21. CASE UnlinkData
  BY <1>21 DEF UnlinkData
<1>22. CASE UnlinkReq
  BY <1>22 DEF UnlinkReq
<1>23. CASE replace_job
  BY <1>23 DEF replace_job
<1>24. CASE WakeUp
  BY <1>24 DEF WakeUp
<1> HIDE DEF Threads, WorkerPCs, PrinterPCs, ConfigType, ConfigFresh
<1> QED
  BY <1>1, <1>2, <1>3, <1>4, <1>5, <1>6, <1>7, <1>8, <1>9, <1>10, <1>11, <1>12,
       <1>13, <1>14, <1>15, <1>16, <1>17, <1>18, <1>19, <1>20, <1>21, <1>22, <1>23,
       <1>24 DEF Next, vars, Build, Printer, Worker, Command, Quiet, BuildTorn,
       Accept, SendHeader, SendPiece, ClientDies, ReadHeader, HeaderFails,
       get_newjobno, CreatData, CreatDataFails, ReadPiece, WritePieceFails,
       EndOfData, CreatReq, CreatReqFails, WriteReq, WriteReqFails, UndoReq,
       UndoData, Respond, add_job

\* Whatever the daemon's stops leave behind, the printer thread never sleeps on a job
\* without a signal on its way, and a SIGHUP is not forgotten.
THEOREM SignalsKept == Spec => []NoSignalLost
<1>1. Init => Signals
  <2> SUFFICES ASSUME Init PROVE Signals
    OBVIOUS
  <2>1. Threads
    BY DEF Init, Threads, WorkerPCs, PrinterPCs
  <2>2. ConfigType
    <3>1. 0 \in 0 .. MaxConf /\ 0 \in 0 .. 0
      BY Consts
    <3> QED BY <3>1 DEF Init, ConfigType
  <2>3. NoWakeupLost /\ ConfigFresh
    BY DEF Init, NoWakeupLost, ConfigFresh, Running
  <2> QED BY <2>1, <2>2, <2>3 DEF Signals
<1>2. Signals /\ [Next]_vars => Signals'
  BY ThreadsStep, NoWakeupLostStep, ConfigTypeStep, ConfigFreshStep DEF Signals
<1>3. Signals => NoSignalLost
  BY DEF Signals, NoSignalLost
<1> QED BY <1>1, <1>2, <1>3, PTL DEF Spec

\* Every step keeps the types of the spool.
LEMMA SpoolTypeStep ==
  ASSUME Types, \A c \in Clients : Progress(c), [Next]_vars
  PROVE  SpoolType'
<1> USE Consts DEF SpoolType, MainType, PrinterType, WorkerType, CommandType, Types,
     Progress, Drawn, JobIds, Files, File, NoFile, NoReq, Torn, Full, Jobs, PBusy,
     Go, PGo, Reply, wakeup, Running, spool, main, config, pthr, workr, client,
     pframe
<1>1. CASE UNCHANGED <<jobfile, data, reqs>>
  BY <1>1
<1>2. CASE \E j \in JobIds : BuildTorn(j)
  BY <1>2 DEF BuildTorn
<1>3. CASE \E c \in Clients : CreatData(c)
  BY <1>3 DEF CreatData
<1>4. CASE \E c \in Clients : ReadPiece(c)
  <2>1. PICK c \in Clients : ReadPiece(c)
    BY <1>4
  <2>2. wjob[c] \in JobIds /\ got[c] + 1 \in 0 .. Pieces
    <3>1. wpc[c] = "read" /\ got[c] < sent[c]
      BY <2>1 DEF ReadPiece
    <3>2. wjob[c] \in JobIds
      BY <3>1
    <3>3. got[c] \in Nat /\ sent[c] \in Nat /\ sent[c] <= Pieces
      OBVIOUS
    <3> QED BY <3>1, <3>2, <3>3, SMTT(30)
  <2>3. File(c, got[c] + 1) \in Files
    BY <2>2
  <2>4. /\ UNCHANGED <<jobfile, reqs>>
        /\ \/ data' = [data EXCEPT ![wjob[c]] = File(c, got[c] + 1)]
           \/ data' = [data EXCEPT ![wjob[c]] = data[wjob[c]]]
    BY <2>1 DEF ReadPiece, Rewritten
  <2> HIDE DEF File, Files, Full, NoReq, Torn, NoFile
  <2> QED BY <2>2, <2>3, <2>4
<1>5. CASE \E c \in Clients : CreatReq(c)
  BY <1>5 DEF CreatReq
<1>6. CASE \E c \in Clients : WriteReq(c)
  <2>1. PICK c \in Clients : WriteReq(c)
    BY <1>6
  <2> DEFINE R == {NoReq, Torn} \cup {Full(d) : d \in Clients}
  <2>2. reqs \in [JobIds -> R] /\ UNCHANGED <<jobfile, data>>
    BY <2>1 DEF WriteReq
  <2>3. PICK r \in R : reqs' = [reqs EXCEPT ![wjob[c]] = r]
    <3>1. wjob[c] \in JobIds
      BY <2>1 DEF WriteReq
    <3>2. reqs[wjob[c]] \in R /\ Full(c) \in R
      BY <2>2, <3>1
    <3> HIDE DEF R, Full, NoReq, NoFile
    <3> QED BY <2>1, <3>2 DEF WriteReq, Rewritten
  <2>4. reqs' \in [JobIds -> R]
    <3> HIDE DEF R
    <3> QED BY <2>2, <2>3
  <2> HIDE DEF R, Full, NoReq, Torn, File, Files, NoFile
  <2> QED BY <2>2, <2>4 DEF R
<1>7. CASE \E c \in Clients : UndoReq(c)
  BY <1>7 DEF UndoReq
<1>8. CASE \E c \in Clients : UndoData(c)
  BY <1>8 DEF UndoData
<1>9. CASE update_jobno
  <2>1. jobfile' = nextjob /\ UNCHANGED <<data, reqs>>
    BY <1>9 DEF update_jobno
  <2> QED BY <2>1
<1>10. CASE UnlinkData
  BY <1>10 DEF UnlinkData
<1>11. CASE UnlinkReq
  BY <1>11 DEF UnlinkReq
<1> QED
  BY <1>1, <1>2, <1>3, <1>4, <1>5, <1>6, <1>7, <1>8, <1>9, <1>10, <1>11 DEF Next,
       vars, Build, Printer, Worker, Command, Quiet, Start, BuildSignal, BuildDone,
       Stop, Sighup, EditConfig, BuildAdd, Accept, SendHeader, SendPiece,
       ClientDies, ReadHeader, HeaderFails, get_newjobno, CreatDataFails,
       WritePieceFails, EndOfData, CreatReqFails, WriteReqFails, Respond, add_job,
       Signal, Wait, remove_job, CheckConfig, init_printer, Cancel, Open, Send,
       SendFails, StatusOk, StatusFails, replace_job, WakeUp

\* Every step keeps the types of the client threads.
LEMMA WorkerTypeStep ==
  ASSUME Types, \A c \in Clients : Progress(c), [Next]_vars
  PROVE  WorkerType'
<1> USE Consts DEF SpoolType, MainType, WorkerType, CommandType, Types, WorkerPCs,
     Go, PGo, Reply, wakeup, Running, spool, main, config, pthr, workr, client,
     pframe
<1>1. CASE UNCHANGED <<wpc, wjob, got>>
  BY <1>1
<1>2. CASE \E c \in Clients : Accept(c)
  BY <1>2 DEF Accept
<1>3. CASE Start
  BY <1>3 DEF Start
<1>4. CASE Stop
  BY <1>4 DEF Stop
<1>5. CASE \E c \in Clients : ReadHeader(c)
  BY <1>5 DEF ReadHeader
<1>6. CASE \E c \in Clients : HeaderFails(c)
  BY <1>6 DEF HeaderFails
<1>7. CASE \E c \in Clients : get_newjobno(c)
  BY <1>7 DEF get_newjobno
<1>8. CASE \E c \in Clients : CreatData(c)
  BY <1>8 DEF CreatData
<1>9. CASE \E c \in Clients : CreatDataFails(c)
  BY <1>9 DEF CreatDataFails
<1>10. CASE \E c \in Clients : ReadPiece(c)
  BY <1>10 DEF ReadPiece
<1>11. CASE \E c \in Clients : WritePieceFails(c)
  BY <1>11 DEF WritePieceFails
<1>12. CASE \E c \in Clients : EndOfData(c)
  BY <1>12 DEF EndOfData
<1>13. CASE \E c \in Clients : CreatReq(c)
  BY <1>13 DEF CreatReq
<1>14. CASE \E c \in Clients : CreatReqFails(c)
  BY <1>14 DEF CreatReqFails
<1>15. CASE \E c \in Clients : WriteReq(c)
  BY <1>15 DEF WriteReq
<1>16. CASE \E c \in Clients : WriteReqFails(c)
  BY <1>16 DEF WriteReqFails
<1>17. CASE \E c \in Clients : UndoReq(c)
  BY <1>17 DEF UndoReq
<1>18. CASE \E c \in Clients : UndoData(c)
  BY <1>18 DEF UndoData
<1>19. CASE \E c \in Clients : Respond(c)
  BY <1>19 DEF Respond
<1>20. CASE \E c \in Clients : add_job(c)
  BY <1>20 DEF add_job
<1>21. CASE \E c \in Clients : Signal(c)
  BY <1>21 DEF Signal
<1> HIDE DEF SpoolType, MainType, WorkerType, CommandType, Types, WorkerPCs
<1> QED
  BY <1>1, <1>2, <1>3, <1>4, <1>5, <1>6, <1>7, <1>8, <1>9, <1>10, <1>11, <1>12,
       <1>13, <1>14, <1>15, <1>16, <1>17, <1>18, <1>19, <1>20, <1>21 DEF Next, vars,
       Build, Printer, Worker, Command, Quiet, BuildSignal, BuildDone, Sighup,
       EditConfig, BuildTorn, BuildAdd, SendHeader, SendPiece, ClientDies, Wait,
       remove_job, update_jobno, CheckConfig, init_printer, Cancel, Open, Send,
       SendFails, StatusOk, StatusFails, UnlinkData, UnlinkReq, replace_job, WakeUp

\* Every step keeps the types of the main thread.
LEMMA MainTypeStep ==
  ASSUME Types, \A c \in Clients : Progress(c), [Next]_vars
  PROVE  MainType'
<1> USE Consts DEF SpoolType, MainType, PrinterType, WorkerType, Types, Progress,
     PBusy, JobIds, Go, PGo, Reply, wakeup, Running, spool, main,
     config, pthr, workr, client, pframe
<1>1. CASE UNCHANGED <<up, todo, stops, unsaved, nextjob>>
  BY <1>1
<1>2. CASE Start
  BY <1>2 DEF Start
<1>3. CASE \E j \in JobIds : BuildTorn(j)
  BY <1>3 DEF BuildTorn
<1>4. CASE \E j \in JobIds : BuildAdd(j)
  BY <1>4 DEF BuildAdd
<1>5. CASE BuildSignal
  BY <1>5 DEF BuildSignal
<1>6. CASE BuildDone
  BY <1>6 DEF BuildDone
<1>7. CASE Stop
  <2>1. /\ up' = "down" /\ todo' = {} /\ stops' = stops + 1 /\ stops < MaxStops /\ nextjob' = nextjob
        /\ unsaved' = unsaved \cup {j \in JobIds : jobfile <= j /\ j < nextjob}
    BY <1>7 DEF Stop
  <2>2. unsaved' \subseteq JobIds
    <3> HIDE DEF JobIds
    <3> QED BY <2>1
  <2>3. stops' \in 0 .. MaxStops /\ stops' # 0
    BY <2>1
  <2> QED BY <2>1, <2>2, <2>3
<1>8. CASE \E c \in Clients : get_newjobno(c)
  BY <1>8 DEF get_newjobno
<1> HIDE DEF SpoolType, MainType, PrinterType, WorkerType, Types, Progress, PBusy,
     JobIds
<1> QED
  BY <1>1, <1>2, <1>3, <1>4, <1>5, <1>6, <1>7, <1>8, SMTT(30) DEF Next, vars, Build,
       Printer, Worker, Command, Quiet, Sighup, EditConfig, Accept, SendHeader,
       SendPiece, ClientDies, ReadHeader, HeaderFails, CreatData, CreatDataFails,
       ReadPiece, WritePieceFails, EndOfData, CreatReq, CreatReqFails, WriteReq,
       WriteReqFails, UndoReq, UndoData, Respond, add_job, Signal, Wait, remove_job,
       update_jobno, CheckConfig, init_printer, Cancel, Open, Send, SendFails, StatusOk,
       StatusFails, UnlinkData, UnlinkReq, replace_job, WakeUp

\* Every step keeps the types of the printer thread and of the job list.
LEMMA PrinterTypeStep ==
  ASSUME Types, \A c \in Clients : Progress(c), [Next]_vars
  PROVE  PrinterType'
<1> USE Consts DEF SpoolType, MainType, PrinterType, WorkerType, Types, Progress,
     Drawn, PBusy, PrinterPCs, Jobs, NoJob, Job, JobIds, Full, Torn, NoReq, Go, PGo,
     Reply, wakeup, Running, spool, main, config, pthr, workr, client, pframe
<1>1. CASE UNCHANGED <<up, queue, ppc, pjob>>
  BY <1>1
<1>2. CASE Start
  BY <1>2 DEF Start
<1>3. CASE \E j \in JobIds : BuildAdd(j)
  BY <1>3 DEF BuildAdd
<1>4. CASE BuildSignal
  BY <1>4 DEF BuildSignal
<1>5. CASE BuildDone
  BY <1>5 DEF BuildDone
<1>6. CASE Stop
  BY <1>6 DEF Stop
<1>7. CASE \E c \in Clients : add_job(c)
  BY <1>7 DEF add_job
<1>8. CASE \E c \in Clients : Signal(c)
  BY <1>8 DEF Signal
<1>9. CASE Wait
  BY <1>9 DEF Wait
<1>10. CASE remove_job
  <2>1. Head(queue) \in Jobs /\ Tail(queue) \in Seq(Jobs)
    BY <1>10, QueueHead DEF remove_job
  <2>2. Head(queue) # NoJob
    BY <2>1, Records
  <2> QED BY <1>10, <2>1, <2>2 DEF remove_job
<1>11. CASE update_jobno
  BY <1>11 DEF update_jobno
<1>12. CASE CheckConfig
  BY <1>12 DEF CheckConfig
<1>13. CASE init_printer
  BY <1>13 DEF init_printer
<1>14. CASE Cancel
  BY <1>14 DEF Cancel
<1>15. CASE Open
  BY <1>15 DEF Open
<1>16. CASE Send
  BY <1>16 DEF Send
<1>17. CASE SendFails
  BY <1>17 DEF SendFails
<1>18. CASE StatusOk
  BY <1>18 DEF StatusOk
<1>19. CASE StatusFails
  BY <1>19 DEF StatusFails
<1>20. CASE UnlinkData
  BY <1>20 DEF UnlinkData
<1>21. CASE UnlinkReq
  BY <1>21 DEF UnlinkReq
<1>22. CASE replace_job
  BY <1>22 DEF replace_job
<1>23. CASE WakeUp
  BY <1>23 DEF WakeUp
<1> HIDE DEF SpoolType, MainType, PrinterType, WorkerType, Types, Progress, Drawn,
     PBusy, PrinterPCs, Jobs, NoJob, Job, JobIds, Full, Torn, NoReq
<1> QED
  BY <1>1, <1>2, <1>3, <1>4, <1>5, <1>6, <1>7, <1>8, <1>9, <1>10, <1>11, <1>12, ZenonT(30),
       <1>13, <1>14, <1>15, <1>16, <1>17, <1>18, <1>19, <1>20, <1>21, <1>22, <1>23
       DEF Next, vars, Build, Printer, Worker, Command, Quiet, Sighup, EditConfig,
       BuildTorn, Accept, SendHeader, SendPiece, ClientDies, ReadHeader,
       HeaderFails, get_newjobno, CreatData, CreatDataFails, ReadPiece,
       WritePieceFails, EndOfData, CreatReq, CreatReqFails, WriteReq, WriteReqFails,
       UndoReq, UndoData, Respond

\* Every step keeps the types of the print commands.
LEMMA CommandTypeStep ==
  ASSUME Types, \A c \in Clients : Progress(c), [Next]_vars
  PROVE  CommandType'
<1> USE Consts DEF CommandType, Progress, Types, Go, PGo, Reply, wakeup, Running,
     spool, main, config, pthr, workr, client, pframe
<1>1. CASE UNCHANGED <<cst, sent>>
  BY <1>1
<1>2. CASE \E c \in Clients : Accept(c)
  BY <1>2 DEF Accept
<1>3. CASE Stop
  BY <1>3 DEF Stop
<1>4. CASE \E c \in Clients : SendHeader(c)
  BY <1>4 DEF SendHeader
<1>5. CASE \E c \in Clients : SendPiece(c)
  BY <1>5 DEF SendPiece
<1>6. CASE \E c \in Clients : ClientDies(c)
  BY <1>6 DEF ClientDies
<1> HIDE DEF CommandType, Progress, Types
<1> QED
  BY <1>1, <1>2, <1>3, <1>4, <1>5, <1>6 DEF Next, vars, Build, Printer, Worker,
       Command, Quiet, Start, BuildSignal, BuildDone, Sighup, EditConfig, BuildTorn,
       BuildAdd, ReadHeader, HeaderFails, get_newjobno, CreatData, CreatDataFails,
       ReadPiece, WritePieceFails, EndOfData, CreatReq, CreatReqFails, WriteReq,
       WriteReqFails, UndoReq, UndoData, Respond, add_job, Signal, Wait, remove_job,
       update_jobno, CheckConfig, init_printer, Cancel, Open, Send, SendFails,
       StatusOk, StatusFails, UnlinkData, UnlinkReq, replace_job, WakeUp

\* Every step keeps the type of the answers.
LEMMA ReplyTypeStep ==
  ASSUME Types, \A c \in Clients : Progress(c), [Next]_vars
  PROVE  ReplyType'
<1> USE Consts DEF WorkerType, MainType, ReplyType, Rejected, Types, Go, PGo, Reply,
     wakeup, Running, spool, main, config, pthr, workr, client, pframe
<1>1. CASE UNCHANGED <<reply>>
  BY <1>1
<1>2. CASE \E c \in Clients : HeaderFails(c)
  BY <1>2 DEF HeaderFails
<1>3. CASE \E c \in Clients : CreatDataFails(c)
  BY <1>3 DEF CreatDataFails
<1>4. CASE \E c \in Clients : WritePieceFails(c)
  BY <1>4 DEF WritePieceFails
<1>5. CASE \E c \in Clients : CreatReqFails(c)
  BY <1>5 DEF CreatReqFails
<1>6. CASE \E c \in Clients : WriteReqFails(c)
  BY <1>6 DEF WriteReqFails
<1>7. CASE \E c \in Clients : Respond(c)
  BY <1>7 DEF Respond
<1> HIDE DEF WorkerType, MainType, ReplyType, Rejected, Types
<1> QED
  BY <1>1, <1>2, <1>3, <1>4, <1>5, <1>6, <1>7 DEF Next, vars, Build, Printer,
       Worker, Command, Quiet, Start, BuildSignal, BuildDone, Stop, Sighup,
       EditConfig, BuildTorn, BuildAdd, Accept, SendHeader, SendPiece, ClientDies,
       ReadHeader, get_newjobno, CreatData, ReadPiece, EndOfData, CreatReq,
       WriteReq, UndoReq, UndoData, add_job, Signal, Wait, remove_job, update_jobno,
       CheckConfig, init_printer, Cancel, Open, Send, SendFails, StatusOk,
       StatusFails, UnlinkData, UnlinkReq, replace_job, WakeUp

\* Every step keeps the type of what is on paper.
LEMMA PaperTypeStep ==
  ASSUME Types, [Next]_vars
  PROVE  PaperType'
<1> USE Consts DEF SpoolType, PrinterType, ConfigType, PaperType, Types,
     PBusy, JobIds, NoJob, Jobs, Files, Go, PGo, Reply, wakeup, Running, spool,
     main, config, pthr, workr, client, pframe
<1>1. CASE UNCHANGED <<paper>>
  BY <1>1
<1>2. CASE Send
  <2>1. PICK f \in OpenFile : paper' = paper \cup {[job |-> pjob, file |-> f, conf |-> printer]}
    BY <1>2 DEF Send
  <2>2. pjob \in Jobs
    BY <1>2 DEF Send
  <2>3. f \in Files
    BY <2>2 DEF OpenFile, File, WorkerType
  <2>4. printer \in 0 .. MaxConf
    OBVIOUS
  <2> QED BY <2>1, <2>2, <2>3, <2>4
<1> HIDE DEF SpoolType, PrinterType, ConfigType, PaperType, Types, PBusy,
     JobIds, NoJob, Jobs, Files
<1> QED
  BY <1>1, <1>2, SMTT(30) DEF Next, vars, Build, Printer, Worker, Command, Quiet, Start,
       BuildSignal, BuildDone, Stop, Sighup, EditConfig, BuildTorn, BuildAdd,
       Accept, SendHeader, SendPiece, ClientDies, ReadHeader, HeaderFails,
       get_newjobno, CreatData, CreatDataFails, ReadPiece, WritePieceFails,
       EndOfData, CreatReq, CreatReqFails, WriteReq, WriteReqFails, UndoReq,
       UndoData, Respond, add_job, Signal, Wait, remove_job, update_jobno,
       CheckConfig, init_printer, Cancel, Open, SendFails, StatusOk, StatusFails,
       UnlinkData, UnlinkReq, replace_job, WakeUp

\* Every step keeps a print command and its client thread together.
LEMMA ProgressStep ==
  ASSUME Types, \A c \in Clients : Progress(c), [Next]_vars
  PROVE  \A c \in Clients : Progress(c)'
<1> USE Consts DEF Types, MainType, WorkerType, CommandType, ReplyType, Progress,
     Drawn, WorkerPCs, Rejected, Unanswered, JobIds, Go, PGo, Reply, wakeup,
     Running, spool, main, config, pthr, workr, client, pframe
<1>1. CASE UNCHANGED <<up, wpc, wjob, got, cst, sent, reply>>
  BY <1>1
<1>2. CASE Start
  BY <1>2 DEF Start
<1>3. CASE \E j \in JobIds : BuildAdd(j)
  BY <1>3 DEF BuildAdd
<1>4. CASE BuildSignal
  BY <1>4 DEF BuildSignal
<1>5. CASE BuildDone
  BY <1>5 DEF BuildDone
<1>6. CASE Stop
  BY <1>6 DEF Stop
<1>7. CASE \E c \in Clients : Accept(c)
  BY <1>7 DEF Accept
<1>8. CASE \E c \in Clients : SendHeader(c)
  BY <1>8 DEF SendHeader
<1>9. CASE \E c \in Clients : SendPiece(c)
  BY <1>9 DEF SendPiece
<1>10. CASE \E c \in Clients : ClientDies(c)
  BY <1>10 DEF ClientDies
<1>11. CASE \E c \in Clients : ReadHeader(c)
  BY <1>11 DEF ReadHeader
<1>12. CASE \E c \in Clients : HeaderFails(c)
  BY <1>12 DEF HeaderFails
<1>13. CASE \E c \in Clients : get_newjobno(c)
  BY <1>13 DEF get_newjobno
<1>14. CASE \E c \in Clients : CreatData(c)
  BY <1>14 DEF CreatData
<1>15. CASE \E c \in Clients : CreatDataFails(c)
  BY <1>15 DEF CreatDataFails
<1>16. CASE \E c \in Clients : ReadPiece(c)
  BY <1>16 DEF ReadPiece
<1>17. CASE \E c \in Clients : WritePieceFails(c)
  BY <1>17 DEF WritePieceFails
<1>18. CASE \E c \in Clients : EndOfData(c)
  BY <1>18 DEF EndOfData
<1>19. CASE \E c \in Clients : CreatReq(c)
  BY <1>19 DEF CreatReq
<1>20. CASE \E c \in Clients : CreatReqFails(c)
  BY <1>20 DEF CreatReqFails
<1>21. CASE \E c \in Clients : WriteReq(c)
  BY <1>21 DEF WriteReq
<1>22. CASE \E c \in Clients : WriteReqFails(c)
  BY <1>22 DEF WriteReqFails
<1>23. CASE \E c \in Clients : UndoReq(c)
  BY <1>23 DEF UndoReq
<1>24. CASE \E c \in Clients : UndoData(c)
  BY <1>24 DEF UndoData
<1>25. CASE \E c \in Clients : Respond(c)
  BY <1>25 DEF Respond
<1>26. CASE \E c \in Clients : add_job(c)
  BY <1>26 DEF add_job
<1>27. CASE \E c \in Clients : Signal(c)
  BY <1>27 DEF Signal
<1> HIDE DEF Types, MainType, WorkerType, CommandType, ReplyType, Progress, Drawn,
     WorkerPCs, Rejected, Unanswered, JobIds
<1> QED
  BY <1>1, <1>2, <1>3, <1>4, <1>5, <1>6, <1>7, <1>8, <1>9, <1>10, <1>11, <1>12,
       <1>13, <1>14, <1>15, <1>16, <1>17, <1>18, <1>19, <1>20, <1>21, <1>22, <1>23,
       <1>24, <1>25, <1>26, <1>27 DEF Next, vars, Build, Printer, Worker, Command,
       Quiet, Sighup, EditConfig, BuildTorn, Wait, remove_job, update_jobno,
       CheckConfig, init_printer, Cancel, Open, Send, SendFails, StatusOk,
       StatusFails, UnlinkData, UnlinkReq, replace_job, WakeUp

\* Every step keeps the numbers given out below the next one, unless a stop left them unsaved.
LEMMA BelowStep ==
  ASSUME Types, \A c \in Clients : Progress(c) /\ Below(c), [Next]_vars
  PROVE  \A c \in Clients : Below(c)'
<1> USE Consts DEF Types, MainType, WorkerType, SpoolType, Below, JobIds, Progress, Go, PGo,
     Reply, wakeup, Running, spool, main, config, pthr, workr, client, pframe
<1>1. CASE UNCHANGED <<wjob, nextjob, jobfile, up, unsaved>>
  BY <1>1
<1>2. CASE Start
  BY <1>2 DEF Start
<1>3. CASE Stop
  BY <1>3 DEF Stop
<1>4. CASE \E c \in Clients : get_newjobno(c)
  <2>1. PICK c \in Clients : get_newjobno(c)
    BY <1>4
  <2>2. /\ up = "serving" /\ UNCHANGED <<up, unsaved>> /\ nextjob' = nextjob + 1
        /\ wjob' = [wjob EXCEPT ![c] = nextjob]
    BY <2>1 DEF get_newjobno
  <2> QED BY <2>2
<1>5. CASE \E j \in JobIds : BuildAdd(j)
  BY <1>5 DEF BuildAdd
<1>6. CASE BuildSignal
  BY <1>6 DEF BuildSignal
<1>7. CASE BuildDone
  BY <1>7 DEF BuildDone
<1>8. CASE update_jobno
  BY <1>8 DEF update_jobno, PrinterType
<1> HIDE DEF Types, MainType, WorkerType, SpoolType, Below, JobIds, Progress
<1> QED
  BY <1>1, <1>2, <1>3, <1>4, <1>5, <1>6, <1>7, <1>8 DEF Next, vars, Build, Printer, Worker,
       Command, Quiet, Sighup, EditConfig, BuildTorn, Accept, SendHeader, SendPiece,
       ClientDies, ReadHeader, HeaderFails, CreatData, CreatDataFails, ReadPiece,
       WritePieceFails, EndOfData, CreatReq, CreatReqFails, WriteReq, WriteReqFails,
       UndoReq, UndoData, Respond, add_job, Signal, Wait, remove_job, CheckConfig,
       init_printer, Cancel, Open, Send, SendFails, StatusOk, StatusFails, UnlinkData,
       UnlinkReq, replace_job, WakeUp

\* No step other than drawing a number puts a thread to work on one.
LEMMA DrawnStep ==
  ASSUME Types, \A c \in Clients : Progress(c), [Next]_vars
  PROVE  \/ \E c \in Clients : get_newjobno(c)
         \/ /\ wjob' = wjob
            /\ \A c \in Clients : Drawn(c)' => Drawn(c) /\ Running /\ nextjob' = nextjob
<1> USE DEF Types, WorkerType, Progress, Drawn, Go, PGo, Reply, wakeup, Running, spool, main,
     config, pthr, workr, client, pframe
<1>1. CASE UNCHANGED <<wjob, wpc, nextjob>>
  BY <1>1
<1>2. CASE Start
  BY <1>2 DEF Start
<1>3. CASE Stop
  BY <1>3 DEF Stop
<1>4. CASE \E c \in Clients : Accept(c)
  BY <1>4 DEF Accept
<1>5. CASE \E c \in Clients : ReadHeader(c) \/ HeaderFails(c)
  BY <1>5 DEF ReadHeader, HeaderFails
<1>6. CASE \E c \in Clients : CreatData(c) \/ CreatDataFails(c)
  BY <1>6 DEF CreatData, CreatDataFails
<1>7. CASE \E c \in Clients : WritePieceFails(c) \/ EndOfData(c)
  BY <1>7 DEF WritePieceFails, EndOfData
<1>8. CASE \E c \in Clients : CreatReq(c) \/ CreatReqFails(c)
  BY <1>8 DEF CreatReq, CreatReqFails
<1>9. CASE \E c \in Clients : WriteReq(c) \/ WriteReqFails(c)
  BY <1>9 DEF WriteReq, WriteReqFails
<1>10. CASE \E c \in Clients : UndoReq(c) \/ UndoData(c)
  BY <1>10 DEF UndoReq, UndoData
<1>11. CASE \E c \in Clients : Respond(c) \/ add_job(c) \/ Signal(c)
  BY <1>11 DEF Respond, add_job, Signal
<1> HIDE DEF Types, WorkerType, Progress, Drawn
<1> QED
  BY <1>1, <1>2, <1>3, <1>4, <1>5, <1>6, <1>7, <1>8, <1>9, <1>10, <1>11 DEF Next, vars,
       Build, Printer, Worker, Command, Quiet, BuildSignal, BuildDone, Sighup,
       EditConfig, BuildTorn, BuildAdd, SendHeader, SendPiece, ClientDies, ReadPiece,
       Wait, remove_job, update_jobno, CheckConfig, init_printer, Cancel, Open, Send,
       SendFails, StatusOk, StatusFails, UnlinkData, UnlinkReq, replace_job, WakeUp

\* Every step keeps a number with one thread at work, and given twice only when a stop
\* left it unsaved.
LEMMA NumbersStep ==
  ASSUME Types, \A c \in Clients : Progress(c) /\ Numbers(c), [Next]_vars
  PROVE  \A c \in Clients : Numbers(c)'
<1>1. \A c \in Clients : Below(c)'
  BY BelowStep DEF Numbers
<1>2. unsaved \subseteq unsaved'
  BY DEF Next, vars, main, pframe, Build, Printer, Worker, Command, Quiet, Start,
       BuildSignal, BuildDone, Stop, Sighup, EditConfig, BuildTorn, BuildAdd,
       Accept, SendHeader, SendPiece, ClientDies, ReadHeader, HeaderFails, get_newjobno,
       CreatData, CreatDataFails, ReadPiece, WritePieceFails, EndOfData, CreatReq,
       CreatReqFails, WriteReq, WriteReqFails, UndoReq, UndoData, Respond, add_job,
       Signal, Wait, remove_job, update_jobno, CheckConfig, init_printer, Cancel,
       Open, Send, SendFails, StatusOk, StatusFails, UnlinkData, UnlinkReq,
       replace_job, WakeUp
<1>3. CASE wjob' = wjob /\ \A c \in Clients : Drawn(c)' => Drawn(c) /\ Running /\ nextjob' = nextjob
  <2>1. \A c \in Clients : Doubled(c)' <=> Doubled(c)
    BY <1>3 DEF Doubled
  <2> QED BY <1>1, <1>2, <1>3, <2>1 DEF Numbers
<1>4. CASE \E c \in Clients : get_newjobno(c)
  <2>1. PICK c \in Clients : get_newjobno(c)
    BY <1>4
  <2>2. /\ wjob[c] = 0 /\ up = "serving" /\ nextjob' = nextjob + 1 /\ nextjob \in Nat \ {0}
        /\ wjob' = [wjob EXCEPT ![c] = nextjob] /\ wpc' = [wpc EXCEPT ![c] = "creat"]
        /\ wjob \in [Clients -> 0 .. MaxJob] /\ wpc \in [Clients -> WorkerPCs]
    BY <2>1 DEF get_newjobno, Progress, Go, Types, WorkerType, MainType
  <2>3. \A d \in Clients \ {c} : wjob'[d] = wjob[d] /\ (Drawn(d)' <=> Drawn(d))
    BY <2>2 DEF Drawn
  <2>4. wjob'[c] = nextjob
    BY <2>2
  <2>5. \A d \in Clients : wjob[d] = nextjob => nextjob \in unsaved
    BY <2>2 DEF Numbers, Below
  <2>6. ASSUME NEW d \in Clients, Doubled(d)'
        PROVE  wjob'[d] \in unsaved
    <3>1. PICK e \in Clients \ {d} : wjob'[e] = wjob'[d] /\ wjob'[d] # 0
      BY <2>6 DEF Doubled
    <3>2. CASE d = c
      BY <2>3, <2>4, <2>5, <3>1, <3>2
    <3>3. CASE e = c
      BY <2>3, <2>4, <2>5, <3>1, <3>3
    <3>4. CASE d # c /\ e # c
      <4>1. Doubled(d)
        BY <2>3, <3>1, <3>4 DEF Doubled
      <4> QED BY <2>3, <3>4, <4>1 DEF Numbers
    <3> QED BY <3>2, <3>3, <3>4
  <2>7. ASSUME NEW d \in Clients, Drawn(d)'
        PROVE  wjob'[d] < nextjob' /\ \A e \in Clients : Drawn(e)' /\ wjob'[e] = wjob'[d] => e = d
    <3>1. \A e \in Clients \ {c} : Drawn(e)' => wjob'[e] = wjob[e] /\ Drawn(e) /\ wjob[e] \in Nat /\ wjob[e] < nextjob
      BY <2>2, <2>3 DEF Numbers
    <3>2. \A e \in Clients \ {c} : Drawn(e)' => wjob'[e] < nextjob' /\ wjob'[e] # nextjob
      BY <2>2, <3>1
    <3>3. nextjob < nextjob'
      BY <2>2
    <3> QED BY <2>4, <2>7, <3>1, <3>2, <3>3 DEF Numbers
  <2> QED BY <1>1, <1>2, <2>6, <2>7 DEF Numbers
<1> QED BY <1>3, <1>4, DrawnStep

\* Every step keeps what is in the spool with the thread that drew its number.
LEMMA SpoolOwnedStep ==
  ASSUME IInv, [Next]_vars
  PROVE  SpoolOwned'
<1>0. \A c \in Clients : Doubled(c) => Doubled(c)'
  BY DoubledKept DEF IInv
<1> USE Consts, Records, Shared, <1>0 DEF IInv, SpoolOwned, Types, MainType, WorkerType,
     SpoolType, Progress, Drawn, JobIds, PrinterType, PBusy, OnDisk, Go,
     PGo, Reply, wakeup, Running, spool, main, config, pthr, workr, client, pframe
<1>1. CASE UNCHANGED <<wjob, data, reqs, todo>>
  BY <1>1
<1>2. CASE Start
  BY <1>2 DEF Start
<1>3. CASE \E j \in JobIds : BuildTorn(j)
  BY <1>3 DEF BuildTorn
<1>4. CASE \E j \in JobIds : BuildAdd(j)
  BY <1>4 DEF BuildAdd
<1>5. CASE Stop
  BY <1>5 DEF Stop
<1>6. CASE \E c \in Clients : get_newjobno(c)
  BY <1>6 DEF get_newjobno
<1>7. CASE \E c \in Clients : CreatData(c)
  <2>1. PICK c \in Clients : CreatData(c)
    BY <1>7
  <2>2. File(c, 0) \in Files /\ File(c, 0).owner = c
    <3>1. 0 \in 0 .. Pieces
      OBVIOUS
    <3> QED BY <3>1
  <2> QED BY <2>1, <2>2 DEF CreatData
<1>8. CASE \E c \in Clients : ReadPiece(c)
  <2>1. PICK c \in Clients : ReadPiece(c)
    BY <1>8
  <2>2. got[c] + 1 \in 0 .. Pieces
    BY <2>1 DEF ReadPiece, CommandType
  <2>3. File(c, got[c] + 1) \in Files /\ File(c, got[c] + 1).owner = c
    BY <2>2
  <2> QED BY <2>1, <2>3, SMTT(30) DEF ReadPiece, Rewritten
<1>9. CASE \E c \in Clients : CreatReq(c)
  BY <1>9 DEF CreatReq
<1>10. CASE \E c \in Clients : WriteReq(c)
  BY <1>10 DEF WriteReq, Rewritten
<1>11. CASE \E c \in Clients : UndoReq(c)
  BY <1>11 DEF UndoReq
<1>12. CASE \E c \in Clients : UndoData(c)
  BY <1>12 DEF UndoData
<1>13. CASE UnlinkData
  BY <1>13 DEF UnlinkData
<1>14. CASE UnlinkReq
  <2>1. pjob # NoJob
    BY <1>14 DEF UnlinkReq
  <2>2. pjob.id \in JobIds /\ pjob.id \notin todo
    BY <2>1, AtHand DEF JobSound
  <2> QED BY <1>14, <2>2 DEF UnlinkReq
<1> HIDE DEF IInv, SpoolOwned, Types, MainType, WorkerType, SpoolType, Progress,
     Drawn, JobIds, PrinterType, PBusy, OnDisk
<1> QED
  BY <1>1, <1>2, <1>3, <1>4, <1>5, <1>6, <1>7, <1>8, <1>9, <1>10, <1>11, <1>12,
       <1>13, <1>14 DEF Next, vars, Build, Printer, Worker, Command, Quiet,
       BuildSignal, BuildDone, Sighup, EditConfig, Accept, SendHeader, SendPiece,
       ClientDies, ReadHeader, HeaderFails, CreatDataFails, WritePieceFails,
       EndOfData, CreatReqFails, WriteReqFails, Respond, add_job, Signal, Wait,
       remove_job, update_jobno, CheckConfig, init_printer, Cancel, Open, Send,
       SendFails, StatusOk, StatusFails, replace_job, WakeUp

\* Every step keeps what the spool holds for a thread at work.
LEMMA OnDiskStep ==
  ASSUME IInv, [Next]_vars
  PROVE  \A c \in Clients : OnDisk(c)'
<1>0. \A c \in Clients : Doubled(c) => Doubled(c)'
  BY DoubledKept DEF IInv
<1> USE Consts, Records, Shared, <1>0 DEF IInv, SpoolOwned, Types, MainType, WorkerType,
     SpoolType, Progress, Drawn, JobIds, PrinterType, PBusy, OnDisk, Go,
     PGo, Reply, wakeup, Running, spool, main, config, pthr, workr, client, pframe
<1>1. CASE UNCHANGED <<wpc, wjob, got, data, reqs>>
  BY <1>1
<1>2. CASE \E c \in Clients : Accept(c)
  BY <1>2 DEF Accept
<1>3. CASE Start
  BY <1>3 DEF Start
<1>4. CASE \E j \in JobIds : BuildTorn(j)
  BY <1>4 DEF BuildTorn
<1>5. CASE Stop
  BY <1>5 DEF Stop
<1>6. CASE UnlinkData
  <2>1. pjob # NoJob
    BY <1>6 DEF UnlinkData
  <2>2. pjob.id \in JobIds /\ \A c \in Clients : Drawn(c) => wjob[c] # pjob.id \/ Doubled(c)
    BY <2>1, NotAtHand
  <2> QED BY <1>6, <2>2 DEF UnlinkData
<1>7. CASE UnlinkReq
  <2>1. pjob # NoJob
    BY <1>7 DEF UnlinkReq
  <2>2. pjob.id \in JobIds /\ \A c \in Clients : Drawn(c) => wjob[c] # pjob.id \/ Doubled(c)
    BY <2>1, NotAtHand
  <2> QED BY <1>7, <2>2 DEF UnlinkReq
<1>8. CASE \E c \in Clients : ReadHeader(c)
  BY <1>8 DEF ReadHeader
<1>9. CASE \E c \in Clients : HeaderFails(c)
  BY <1>9 DEF HeaderFails
<1>10. CASE \E c \in Clients : get_newjobno(c)
  <2>1. PICK c \in Clients : get_newjobno(c)
    BY <1>10
  <2>2. /\ wjob[c] = 0 /\ nextjob \in JobIds /\ UNCHANGED <<data, reqs, got>>
        /\ wjob' = [wjob EXCEPT ![c] = nextjob] /\ wpc' = [wpc EXCEPT ![c] = "creat"]
    BY <2>1 DEF get_newjobno
  <2>3. ASSUME NEW d \in Clients, wjob[d] = nextjob
        PROVE  Doubled(c)'
    <3>1. d # c /\ wjob'[c] = nextjob /\ wjob'[d] = nextjob /\ nextjob # 0
      BY <2>2, <2>3
    <3> QED BY <3>1 DEF Doubled
  <2>4. ~Doubled(c)' => reqs[nextjob] = NoReq
    BY <2>2, <2>3
  <2>5. ~Doubled(c)' => data[nextjob] = NoFile
    <3>1. data[nextjob] # NoFile => data[nextjob].owner \in Clients
      BY <2>2
    <3> QED BY <2>2, <2>3, <3>1
  <2>6. OnDisk(c)'
    BY <2>2, <2>4, <2>5
  <2>7. ASSUME NEW d \in Clients, d # c
        PROVE  OnDisk(d)'
    <3>1. wjob'[d] = wjob[d] /\ wpc'[d] = wpc[d]
      BY <2>2, <2>7
    <3> QED BY <2>2, <3>1
  <2> QED BY <2>6, <2>7
<1>11. CASE \E c \in Clients : CreatData(c)
  <2>1. PICK c \in Clients : CreatData(c)
    BY <1>11
  <2>2. File(c, 0) \in Files /\ File(c, 0).owner = c
    <3>1. 0 \in 0 .. Pieces
      OBVIOUS
    <3> QED BY <3>1
  <2> QED BY <2>1, <2>2 DEF CreatData
<1>12. CASE \E c \in Clients : CreatDataFails(c)
  BY <1>12 DEF CreatDataFails
<1>13. CASE \E c \in Clients : ReadPiece(c)
  <2>1. PICK c \in Clients : ReadPiece(c)
    BY <1>13
  <2>2. /\ wjob[c] \in JobIds /\ wpc[c] = "read" /\ UNCHANGED <<wpc, wjob, reqs>>
        /\ got' = [got EXCEPT ![c] = got[c] + 1]
        /\ data' = [data EXCEPT ![wjob[c]] = Rewritten(data[wjob[c]], File(c, got[c] + 1))]
    BY <2>1 DEF ReadPiece
  <2>3. OnDisk(c)'
    <3>1. ~Doubled(c) => data[wjob[c]] = File(c, got[c]) /\ data[wjob[c]] # NoFile
      BY <2>2
    <3>2. ~Doubled(c) => data'[wjob[c]] = File(c, got'[c])
      BY <2>2, <3>1 DEF Rewritten
    <3> QED BY <2>2, <3>2
  <2>4. ASSUME NEW d \in Clients, d # c
        PROVE  OnDisk(d)'
    <3>1. Doubled(d) \/ wjob[d] # wjob[c]
      BY <2>2, <2>4
    <3>2. got'[d] = got[d] /\ (wjob[d] # wjob[c] => data'[wjob[d]] = data[wjob[d]])
      BY <2>2, <2>4
    <3> QED BY <2>2, <3>1, <3>2
  <2> QED BY <2>3, <2>4
<1>14. CASE \E c \in Clients : WritePieceFails(c)
  BY <1>14 DEF WritePieceFails
<1>15. CASE \E c \in Clients : EndOfData(c)
  BY <1>15 DEF EndOfData
<1>16. CASE \E c \in Clients : CreatReq(c)
  BY <1>16 DEF CreatReq
<1>17. CASE \E c \in Clients : CreatReqFails(c)
  BY <1>17 DEF CreatReqFails
<1>18. CASE \E c \in Clients : WriteReq(c)
  BY <1>18 DEF WriteReq, Rewritten
<1>19. CASE \E c \in Clients : WriteReqFails(c)
  BY <1>19 DEF WriteReqFails
<1>20. CASE \E c \in Clients : UndoReq(c)
  BY <1>20 DEF UndoReq
<1>21. CASE \E c \in Clients : UndoData(c)
  BY <1>21 DEF UndoData
<1>22. CASE \E c \in Clients : Respond(c)
  BY <1>22 DEF Respond
<1>23. CASE \E c \in Clients : add_job(c)
  BY <1>23 DEF add_job
<1>24. CASE \E c \in Clients : Signal(c)
  BY <1>24 DEF Signal
<1> HIDE DEF IInv, SpoolOwned, Types, MainType, WorkerType, SpoolType, Progress,
     Drawn, JobIds, PrinterType, PBusy, OnDisk
<1> QED
  BY <1>1, <1>2, <1>3, <1>4, <1>5, <1>6, <1>7, <1>8, <1>9, <1>10, <1>11, <1>12,
       <1>13, <1>14, <1>15, <1>16, <1>17, <1>18, <1>19, <1>20, <1>21, <1>22, <1>23,
       <1>24 DEF Next, vars, Build, Printer, Worker, Command, Quiet, BuildSignal,
       BuildDone, Sighup, EditConfig, BuildAdd, SendHeader, SendPiece, ClientDies,
       Wait, remove_job, update_jobno, CheckConfig, init_printer, Cancel, Open,
       Send, SendFails, StatusOk, StatusFails, replace_job, WakeUp

\* Every step keeps the numbers of the pending jobs apart.
LEMMA PendingApartStep ==
  ASSUME IInv, [Next]_vars
  PROVE  PendingApart'
<1>0. \A c \in Clients : Doubled(c) => Doubled(c)'
  BY DoubledKept DEF IInv
<1> USE Consts, Records, Shared, <1>0 DEF IInv, PendingApart, PendingSound, JobSound, Types,
     MainType, WorkerType, SpoolType, Progress, Drawn, JobIds, PrinterType, PBusy,
     OnDisk, Go, PGo, Reply, wakeup, Running, spool, main, config, pthr,
     workr, client, pframe
<1>1. CASE UNCHANGED <<pjob, queue>>
  BY <1>1, PendingKept
<1>2. CASE \E j \in JobIds : BuildAdd(j)
  <2>1. PICK j \in JobIds : BuildAdd(j)
    BY <1>2
  <2> DEFINE jb == Job(j, reqs[j].owner)
  <2>2. reqs[j].owner \in Clients /\ reqs[j] = Full(reqs[j].owner)
    BY <2>1 DEF BuildAdd, NoReq, Torn, Full
  <2>3. jb \in Jobs /\ jb.id = j /\ jb.owner = reqs[j].owner
    BY <2>2
  <2> HIDE DEF jb
  <2>4. Pending \in Seq(Jobs) /\ Pending' = Append(Pending, jb)
    BY <2>1, <2>3, PendingAdded, PendingType DEF BuildAdd, jb
  <2>5. Len(Pending') = Len(Pending) + 1 /\ Pending'[Len(Pending) + 1] = jb
    BY <2>4
  <2>6. \A i \in 1 .. Len(Pending) : Pending'[i] = Pending[i]
    BY <2>4
  <2>7. \A i \in 1 .. Len(Pending) : Pending[i].owner # jb.owner
    <3> SUFFICES ASSUME NEW i \in 1 .. Len(Pending), Pending[i].owner = jb.owner PROVE FALSE
      OBVIOUS
    <3>1. JobSound(Pending[i])
      OBVIOUS
    <3>2. wjob[jb.owner] = j
      BY <2>2, <2>3 DEF SpoolOwned
    <3> QED BY <2>1, <3>1, <3>2 DEF BuildAdd
  <2> QED BY <2>4, <2>5, <2>6, <2>7
<1>3. CASE Stop
  BY <1>3, SMTT(30) DEF Stop, Pending
<1>4. CASE \E c \in Clients : add_job(c)
  <2>1. PICK c \in Clients : add_job(c)
    BY <1>4
  <2> DEFINE jb == Job(wjob[c], c)
  <2>2. wjob[c] \in JobIds
    BY <2>1 DEF add_job
  <2>3. jb \in Jobs /\ jb.id = wjob[c] /\ jb.owner = c
    BY <2>2
  <2> HIDE DEF jb
  <2>4. Pending \in Seq(Jobs) /\ Pending' = Append(Pending, jb)
    BY <2>1, <2>3, PendingAdded, PendingType DEF add_job, jb
  <2>5. Len(Pending') = Len(Pending) + 1 /\ Pending'[Len(Pending) + 1] = jb
    BY <2>4
  <2>6. \A i \in 1 .. Len(Pending) : Pending'[i] = Pending[i]
    BY <2>4
  <2>7. \A i \in 1 .. Len(Pending) : Pending[i].owner # jb.owner
    <3>1. Drawn(c)
      BY <2>1 DEF add_job
    <3>2. \A i \in 1 .. Len(Pending) : JobSound(Pending[i])
      OBVIOUS
    <3> QED BY <2>3, <3>1, <3>2
  <2> QED BY <2>4, <2>5, <2>6, <2>7, SMTT(30)
<1>5. CASE remove_job
  <2>1. Pending' = Pending
    BY <1>5, PendingKept
  <2> QED BY <1>5, <2>1 DEF remove_job
<1>6. CASE Cancel
  <2>1. Pending \in Seq(Jobs) /\ Pending # <<>> /\ Head(Pending) = pjob /\ Pending' = Tail(Pending)
    BY <1>6, PendingDropped, PendingType
  <2>2. Len(Pending') = Len(Pending) - 1
    BY <2>1
  <2>3. \A i \in 1 .. Len(Pending') : Pending'[i] = Pending[i + 1] /\ i + 1 \in 1 .. Len(Pending)
    BY <2>1, <2>2
  <2>4. ASSUME NEW i \in 1 .. Len(Pending'), NEW k \in 1 .. Len(Pending'),
               Pending'[i].owner = Pending'[k].owner
        PROVE  i = k
    <3>1. Pending[i + 1].owner = Pending[k + 1].owner
      BY <2>3, <2>4
    <3>2. i + 1 \in 1 .. Len(Pending) /\ k + 1 \in 1 .. Len(Pending)
      BY <2>3
    <3>3. i + 1 = k + 1
      BY <3>1, <3>2
    <3> QED BY <3>3
  <2> QED BY <2>4
<1>7. CASE UnlinkReq
  <2>1. Pending \in Seq(Jobs) /\ Pending # <<>> /\ Head(Pending) = pjob /\ Pending' = Tail(Pending)
    BY <1>7, PendingDropped, PendingType
  <2>2. Len(Pending') = Len(Pending) - 1
    BY <2>1
  <2>3. \A i \in 1 .. Len(Pending') : Pending'[i] = Pending[i + 1] /\ i + 1 \in 1 .. Len(Pending)
    BY <2>1, <2>2
  <2>4. ASSUME NEW i \in 1 .. Len(Pending'), NEW k \in 1 .. Len(Pending'),
               Pending'[i].owner = Pending'[k].owner
        PROVE  i = k
    <3>1. Pending[i + 1].owner = Pending[k + 1].owner
      BY <2>3, <2>4
    <3>2. i + 1 \in 1 .. Len(Pending) /\ k + 1 \in 1 .. Len(Pending)
      BY <2>3
    <3>3. i + 1 = k + 1
      BY <3>1, <3>2
    <3> QED BY <3>3
  <2> QED BY <2>4
<1>8. CASE replace_job
  <2>1. Pending' = Pending
    BY <1>8, PendingKept
  <2> QED BY <1>8, <2>1 DEF replace_job
<1> HIDE DEF IInv, PendingApart, PendingSound, JobSound, Types, MainType,
     WorkerType, SpoolType, Progress, Drawn, JobIds, PrinterType, PBusy,
     OnDisk
<1> QED
  BY <1>1, <1>2, <1>3, <1>4, <1>5, <1>6, <1>7, <1>8, SMTT(30) DEF Next, vars, Build, Printer,
       Worker, Command, Quiet, Start, BuildSignal, BuildDone, Sighup, EditConfig,
       BuildTorn, Accept, SendHeader, SendPiece, ClientDies, ReadHeader,
       HeaderFails, get_newjobno, CreatData, CreatDataFails, ReadPiece,
       WritePieceFails, EndOfData, CreatReq, CreatReqFails, WriteReq, WriteReqFails,
       UndoReq, UndoData, Respond, Signal, Wait, update_jobno, CheckConfig,
       init_printer, Open, Send, SendFails, StatusOk, StatusFails, UnlinkData,
       WakeUp

\* Every step keeps the pending jobs sound.
LEMMA PendingSoundStep ==
  ASSUME IInv, [Next]_vars
  PROVE  PendingSound'
<1>0. \A c \in Clients : Doubled(c) => Doubled(c)'
  BY DoubledKept DEF IInv
<1> USE Consts, Records, Shared, <1>0 DEF IInv, Types, MainType, WorkerType, SpoolType, Progress,
     Drawn, JobIds, PrinterType, PBusy, OnDisk, SpoolOwned, Go, PGo,
     Reply, wakeup, Running, spool, main, config, pthr, workr, client, pframe
<1>1. CASE UNCHANGED <<wpc, wjob, todo, reqs, reply, pjob, queue>>
  BY <1>1, PendingKept, SoundKept DEF JobSound
<1>2. CASE Start
  <2>1. Pending = <<>> /\ Pending' = <<>>
    BY <1>2 DEF Start, Pending
  <2> QED BY <2>1 DEF PendingSound
<1>3. CASE \E j \in JobIds : BuildAdd(j)
  <2>1. PICK j \in JobIds : BuildAdd(j)
    BY <1>3
  <2>2. reqs[j].owner \in Clients /\ reqs[j] = Full(reqs[j].owner)
    BY <2>1 DEF BuildAdd, NoReq, Torn, Full
  <2>3. PICK jb \in Jobs : jb = Job(j, reqs[j].owner) /\ jb.id = j /\ jb.owner = reqs[j].owner
    BY <2>2
  <2>4. Pending' = Append(Pending, jb)
    BY <2>1, <2>3, PendingAdded DEF BuildAdd
  <2>5. JobSound(jb)'
    BY <2>1, <2>2, <2>3 DEF BuildAdd, JobSound, Refused
  <2>6. \A b \in Jobs : JobSound(b) => JobSound(b)'
    BY <2>1 DEF BuildAdd, JobSound
  <2> QED BY <2>4, <2>5, <2>6, SoundAdded
<1>4. CASE \E j \in JobIds : BuildTorn(j)
  <2>1. PICK j \in JobIds : BuildTorn(j)
    BY <1>4
  <2>2. Pending' = Pending
    BY <2>1, PendingKept DEF BuildTorn
  <2>3. \A jb \in Jobs : JobSound(jb) => JobSound(jb)'
    BY <2>1 DEF BuildTorn, JobSound
  <2> QED BY <2>2, <2>3, SoundKept
<1>5. CASE Stop
  BY <1>5 DEF Stop, Pending, PendingSound
<1>6. CASE \E c \in Clients : Accept(c)
  <2>1. PICK c \in Clients : Accept(c)
    BY <1>6
  <2>2. Pending' = Pending
    BY <2>1, PendingKept DEF Accept
  <2>3. \A jb \in Jobs : JobSound(jb) => JobSound(jb)'
    BY <2>1 DEF Accept, JobSound
  <2> QED BY <2>2, <2>3, SoundKept
<1>7. CASE remove_job
  <2>2. Pending' = Pending
    BY <1>7, PendingKept DEF remove_job
  <2>3. \A jb \in Jobs : JobSound(jb) => JobSound(jb)'
    BY <1>7 DEF remove_job, JobSound
  <2> QED BY <2>2, <2>3, SoundKept
<1>8. CASE Cancel
  <2>1. \A jb \in Jobs : JobSound(jb) /\ jb.owner # pjob.owner => JobSound(jb)'
    BY <1>8 DEF Cancel, JobSound
  <2> QED BY <1>8, <2>1, SoundDropped
<1>9. CASE UnlinkReq
  <2>1. \A jb \in Jobs : JobSound(jb) /\ jb.owner # pjob.owner => JobSound(jb)'
    <3>1. pjob # NoJob
      BY <1>9 DEF UnlinkReq
    <3>2. wjob[pjob.owner] = pjob.id /\ pjob.owner \in Clients
      BY <3>1, NotAtHand
    <3>3. \A jb \in Jobs : JobSound(jb) /\ jb.owner # pjob.owner /\ jb.id = pjob.id => Doubled(jb.owner)
      BY <3>2 DEF JobSound
    <3> QED BY <1>9, <3>3 DEF UnlinkReq, JobSound
  <2> QED BY <1>9, <2>1, SoundDropped
<1>10. CASE replace_job
  <2>2. Pending' = Pending
    BY <1>10, PendingKept DEF replace_job
  <2>3. \A jb \in Jobs : JobSound(jb) => JobSound(jb)'
    BY <1>10 DEF replace_job, JobSound
  <2> QED BY <2>2, <2>3, SoundKept
<1>11. CASE \E c \in Clients : ReadHeader(c)
  <2>1. PICK c \in Clients : ReadHeader(c)
    BY <1>11
  <2>2. Pending' = Pending
    BY <2>1, PendingKept DEF ReadHeader
  <2>3. \A jb \in Jobs : JobSound(jb) => JobSound(jb)'
    BY <2>1 DEF ReadHeader, JobSound
  <2> QED BY <2>2, <2>3, SoundKept
<1>12. CASE \E c \in Clients : HeaderFails(c)
  <2>1. PICK c \in Clients : HeaderFails(c)
    BY <1>12
  <2>2. Pending' = Pending
    BY <2>1, PendingKept DEF HeaderFails
  <2>3. \A jb \in Jobs : JobSound(jb) => JobSound(jb)'
    BY <2>1 DEF HeaderFails, JobSound
  <2> QED BY <2>2, <2>3, SoundKept
<1>13. CASE \E c \in Clients : get_newjobno(c)
  <2>1. PICK c \in Clients : get_newjobno(c)
    BY <1>13
  <2>2. Pending' = Pending
    BY <2>1, PendingKept DEF get_newjobno
  <2>3. \A jb \in Jobs : JobSound(jb) => JobSound(jb)'
    BY <2>1 DEF get_newjobno, JobSound
  <2> QED BY <2>2, <2>3, SoundKept
<1>14. CASE \E c \in Clients : CreatData(c)
  <2>1. PICK c \in Clients : CreatData(c)
    BY <1>14
  <2>2. Pending' = Pending
    BY <2>1, PendingKept DEF CreatData
  <2>3. \A jb \in Jobs : JobSound(jb) => JobSound(jb)'
    BY <2>1 DEF CreatData, JobSound
  <2> QED BY <2>2, <2>3, SoundKept
<1>15. CASE \E c \in Clients : CreatDataFails(c)
  <2>1. PICK c \in Clients : CreatDataFails(c)
    BY <1>15
  <2>2. Pending' = Pending
    BY <2>1, PendingKept DEF CreatDataFails
  <2>3. \A jb \in Jobs : JobSound(jb) => JobSound(jb)'
    BY <2>1 DEF CreatDataFails, JobSound
  <2> QED BY <2>2, <2>3, SoundKept
<1>16. CASE \E c \in Clients : ReadPiece(c)
  <2>1. PICK c \in Clients : ReadPiece(c)
    BY <1>16
  <2>2. Pending' = Pending
    BY <2>1, PendingKept DEF ReadPiece
  <2>3. \A jb \in Jobs : JobSound(jb) => JobSound(jb)'
    BY <2>1 DEF ReadPiece, JobSound
  <2> QED BY <2>2, <2>3, SoundKept
<1>17. CASE \E c \in Clients : WritePieceFails(c)
  <2>1. PICK c \in Clients : WritePieceFails(c)
    BY <1>17
  <2>2. Pending' = Pending
    BY <2>1, PendingKept DEF WritePieceFails
  <2>3. \A jb \in Jobs : JobSound(jb) => JobSound(jb)'
    BY <2>1 DEF WritePieceFails, JobSound
  <2> QED BY <2>2, <2>3, SoundKept
<1>18. CASE \E c \in Clients : EndOfData(c)
  <2>1. PICK c \in Clients : EndOfData(c)
    BY <1>18
  <2>2. Pending' = Pending
    BY <2>1, PendingKept DEF EndOfData
  <2>3. \A jb \in Jobs : JobSound(jb) => JobSound(jb)'
    BY <2>1 DEF EndOfData, JobSound
  <2> QED BY <2>2, <2>3, SoundKept
<1>19. CASE \E c \in Clients : CreatReq(c)
  <2>1. PICK c \in Clients : CreatReq(c)
    BY <1>19
  <2>2. Pending' = Pending
    BY <2>1, PendingKept DEF CreatReq
  <2>3. \A jb \in Jobs : JobSound(jb) => JobSound(jb)'
    BY <2>1 DEF CreatReq, JobSound
  <2> QED BY <2>2, <2>3, SoundKept
<1>20. CASE \E c \in Clients : CreatReqFails(c)
  <2>1. PICK c \in Clients : CreatReqFails(c)
    BY <1>20
  <2>2. Pending' = Pending
    BY <2>1, PendingKept DEF CreatReqFails
  <2>3. \A jb \in Jobs : JobSound(jb) => JobSound(jb)'
    BY <2>1 DEF CreatReqFails, JobSound
  <2> QED BY <2>2, <2>3, SoundKept
<1>21. CASE \E c \in Clients : WriteReq(c)
  <2>1. PICK c \in Clients : WriteReq(c)
    BY <1>21
  <2>2. Pending' = Pending
    BY <2>1, PendingKept DEF WriteReq
  <2>3. \A jb \in Jobs : JobSound(jb) => JobSound(jb)'
    BY <2>1 DEF WriteReq, JobSound, Rewritten
  <2> QED BY <2>2, <2>3, SoundKept
<1>22. CASE \E c \in Clients : WriteReqFails(c)
  <2>1. PICK c \in Clients : WriteReqFails(c)
    BY <1>22
  <2>2. Pending' = Pending
    BY <2>1, PendingKept DEF WriteReqFails
  <2>3. \A jb \in Jobs : JobSound(jb) => JobSound(jb)'
    BY <2>1 DEF WriteReqFails, JobSound
  <2> QED BY <2>2, <2>3, SoundKept
<1>23. CASE \E c \in Clients : UndoReq(c)
  <2>1. PICK c \in Clients : UndoReq(c)
    BY <1>23
  <2>2. Pending' = Pending
    BY <2>1, PendingKept DEF UndoReq
  <2>3. \A jb \in Jobs : JobSound(jb) => JobSound(jb)'
    BY <2>1 DEF UndoReq, JobSound
  <2> QED BY <2>2, <2>3, SoundKept
<1>24. CASE \E c \in Clients : UndoData(c)
  <2>1. PICK c \in Clients : UndoData(c)
    BY <1>24
  <2>2. Pending' = Pending
    BY <2>1, PendingKept DEF UndoData
  <2>3. \A jb \in Jobs : JobSound(jb) => JobSound(jb)'
    BY <2>1 DEF UndoData, JobSound
  <2> QED BY <2>2, <2>3, SoundKept
<1>25. CASE \E c \in Clients : Respond(c)
  <2>1. PICK c \in Clients : Respond(c)
    BY <1>25
  <2>2. Pending' = Pending
    BY <2>1, PendingKept DEF Respond
  <2>3. \A jb \in Jobs : JobSound(jb) => JobSound(jb)'
    BY <2>1 DEF Respond, JobSound
  <2> QED BY <2>2, <2>3, SoundKept
<1>26. CASE \E c \in Clients : add_job(c)
  <2>1. PICK c \in Clients : add_job(c)
    BY <1>26
  <2>2. wjob[c] \in JobIds
    BY <2>1 DEF add_job
  <2>3. PICK jb \in Jobs : jb = Job(wjob[c], c) /\ jb.id = wjob[c] /\ jb.owner = c
    BY <2>2
  <2>4. Pending' = Append(Pending, jb)
    BY <2>1, <2>3, PendingAdded DEF add_job
  <2>5. JobSound(jb)'
    BY <2>1, <2>2, <2>3 DEF add_job, JobSound, Refused
  <2>6. \A b \in Jobs : JobSound(b) => JobSound(b)'
    BY <2>1 DEF add_job, JobSound
  <2> QED BY <2>4, <2>5, <2>6, SoundAdded
<1>27. CASE \E c \in Clients : Signal(c)
  <2>1. PICK c \in Clients : Signal(c)
    BY <1>27
  <2>2. Pending' = Pending
    BY <2>1, PendingKept DEF Signal
  <2>3. \A jb \in Jobs : JobSound(jb) => JobSound(jb)'
    BY <2>1 DEF Signal, JobSound
  <2> QED BY <2>2, <2>3, SoundKept
<1> HIDE DEF IInv, Types, MainType, WorkerType, SpoolType, Progress, Drawn, JobIds,
     PrinterType, PBusy, OnDisk, SpoolOwned
<1> QED
  BY <1>1, <1>2, <1>3, <1>4, <1>5, <1>6, <1>7, <1>8, <1>9, <1>10, <1>11, <1>12,
       <1>13, <1>14, <1>15, <1>16, <1>17, <1>18, <1>19, <1>20, <1>21, <1>22, <1>23,
       <1>24, <1>25, <1>26, <1>27 DEF Next, vars, Build, Printer, Worker, Command,
       Quiet, BuildSignal, BuildDone, Sighup, EditConfig, SendHeader, SendPiece,
       ClientDies, Wait, update_jobno, CheckConfig, init_printer, Open, Send,
       SendFails, StatusOk, StatusFails, UnlinkData, WakeUp

\* Every step keeps what is on paper with the thread that drew its number.
LEMMA PaperOwnedStep ==
  ASSUME IInv, [Next]_vars
  PROVE  PaperOwned'
<1>0. \A c \in Clients : Doubled(c) => Doubled(c)'
  BY DoubledKept DEF IInv
<1> USE Consts, Records, Shared, <1>0 DEF IInv, Types, MainType, WorkerType, SpoolType, Progress,
     Drawn, JobIds, PrinterType, PBusy, OnDisk, SpoolOwned, PaperOwned,
     PaperType, Printed, Go, PGo, Reply, wakeup, Running, spool, main, config, pthr,
     workr, client, pframe
<1>1. CASE UNCHANGED <<paper, wpc, wjob>>
  BY <1>1
<1>2. CASE Stop
  BY <1>2 DEF Stop
<1>3. CASE \E c \in Clients : Accept(c)
  BY <1>3 DEF Accept
<1>4. CASE Send
  <2>1. pjob # NoJob
    BY <1>4 DEF Send
  <2>2. pjob \in Jobs /\ pjob = Job(pjob.id, pjob.owner) /\ JobSound(pjob)
    BY <2>1, AtHand
  <2> QED BY <1>4, <2>2 DEF Send, JobSound
<1>5. CASE \E c \in Clients : ReadHeader(c)
  BY <1>5 DEF ReadHeader
<1>6. CASE \E c \in Clients : HeaderFails(c)
  BY <1>6 DEF HeaderFails
<1>7. CASE \E c \in Clients : get_newjobno(c)
  BY <1>7 DEF get_newjobno
<1>8. CASE \E c \in Clients : CreatData(c)
  BY <1>8 DEF CreatData
<1>9. CASE \E c \in Clients : CreatDataFails(c)
  BY <1>9 DEF CreatDataFails
<1>10. CASE \E c \in Clients : ReadPiece(c)
  BY <1>10 DEF ReadPiece
<1>11. CASE \E c \in Clients : WritePieceFails(c)
  BY <1>11 DEF WritePieceFails
<1>12. CASE \E c \in Clients : EndOfData(c)
  BY <1>12 DEF EndOfData
<1>13. CASE \E c \in Clients : CreatReq(c)
  BY <1>13 DEF CreatReq
<1>14. CASE \E c \in Clients : CreatReqFails(c)
  BY <1>14 DEF CreatReqFails
<1>15. CASE \E c \in Clients : WriteReq(c)
  BY <1>15 DEF WriteReq
<1>16. CASE \E c \in Clients : WriteReqFails(c)
  BY <1>16 DEF WriteReqFails
<1>17. CASE \E c \in Clients : UndoReq(c)
  BY <1>17 DEF UndoReq
<1>18. CASE \E c \in Clients : UndoData(c)
  BY <1>18 DEF UndoData
<1>19. CASE \E c \in Clients : Respond(c)
  BY <1>19 DEF Respond
<1>20. CASE \E c \in Clients : add_job(c)
  BY <1>20 DEF add_job
<1>21. CASE \E c \in Clients : Signal(c)
  BY <1>21 DEF Signal
<1> HIDE DEF IInv, Types, MainType, WorkerType, SpoolType, Progress, Drawn, JobIds,
     PrinterType, PBusy, OnDisk, SpoolOwned, PaperOwned, PaperType,
     Printed
<1> QED
  BY <1>1, <1>2, <1>3, <1>4, <1>5, <1>6, <1>7, <1>8, <1>9, <1>10, <1>11, <1>12,
       <1>13, <1>14, <1>15, <1>16, <1>17, <1>18, <1>19, <1>20, <1>21 DEF Next, vars,
       Build, Printer, Worker, Command, Quiet, Start, BuildSignal, BuildDone,
       Sighup, EditConfig, BuildTorn, BuildAdd, SendHeader, SendPiece, ClientDies,
       Wait, remove_job, update_jobno, CheckConfig, init_printer, Cancel, Open,
       SendFails, StatusOk, StatusFails, UnlinkData, UnlinkReq, replace_job, WakeUp

\* Every step keeps a document whose control file was written until it is printed.
LEMMA WrittenStep ==
  ASSUME IInv, [Next]_vars
  PROVE  Written'
<1>0. \A c \in Clients : Doubled(c) => Doubled(c)'
  BY DoubledKept DEF IInv
<1> USE Consts, Records, Shared, <1>0 DEF IInv, Types, SpoolType, Written, Printed, Go, PGo, Reply,
     wakeup, Running, spool, main, config, pthr, workr, client, pframe
<1>1. CASE UNCHANGED <<paper, data, reqs>>
  BY <1>1 DEF IInv
<1>2. CASE \E j \in JobIds : BuildTorn(j)
  BY <1>2 DEF BuildTorn, IInv
<1>3. CASE \E c \in Clients : CreatData(c)
  <2>1. PICK c \in Clients : CreatData(c)
    BY <1>3
  <2>2. wjob[c] \in JobIds /\ \A d \in Clients : Doubled(d) \/ reqs[wjob[c]] # Full(d)
    BY <2>1, NotWritten DEF CreatData
  <2>3. SUFFICES ASSUME NEW j \in JobIds, NEW d \in Clients, reqs[j] = Full(d), ~Doubled(d)
                 PROVE  data'[j].owner = d \/ (data'[j] = NoFile /\ Job(j, d) \in Printed)
    BY <2>1 DEF CreatData
  <2>4. data'[j] = data[j]
    BY <2>1, <2>2, <2>3 DEF CreatData
  <2> QED BY <2>3, <2>4 DEF IInv
<1>4. CASE \E c \in Clients : ReadPiece(c)
  <2>1. PICK c \in Clients : ReadPiece(c)
    BY <1>4
  <2>2. wjob[c] \in JobIds /\ \A d \in Clients : Doubled(d) \/ reqs[wjob[c]] # Full(d)
    BY <2>1, NotWritten DEF ReadPiece
  <2>3. SUFFICES ASSUME NEW j \in JobIds, NEW d \in Clients, reqs[j] = Full(d), ~Doubled(d)
                 PROVE  data'[j].owner = d \/ (data'[j] = NoFile /\ Job(j, d) \in Printed)
    BY <2>1 DEF ReadPiece
  <2>4. data'[j] = data[j]
    BY <2>1, <2>2, <2>3 DEF ReadPiece
  <2> QED BY <2>3, <2>4 DEF IInv
<1>5. CASE \E c \in Clients : CreatReq(c)
  BY <1>5 DEF CreatReq, IInv
<1>6. CASE \E c \in Clients : WriteReq(c)
  BY <1>6 DEF WriteReq, Rewritten, Drawn, OnDisk, Progress, WorkerType, MainType, JobIds, CommandType
<1>7. CASE \E c \in Clients : UndoReq(c)
  BY <1>7 DEF UndoReq, IInv
<1>8. CASE \E c \in Clients : UndoData(c)
  <2>1. PICK c \in Clients : UndoData(c)
    BY <1>8
  <2>2. wjob[c] \in JobIds /\ \A d \in Clients : Doubled(d) \/ reqs[wjob[c]] # Full(d)
    BY <2>1, NotWritten DEF UndoData
  <2>3. SUFFICES ASSUME NEW j \in JobIds, NEW d \in Clients, reqs[j] = Full(d), ~Doubled(d)
                 PROVE  data'[j].owner = d \/ (data'[j] = NoFile /\ Job(j, d) \in Printed)
    BY <2>1 DEF UndoData
  <2>4. data'[j] = data[j]
    BY <2>1, <2>2, <2>3 DEF UndoData
  <2> QED BY <2>3, <2>4 DEF IInv
<1>9. CASE Send
  BY <1>9 DEF Send, IInv
<1>10. CASE UnlinkData
  <2>1. pjob # NoJob /\ pjob \in Printed
    BY <1>10 DEF UnlinkData, IInv, AtPrinter, PrinterType, PBusy
  <2>2. /\ pjob = Job(pjob.id, pjob.owner) /\ pjob.owner \in Clients
        /\ Doubled(pjob.owner) \/ reqs[pjob.id] = Full(pjob.owner)
        /\ \A d \in Clients : wjob[d] = pjob.id => d = pjob.owner \/ Doubled(d)
    BY <2>1, AtHand, NotAtHand DEF JobSound, IInv
  <2>3. ASSUME NEW j \in JobIds, NEW d \in Clients, reqs[j] = Full(d), ~Doubled(d)
        PROVE  data'[j].owner = d \/ (data'[j] = NoFile /\ Job(j, d) \in Printed)
    <3>1. CASE j = pjob.id
      BY <1>10, <2>1, <2>2, <2>3, <3>1 DEF UnlinkData, SpoolOwned
    <3>2. CASE j # pjob.id
      BY <1>10, <2>3, <3>2 DEF UnlinkData, IInv
    <3> QED BY <3>1, <3>2
  <2> QED BY <1>10, <2>3 DEF UnlinkData
<1>11. CASE UnlinkReq
  BY <1>11 DEF UnlinkReq, IInv
<1> QED
  BY <1>1, <1>2, <1>3, <1>4, <1>5, <1>6, <1>7, <1>8, <1>9, <1>10, <1>11 DEF Next,
       vars, Build, Printer, Worker, Command, Quiet, Start, BuildSignal, BuildDone,
       Stop, Sighup, EditConfig, BuildAdd, Accept, SendHeader, SendPiece,
       ClientDies, ReadHeader, HeaderFails, get_newjobno, CreatDataFails,
       WritePieceFails, EndOfData, CreatReqFails, WriteReqFails, Respond, add_job,
       Signal, Wait, remove_job, update_jobno, CheckConfig, init_printer, Cancel,
       Open, SendFails, StatusOk, StatusFails, replace_job, WakeUp

\* A client thread at work on a document touches the printer thread's only when the two
\* share a number.
LEMMA PrinterUndisturbed ==
  ASSUME IInv, NEW c \in Clients, Drawn(c), UNCHANGED <<ppc, pjob, paper>>,
         \A j \in JobIds : j # wjob[c] => data'[j] = data[j],
         \A d \in Clients : Doubled(d) => Doubled(d)'
  PROVE  AtPrinter'
<1>1. ppc = "send" => pjob # NoJob
  BY DEF IInv, Types, PrinterType, PBusy
<1>2. ppc = "send" => pjob.owner \in Clients /\ pjob.id \in JobIds
  BY <1>1, NotAtHand
<1>3. ppc = "send" => wjob[c] # pjob.id \/ Doubled(pjob.owner)
  BY <1>1, NotAtHand
<1>4. AtPrinter
  BY DEF IInv
<1> QED BY <1>2, <1>3, <1>4 DEF AtPrinter, Printed

\* Every step keeps what the printer thread's control point says of its job.
LEMMA AtPrinterStep ==
  ASSUME IInv, [Next]_vars
  PROVE  AtPrinter'
<1>0. \A c \in Clients : Doubled(c) => Doubled(c)'
  BY DoubledKept DEF IInv
<1> USE Consts, Records, Shared, <1>0 DEF IInv, Types, MainType, WorkerType, SpoolType, Progress,
     Drawn, JobIds, PrinterType, PBusy, OnDisk, SpoolOwned, AtPrinter,
     Written, Printed, PrinterPCs, Go, PGo, Reply, wakeup, Running, spool, main,
     config, pthr, workr, client, pframe
<1>1. CASE UNCHANGED <<paper, data, ppc, pjob>>
  BY <1>1
<1>2. CASE Start
  BY <1>2 DEF Start
<1>3. CASE \E j \in JobIds : BuildTorn(j)
  <2>1. pjob # NoJob => pjob.id \in JobIds /\ pjob.id \notin todo
    BY AtHand DEF JobSound
  <2> QED BY <1>3, <2>1 DEF BuildTorn
<1>4. CASE BuildSignal
  BY <1>4 DEF BuildSignal
<1>5. CASE Stop
  BY <1>5 DEF Stop
<1>6. CASE \E c \in Clients : CreatData(c)
  <2>1. PICK c \in Clients : CreatData(c)
    BY <1>6
  <2>2. /\ Drawn(c) /\ UNCHANGED <<ppc, pjob, paper>>
        /\ \A j \in JobIds : j # wjob[c] => data'[j] = data[j]
    BY <2>1 DEF CreatData
  <2> HIDE DEF IInv, Types, Drawn, AtPrinter, JobIds
  <2> QED BY <2>2, PrinterUndisturbed
<1>7. CASE \E c \in Clients : ReadPiece(c)
  <2>1. PICK c \in Clients : ReadPiece(c)
    BY <1>7
  <2>2. /\ Drawn(c) /\ UNCHANGED <<ppc, pjob, paper>>
        /\ \A j \in JobIds : j # wjob[c] => data'[j] = data[j]
    BY <2>1 DEF ReadPiece
  <2> HIDE DEF IInv, Types, Drawn, AtPrinter, JobIds
  <2> QED BY <2>2, PrinterUndisturbed
<1>8. CASE \E c \in Clients : UndoData(c)
  <2>1. PICK c \in Clients : UndoData(c)
    BY <1>8
  <2>2. /\ Drawn(c) /\ UNCHANGED <<ppc, pjob, paper>>
        /\ \A j \in JobIds : j # wjob[c] => data'[j] = data[j]
    BY <2>1 DEF UndoData
  <2> HIDE DEF IInv, Types, Drawn, AtPrinter, JobIds
  <2> QED BY <2>2, PrinterUndisturbed
<1>9. CASE \E c \in Clients : Signal(c)
  BY <1>9 DEF Signal
<1>10. CASE Wait
  BY <1>10 DEF Wait
<1>11. CASE remove_job
  BY <1>11 DEF remove_job
<1>12. CASE update_jobno
  BY <1>12 DEF update_jobno
<1>13. CASE CheckConfig
  BY <1>13 DEF CheckConfig
<1>14. CASE init_printer
  BY <1>14 DEF init_printer
<1>15. CASE Cancel
  BY <1>15 DEF Cancel
<1>16. CASE Open
  BY <1>16 DEF Open
<1>17. CASE Send
  <2>1. PICK f \in OpenFile : paper' = paper \cup {[job |-> pjob, file |-> f, conf |-> printer]}
    BY <1>17 DEF Send
  <2> DEFINE x == [job |-> pjob, file |-> f, conf |-> printer]
  <2>2. pjob' = pjob /\ pjob \in Printed'
    <3>1. x \in paper' /\ x.job = pjob
      BY <2>1
    <3> HIDE DEF x
    <3>2. pjob \in {y.job : y \in paper'}
      BY <3>1
    <3> QED BY <1>17, <3>2 DEF Send
  <2> QED BY <1>17, <2>2 DEF Send
<1>18. CASE SendFails
  BY <1>18 DEF SendFails
<1>19. CASE StatusOk
  BY <1>19 DEF StatusOk
<1>20. CASE StatusFails
  BY <1>20 DEF StatusFails
<1>21. CASE UnlinkData
  BY <1>21 DEF UnlinkData
<1>22. CASE UnlinkReq
  BY <1>22 DEF UnlinkReq
<1>23. CASE replace_job
  BY <1>23 DEF replace_job
<1>24. CASE WakeUp
  BY <1>24 DEF WakeUp
<1> HIDE DEF IInv, Types, MainType, WorkerType, SpoolType, Progress, Drawn, JobIds,
     PrinterType, PBusy, OnDisk, SpoolOwned, AtPrinter, Written, Printed,
     PrinterPCs
<1> QED
  BY <1>1, <1>2, <1>3, <1>4, <1>5, <1>6, <1>7, <1>8, <1>9, <1>10, <1>11, <1>12,
       <1>13, <1>14, <1>15, <1>16, <1>17, <1>18, <1>19, <1>20, <1>21, <1>22, <1>23,
       <1>24 DEF Next, vars, Build, Printer, Worker, Command, Quiet, BuildDone,
       Sighup, EditConfig, BuildAdd, Accept, SendHeader, SendPiece, ClientDies,
       ReadHeader, HeaderFails, get_newjobno, CreatDataFails, WritePieceFails,
       EndOfData, CreatReq, CreatReqFails, WriteReq, WriteReqFails, UndoReq,
       Respond, add_job

\* No step loses a job whose number a client was given.
LEMMA AnsweredStep ==
  ASSUME IInv, [Next]_vars
  PROVE  \A c \in Clients : Answered(c)'
<1>0. \A c \in Clients : Doubled(c) => Doubled(c)'
  BY DoubledKept DEF IInv
<1> USE Consts, Records, Shared, <1>0 DEF IInv, Types, MainType, WorkerType, SpoolType, ReplyType,
     Progress, Drawn, JobIds, OnDisk, SpoolOwned, Answered, Printed, Rejected, Go,
     PGo, Reply, wakeup, Running, spool, main, config, pthr, workr, client, pframe
<1>1. CASE UNCHANGED <<reply, paper, reqs>>
  BY <1>1
<1>2. CASE \E j \in JobIds : BuildTorn(j)
  BY <1>2 DEF BuildTorn
<1>3. CASE \E c \in Clients : HeaderFails(c)
  <2>1. PICK c \in Clients : HeaderFails(c)
    BY <1>3
  <2>2. reply' = [reply EXCEPT ![c] = Rejected] /\ UNCHANGED <<paper, reqs>>
    BY <2>1 DEF HeaderFails
  <2>3. Rejected \notin JobIds
    OBVIOUS
  <2>4. Printed' = Printed
    BY <2>2
  <2>5. ASSUME NEW d \in Clients PROVE Answered(d)'
    <3>1. reply'[d] = IF d = c THEN Rejected ELSE reply[d]
      BY <2>2
    <3>2. Answered(d)
      OBVIOUS
    <3> HIDE DEF IInv, Types, MainType, WorkerType, SpoolType, ReplyType, Printed, Rejected, JobIds
    <3> QED BY <1>0, <2>2, <2>3, <2>4, <3>1, <3>2
  <2> QED BY <2>5
<1>4. CASE \E c \in Clients : CreatDataFails(c)
  <2>1. PICK c \in Clients : CreatDataFails(c)
    BY <1>4
  <2>2. reply' = [reply EXCEPT ![c] = Rejected] /\ UNCHANGED <<paper, reqs>>
    BY <2>1 DEF CreatDataFails
  <2>3. Rejected \notin JobIds
    OBVIOUS
  <2>4. Printed' = Printed
    BY <2>2
  <2>5. ASSUME NEW d \in Clients PROVE Answered(d)'
    <3>1. reply'[d] = IF d = c THEN Rejected ELSE reply[d]
      BY <2>2
    <3>2. Answered(d)
      OBVIOUS
    <3> HIDE DEF IInv, Types, MainType, WorkerType, SpoolType, ReplyType, Printed, Rejected, JobIds
    <3> QED BY <1>0, <2>2, <2>3, <2>4, <3>1, <3>2
  <2> QED BY <2>5
<1>5. CASE \E c \in Clients : WritePieceFails(c)
  <2>1. PICK c \in Clients : WritePieceFails(c)
    BY <1>5
  <2>2. reply' = [reply EXCEPT ![c] = Rejected] /\ UNCHANGED <<paper, reqs>>
    BY <2>1 DEF WritePieceFails
  <2>3. Rejected \notin JobIds
    OBVIOUS
  <2>4. Printed' = Printed
    BY <2>2
  <2>5. ASSUME NEW d \in Clients PROVE Answered(d)'
    <3>1. reply'[d] = IF d = c THEN Rejected ELSE reply[d]
      BY <2>2
    <3>2. Answered(d)
      OBVIOUS
    <3> HIDE DEF IInv, Types, MainType, WorkerType, SpoolType, ReplyType, Printed, Rejected, JobIds
    <3> QED BY <1>0, <2>2, <2>3, <2>4, <3>1, <3>2
  <2> QED BY <2>5
<1>6. CASE \E c \in Clients : CreatReqFails(c)
  <2>1. PICK c \in Clients : CreatReqFails(c)
    BY <1>6
  <2>2. reply' = [reply EXCEPT ![c] = Rejected] /\ UNCHANGED <<paper, reqs>>
    BY <2>1 DEF CreatReqFails
  <2>3. Rejected \notin JobIds
    OBVIOUS
  <2>4. Printed' = Printed
    BY <2>2
  <2>5. ASSUME NEW d \in Clients PROVE Answered(d)'
    <3>1. reply'[d] = IF d = c THEN Rejected ELSE reply[d]
      BY <2>2
    <3>2. Answered(d)
      OBVIOUS
    <3> HIDE DEF IInv, Types, MainType, WorkerType, SpoolType, ReplyType, Printed, Rejected, JobIds
    <3> QED BY <1>0, <2>2, <2>3, <2>4, <3>1, <3>2
  <2> QED BY <2>5
<1>7. CASE \E c \in Clients : WriteReqFails(c)
  <2>1. PICK c \in Clients : WriteReqFails(c)
    BY <1>7
  <2>2. reply' = [reply EXCEPT ![c] = Rejected] /\ UNCHANGED <<paper, reqs>>
    BY <2>1 DEF WriteReqFails
  <2>3. Rejected \notin JobIds
    OBVIOUS
  <2>4. Printed' = Printed
    BY <2>2
  <2>5. ASSUME NEW d \in Clients PROVE Answered(d)'
    <3>1. reply'[d] = IF d = c THEN Rejected ELSE reply[d]
      BY <2>2
    <3>2. Answered(d)
      OBVIOUS
    <3> HIDE DEF IInv, Types, MainType, WorkerType, SpoolType, ReplyType, Printed, Rejected, JobIds
    <3> QED BY <1>0, <2>2, <2>3, <2>4, <3>1, <3>2
  <2> QED BY <2>5
<1>8. CASE \E c \in Clients : Respond(c)
  <2>1. PICK c \in Clients : Respond(c)
    BY <1>8
  <2>2. reply' = [reply EXCEPT ![c] = wjob[c]] /\ UNCHANGED <<paper, reqs>>
    BY <2>1 DEF Respond
  <2>3. Doubled(c) \/ reqs[wjob[c]] = Full(c)
    BY <2>1 DEF Respond
  <2>4. Printed' = Printed
    BY <2>2
  <2>5. ASSUME NEW d \in Clients PROVE Answered(d)'
    <3>1. reply'[d] = IF d = c THEN wjob[c] ELSE reply[d]
      BY <2>2
    <3>2. Answered(d)
      OBVIOUS
    <3> HIDE DEF IInv, Types, MainType, WorkerType, SpoolType, ReplyType, Printed, Rejected, JobIds
    <3> QED BY <1>0, <2>2, <2>3, <2>4, <3>1, <3>2
  <2> QED BY <2>5
<1>9. CASE \E c \in Clients : CreatReq(c)
  BY <1>9 DEF CreatReq
<1>10. CASE \E c \in Clients : WriteReq(c)
  BY <1>10 DEF WriteReq, Rewritten
<1>11. CASE \E c \in Clients : UndoReq(c)
  BY <1>11 DEF UndoReq
<1>12. CASE Send
  BY <1>12 DEF Send
<1>13. CASE UnlinkReq
  <2>1. pjob # NoJob /\ pjob \in Printed
    BY <1>13 DEF UnlinkReq, AtPrinter, PrinterType, PBusy
  <2>2. /\ pjob = Job(pjob.id, pjob.owner) /\ pjob.owner \in Clients /\ pjob.id \in JobIds
        /\ \A c \in Clients : wjob[c] = pjob.id => c = pjob.owner \/ Doubled(c)
    BY <2>1, AtHand, NotAtHand
  <2> QED BY <1>13, <2>1, <2>2, SMTT(30) DEF UnlinkReq
<1> HIDE DEF IInv, Types, MainType, WorkerType, SpoolType, ReplyType, Progress,
     Drawn, JobIds, OnDisk, SpoolOwned, Answered, Printed, Rejected
<1> QED
  BY <1>1, <1>2, <1>3, <1>4, <1>5, <1>6, <1>7, <1>8, <1>9, <1>10, <1>11, <1>12,
       <1>13 DEF Next, vars, Build, Printer, Worker, Command, Quiet, Start,
       BuildSignal, BuildDone, Stop, Sighup, EditConfig, BuildAdd, Accept,
       SendHeader, SendPiece, ClientDies, ReadHeader, get_newjobno, CreatData,
       ReadPiece, EndOfData, UndoData, add_job, Signal, Wait, remove_job,
       update_jobno, CheckConfig, init_printer, Cancel, Open, SendFails, StatusOk,
       StatusFails, UnlinkData, replace_job, WakeUp

\* Every step keeps a rejected job out of the list and off the paper.
LEMMA RefusedStep ==
  ASSUME IInv, [Next]_vars
  PROVE  \A c \in Clients : Refused(c)'
<1> USE Consts, Records DEF IInv, Types, Refused, Rejected, JobIds, SpoolType,
     WorkerType, ReplyType, Go, PGo, Reply, wakeup, Running, spool, main, config,
     pthr, workr, client, pframe
<1>1. CASE UNCHANGED <<wpc, reply, paper, reqs>>
  BY <1>1
<1>2. CASE \E j \in JobIds : BuildTorn(j)
  BY <1>2 DEF BuildTorn
<1>3. CASE \E c \in Clients : Accept(c)
  BY <1>3 DEF Accept, Progress, Unanswered
<1>4. CASE Stop
  BY <1>4 DEF Stop
<1>5. CASE Send
  <2>1. pjob # NoJob
    BY <1>5 DEF Send, PrinterType, PBusy
  <2>2. pjob \in Jobs /\ pjob.id \in JobIds /\ reply[pjob.owner] # Rejected
    BY <2>1, AtHand DEF JobSound
  <2>3. \A x \in paper' : x \in paper \/ x.job = pjob
    BY <1>5 DEF Send
  <2>4. UNCHANGED <<wpc, reply, reqs>>
    BY <1>5 DEF Send
  <2> QED BY <2>2, <2>3, <2>4
<1>6. CASE UnlinkReq
  BY <1>6 DEF UnlinkReq
<1>7. CASE \E c \in Clients : ReadHeader(c)
  BY <1>7 DEF ReadHeader
<1>8. CASE \E c \in Clients : HeaderFails(c)
  <2>1. PICK c \in Clients : HeaderFails(c)
    BY <1>8
  <2>2. wjob[c] = 0 \/ Drawn(c)
    BY <2>1 DEF HeaderFails, Progress, Drawn
  <2>3. ASSUME NEW x \in paper, x.job.owner = c PROVE FALSE
    <3>1. x.job.id \in JobIds /\ x.job.id # 0
      BY PaperJob
    <3>2. wjob[c] = x.job.id /\ ~Drawn(c)
      BY <2>3 DEF PaperOwned
    <3> QED BY <2>2, <3>1, <3>2
  <2>4. \A j \in JobIds : reqs[j] # Full(c)
    BY <2>1, <2>2 DEF HeaderFails, SpoolOwned, OnDisk, Drawn, JobIds
  <2> QED BY <2>1, <2>3, <2>4 DEF HeaderFails, WorkerType, ReplyType
<1>9. CASE \E c \in Clients : get_newjobno(c)
  <2>1. PICK c \in Clients : get_newjobno(c)
    BY <1>9
  <2>2. \A j \in JobIds : reqs[j] # Full(c)
    BY <2>1 DEF get_newjobno, Progress, SpoolOwned
  <2> QED BY <2>1, <2>2 DEF get_newjobno, WorkerType, Progress, Unanswered, Drawn
<1>10. CASE \E c \in Clients : CreatData(c)
  BY <1>10 DEF CreatData
<1>11. CASE \E c \in Clients : CreatDataFails(c)
  <2>1. PICK c \in Clients : CreatDataFails(c)
    BY <1>11
  <2>2. wjob[c] = 0 \/ Drawn(c)
    BY <2>1 DEF CreatDataFails, Progress, Drawn
  <2>3. ASSUME NEW x \in paper, x.job.owner = c PROVE FALSE
    <3>1. x.job.id \in JobIds /\ x.job.id # 0
      BY PaperJob
    <3>2. wjob[c] = x.job.id /\ ~Drawn(c)
      BY <2>3 DEF PaperOwned
    <3> QED BY <2>2, <3>1, <3>2
  <2>4. \A j \in JobIds : reqs[j] # Full(c)
    BY <2>1, <2>2 DEF CreatDataFails, SpoolOwned, OnDisk, Drawn, JobIds
  <2> QED BY <2>1, <2>3, <2>4 DEF CreatDataFails, WorkerType, ReplyType
<1>12. CASE \E c \in Clients : ReadPiece(c)
  BY <1>12 DEF ReadPiece
<1>13. CASE \E c \in Clients : WritePieceFails(c)
  <2>1. PICK c \in Clients : WritePieceFails(c)
    BY <1>13
  <2>2. wjob[c] = 0 \/ Drawn(c)
    BY <2>1 DEF WritePieceFails, Progress, Drawn
  <2>3. ASSUME NEW x \in paper, x.job.owner = c PROVE FALSE
    <3>1. x.job.id \in JobIds /\ x.job.id # 0
      BY PaperJob
    <3>2. wjob[c] = x.job.id /\ ~Drawn(c)
      BY <2>3 DEF PaperOwned
    <3> QED BY <2>2, <3>1, <3>2
  <2>4. \A j \in JobIds : reqs[j] # Full(c)
    BY <2>1, <2>2 DEF WritePieceFails, SpoolOwned, OnDisk, Drawn, JobIds
  <2> QED BY <2>1, <2>3, <2>4 DEF WritePieceFails, WorkerType, ReplyType
<1>14. CASE \E c \in Clients : EndOfData(c)
  BY <1>14 DEF EndOfData
<1>15. CASE \E c \in Clients : CreatReq(c)
  BY <1>15 DEF CreatReq
<1>16. CASE \E c \in Clients : CreatReqFails(c)
  <2>1. PICK c \in Clients : CreatReqFails(c)
    BY <1>16
  <2>2. wjob[c] = 0 \/ Drawn(c)
    BY <2>1 DEF CreatReqFails, Progress, Drawn
  <2>3. ASSUME NEW x \in paper, x.job.owner = c PROVE FALSE
    <3>1. x.job.id \in JobIds /\ x.job.id # 0
      BY PaperJob
    <3>2. wjob[c] = x.job.id /\ ~Drawn(c)
      BY <2>3 DEF PaperOwned
    <3> QED BY <2>2, <3>1, <3>2
  <2>4. \A j \in JobIds : reqs[j] # Full(c)
    BY <2>1, <2>2 DEF CreatReqFails, SpoolOwned, OnDisk, Drawn, JobIds
  <2> QED BY <2>1, <2>3, <2>4 DEF CreatReqFails, WorkerType, ReplyType
<1>17. CASE \E c \in Clients : WriteReq(c)
  <2>1. PICK c \in Clients : WriteReq(c)
    BY <1>17
  <2>2. reply[c] # Rejected
    BY <2>1 DEF WriteReq
  <2> QED BY <2>1, <2>2 DEF WriteReq, Rewritten, SpoolType, WorkerType, Progress, Drawn, JobIds
<1>18. CASE \E c \in Clients : WriteReqFails(c)
  <2>1. PICK c \in Clients : WriteReqFails(c)
    BY <1>18
  <2>2. wjob[c] = 0 \/ Drawn(c)
    BY <2>1 DEF WriteReqFails, Progress, Drawn
  <2>3. ASSUME NEW x \in paper, x.job.owner = c PROVE FALSE
    <3>1. x.job.id \in JobIds /\ x.job.id # 0
      BY PaperJob
    <3>2. wjob[c] = x.job.id /\ ~Drawn(c)
      BY <2>3 DEF PaperOwned
    <3> QED BY <2>2, <3>1, <3>2
  <2>4. \A j \in JobIds : reqs[j] # Full(c)
    BY <2>1, <2>2 DEF WriteReqFails, SpoolOwned, OnDisk, Drawn, JobIds
  <2> QED BY <2>1, <2>3, <2>4 DEF WriteReqFails, WorkerType, ReplyType
<1>19. CASE \E c \in Clients : UndoReq(c)
  BY <1>19 DEF UndoReq
<1>20. CASE \E c \in Clients : UndoData(c)
  BY <1>20 DEF UndoData
<1>21. CASE \E c \in Clients : Respond(c)
  BY <1>21 DEF Respond, MainType
<1>22. CASE \E c \in Clients : add_job(c)
  BY <1>22 DEF add_job
<1>23. CASE \E c \in Clients : Signal(c)
  BY <1>23 DEF Signal
<1> HIDE DEF IInv, Types, Refused, Rejected, JobIds, SpoolType, WorkerType,
     ReplyType
<1> QED
  BY <1>1, <1>2, <1>3, <1>4, <1>5, <1>6, <1>7, <1>8, <1>9, <1>10, <1>11, <1>12,
       <1>13, <1>14, <1>15, <1>16, <1>17, <1>18, <1>19, <1>20, <1>21, <1>22, <1>23
       DEF Next, vars, Build, Printer, Worker, Command, Quiet, Start, BuildSignal,
       BuildDone, Sighup, EditConfig, BuildAdd, SendHeader, SendPiece, ClientDies,
       Wait, remove_job, update_jobno, CheckConfig, init_printer, Cancel, Open,
       SendFails, StatusOk, StatusFails, UnlinkData, replace_job, WakeUp

\* Every step keeps the spool empty of jobs that were rejected and cleared up.
LEMMA EmptiedStep ==
  ASSUME IInv, [Next]_vars
  PROVE  \A c \in Clients : Emptied(c)'
<1>0. stops = 0 => \A c \in Clients : ~Doubled(c)
  BY DEF IInv, Types, MainType, Numbers
<1> USE Consts, Records, Shared, <1>0 DEF IInv, Types, MainType, WorkerType, SpoolType, ReplyType,
     Progress, Drawn, JobIds, OnDisk, SpoolOwned, Emptied, Refused, Rejected,
     Go, PGo, Reply, wakeup, Running, spool, main, config, pthr, workr,
     client, pframe
<1>1. CASE UNCHANGED <<wpc, wjob, reply, data, reqs, stops>>
  BY <1>1
<1>2. CASE \E j \in JobIds : BuildTorn(j)
  BY <1>2 DEF BuildTorn
<1>3. CASE \E c \in Clients : Accept(c)
  BY <1>3 DEF Accept
<1>4. CASE Stop
  BY <1>4 DEF Stop
<1>5. CASE UnlinkData
  BY <1>5 DEF UnlinkData
<1>6. CASE UnlinkReq
  BY <1>6 DEF UnlinkReq
<1>7. CASE \E c \in Clients : ReadHeader(c)
  BY <1>7 DEF ReadHeader
<1>8. CASE \E c \in Clients : HeaderFails(c)
  BY <1>8 DEF HeaderFails
<1>9. CASE \E c \in Clients : get_newjobno(c)
  BY <1>9 DEF get_newjobno
<1>10. CASE \E c \in Clients : CreatData(c)
  BY <1>10 DEF CreatData
<1>11. CASE \E c \in Clients : CreatDataFails(c)
  BY <1>11 DEF CreatDataFails
<1>12. CASE \E c \in Clients : ReadPiece(c)
  BY <1>12 DEF ReadPiece, Rewritten
<1>13. CASE \E c \in Clients : WritePieceFails(c)
  BY <1>13 DEF WritePieceFails
<1>14. CASE \E c \in Clients : EndOfData(c)
  BY <1>14 DEF EndOfData
<1>15. CASE \E c \in Clients : CreatReq(c)
  BY <1>15 DEF CreatReq
<1>16. CASE \E c \in Clients : CreatReqFails(c)
  BY <1>16 DEF CreatReqFails
<1>17. CASE \E c \in Clients : WriteReq(c)
  BY <1>17 DEF WriteReq, Rewritten
<1>18. CASE \E c \in Clients : WriteReqFails(c)
  BY <1>18 DEF WriteReqFails
<1>19. CASE \E c \in Clients : UndoReq(c)
  BY <1>19 DEF UndoReq
<1>20. CASE \E c \in Clients : UndoData(c)
  BY <1>20 DEF UndoData
<1>21. CASE \E c \in Clients : Respond(c)
  BY <1>21 DEF Respond
<1>22. CASE \E c \in Clients : add_job(c)
  BY <1>22 DEF add_job
<1>23. CASE \E c \in Clients : Signal(c)
  BY <1>23 DEF Signal
<1> HIDE DEF IInv, Types, MainType, WorkerType, SpoolType, ReplyType, Progress,
     Drawn, JobIds, OnDisk, SpoolOwned, Emptied, Refused, Rejected
<1> QED
  BY <1>1, <1>2, <1>3, <1>4, <1>5, <1>6, <1>7, <1>8, <1>9, <1>10, <1>11, <1>12,
       <1>13, <1>14, <1>15, <1>16, <1>17, <1>18, <1>19, <1>20, <1>21, <1>22, <1>23
       DEF Next, vars, Build, Printer, Worker, Command, Quiet, Start, BuildSignal,
       BuildDone, Sighup, EditConfig, BuildAdd, SendHeader, SendPiece, ClientDies,
       Wait, remove_job, update_jobno, CheckConfig, init_printer, Cancel, Open,
       Send, SendFails, StatusOk, StatusFails, replace_job, WakeUp

-----------------------------------------------------------------------------
(* Whole documents: what holds as long as no client keeps silent.          *)

\* A document that has ended is all that was sent: its client is done or gone.
AllSent(c) == cst[c] \in {"sent", "dead"}
WholeReceived == \A c \in Clients :
                   wpc[c] \in {"creat_req", "write_req", "respond", "add_job"} =>
                     got[c] = sent[c] /\ AllSent(c)
WholeOnDisk == \A j \in JobIds, c \in Clients :
                 ~Doubled(c) /\ reqs[j] = Full(c) /\ data[j].owner = c =>
                   data[j] = File(c, sent[c]) /\ AllSent(c)
WholeOnPaper == \A x \in paper : ~Doubled(x.job.owner) =>
                  x.file = File(x.job.owner, sent[x.job.owner]) /\ AllSent(x.job.owner)
Whole == WholeReceived /\ WholeOnDisk /\ WholeOnPaper

\* No document ends while its client is still sending.
NoSilence == \A c \in Clients : EndOfData(c) => cst[c] # "sending"

\* Without silence a document ends when all that was sent has been read.
LEMMA WholeReceivedStep ==
  ASSUME IInv, WholeReceived, NoSilence, [Next]_vars
  PROVE  WholeReceived'
<1> USE Consts DEF IInv, WholeReceived, AllSent, NoSilence, Types, WorkerType,
     CommandType, Progress, WorkerPCs, Go, PGo, Reply, wakeup, Running, spool, main,
     config, pthr, workr, client, pframe
<1>1. CASE UNCHANGED <<wpc, got, cst, sent>>
  BY <1>1
<1>2. CASE Stop
  BY <1>2 DEF Stop
<1>3. CASE \E c \in Clients : Accept(c)
  BY <1>3 DEF Accept
<1>4. CASE \E c \in Clients : SendHeader(c)
  BY <1>4 DEF SendHeader
<1>5. CASE \E c \in Clients : SendPiece(c)
  BY <1>5 DEF SendPiece
<1>6. CASE \E c \in Clients : ClientDies(c)
  BY <1>6 DEF ClientDies
<1>7. CASE \E c \in Clients : ReadHeader(c)
  BY <1>7 DEF ReadHeader
<1>8. CASE \E c \in Clients : HeaderFails(c)
  BY <1>8 DEF HeaderFails
<1>9. CASE \E c \in Clients : get_newjobno(c)
  BY <1>9 DEF get_newjobno
<1>10. CASE \E c \in Clients : CreatData(c)
  BY <1>10 DEF CreatData
<1>11. CASE \E c \in Clients : CreatDataFails(c)
  BY <1>11 DEF CreatDataFails
<1>12. CASE \E c \in Clients : ReadPiece(c)
  BY <1>12 DEF ReadPiece
<1>13. CASE \E c \in Clients : WritePieceFails(c)
  BY <1>13 DEF WritePieceFails
<1>14. CASE \E c \in Clients : EndOfData(c)
  BY <1>14 DEF EndOfData
<1>15. CASE \E c \in Clients : CreatReq(c)
  BY <1>15 DEF CreatReq
<1>16. CASE \E c \in Clients : CreatReqFails(c)
  BY <1>16 DEF CreatReqFails
<1>17. CASE \E c \in Clients : WriteReq(c)
  BY <1>17 DEF WriteReq
<1>18. CASE \E c \in Clients : WriteReqFails(c)
  BY <1>18 DEF WriteReqFails
<1>19. CASE \E c \in Clients : UndoReq(c)
  BY <1>19 DEF UndoReq
<1>20. CASE \E c \in Clients : UndoData(c)
  BY <1>20 DEF UndoData
<1>21. CASE \E c \in Clients : Respond(c)
  BY <1>21 DEF Respond
<1>22. CASE \E c \in Clients : add_job(c)
  BY <1>22 DEF add_job
<1>23. CASE \E c \in Clients : Signal(c)
  BY <1>23 DEF Signal
<1> HIDE DEF IInv, WholeReceived, AllSent, NoSilence, Types, WorkerType,
     CommandType, Progress, WorkerPCs
<1> QED
  BY <1>1, <1>2, <1>3, <1>4, <1>5, <1>6, <1>7, <1>8, <1>9, <1>10, <1>11, <1>12,
       <1>13, <1>14, <1>15, <1>16, <1>17, <1>18, <1>19, <1>20, <1>21, <1>22, <1>23
       DEF Next, vars, Build, Printer, Worker, Command, Quiet, Start, BuildSignal,
       BuildDone, Sighup, EditConfig, BuildTorn, BuildAdd, Wait, remove_job,
       update_jobno, CheckConfig, init_printer, Cancel, Open, Send, SendFails,
       StatusOk, StatusFails, UnlinkData, UnlinkReq, replace_job, WakeUp

\* The control file is written to a whole document, and nothing is sent after that.
LEMMA WholeOnDiskStep ==
  ASSUME IInv, Whole, [Next]_vars
  PROVE  WholeOnDisk'
<1>0. \A c \in Clients : Doubled(c) => Doubled(c)'
  BY DoubledKept DEF IInv
<1> USE Consts, Records, Shared, <1>0 DEF IInv, Whole, Go, PGo, Reply, wakeup, Running, spool,
     main, config, pthr, workr, client, pframe
<1>1. CASE UNCHANGED <<data, reqs, cst, sent>>
  BY <1>1 DEF WholeOnDisk, AllSent
<1>2. CASE Stop
  <2>2. UNCHANGED <<data, reqs>> /\ \A d \in Clients : AllSent(d) => AllSent(d)' /\ sent'[d] = sent[d]
    BY <1>2 DEF Stop, AllSent, Types, CommandType, Progress
  <2> QED BY <2>2 DEF WholeOnDisk
<1>3. CASE \E c \in Clients : Accept(c)
  <2>1. PICK c \in Clients : Accept(c)
    BY <1>3
  <2>2. UNCHANGED <<data, reqs>> /\ \A d \in Clients : AllSent(d) => AllSent(d)' /\ sent'[d] = sent[d]
    BY <2>1 DEF Accept, AllSent, Types, CommandType, Progress
  <2> QED BY <2>2 DEF WholeOnDisk
<1>4. CASE \E c \in Clients : SendHeader(c)
  <2>1. PICK c \in Clients : SendHeader(c)
    BY <1>4
  <2>2. UNCHANGED <<data, reqs>> /\ \A d \in Clients : AllSent(d) => AllSent(d)' /\ sent'[d] = sent[d]
    BY <2>1 DEF SendHeader, AllSent, Types, CommandType, Progress
  <2> QED BY <2>2 DEF WholeOnDisk
<1>5. CASE \E c \in Clients : SendPiece(c)
  <2>1. PICK c \in Clients : SendPiece(c)
    BY <1>5
  <2>2. UNCHANGED <<data, reqs>> /\ \A d \in Clients : AllSent(d) => AllSent(d)' /\ sent'[d] = sent[d]
    BY <2>1 DEF SendPiece, AllSent, Types, CommandType, Progress
  <2> QED BY <2>2 DEF WholeOnDisk
<1>6. CASE \E c \in Clients : ClientDies(c)
  <2>1. PICK c \in Clients : ClientDies(c)
    BY <1>6
  <2>2. UNCHANGED <<data, reqs>> /\ \A d \in Clients : AllSent(d) => AllSent(d)' /\ sent'[d] = sent[d]
    BY <2>1 DEF ClientDies, AllSent, Types, CommandType, Progress
  <2> QED BY <2>2 DEF WholeOnDisk
<1>7. CASE \E j \in JobIds : BuildTorn(j)
  <2>1. PICK j \in JobIds : BuildTorn(j)
    BY <1>7
  <2>2. UNCHANGED <<cst, sent>> /\ \A i \in JobIds :
          IF i = j THEN reqs'[i] = NoReq ELSE reqs'[i] = reqs[i] /\ data'[i] = data[i]
    BY <2>1 DEF BuildTorn, Types, SpoolType
  <2> QED BY <2>2 DEF WholeOnDisk, AllSent
<1>8. CASE \E c \in Clients : CreatData(c)
  <2>1. PICK c \in Clients : CreatData(c)
    BY <1>8
  <2>2. wjob[c] \in JobIds /\ \A d \in Clients : Doubled(d) \/ reqs[wjob[c]] # Full(d)
    BY <2>1, NotWritten DEF CreatData
  <2>3. UNCHANGED <<cst, sent>> /\ reqs' = reqs /\ \A j \in JobIds : j # wjob[c] => data'[j] = data[j]
    BY <2>1 DEF CreatData, Types, SpoolType
  <2> QED BY <2>1, <2>2, <2>3 DEF WholeOnDisk, AllSent
<1>9. CASE \E c \in Clients : ReadPiece(c)
  <2>1. PICK c \in Clients : ReadPiece(c)
    BY <1>9
  <2>2. wjob[c] \in JobIds /\ \A d \in Clients : Doubled(d) \/ reqs[wjob[c]] # Full(d)
    BY <2>1, NotWritten DEF ReadPiece
  <2>3. UNCHANGED <<cst, sent>> /\ reqs' = reqs /\ \A j \in JobIds : j # wjob[c] => data'[j] = data[j]
    BY <2>1 DEF ReadPiece, Types, SpoolType
  <2> QED BY <2>1, <2>2, <2>3 DEF WholeOnDisk, AllSent
<1>10. CASE \E c \in Clients : CreatReq(c)
  <2>1. PICK c \in Clients : CreatReq(c)
    BY <1>10
  <2>2. wjob[c] \in JobIds /\ \A d \in Clients : Doubled(d) \/ reqs[wjob[c]] # Full(d)
    BY <2>1, NotWritten DEF CreatReq
  <2>3. UNCHANGED <<cst, sent>> /\ data' = data /\ \A j \in JobIds : reqs'[j] = IF j = wjob[c] THEN Torn ELSE reqs[j]
    BY <2>1 DEF CreatReq, Types, SpoolType
  <2> QED BY <2>1, <2>2, <2>3 DEF WholeOnDisk, AllSent
<1>11. CASE \E c \in Clients : WriteReq(c)
  <2>1. PICK c \in Clients : WriteReq(c)
    BY <1>11
  <2>2. (Doubled(c) \/ data[wjob[c]] = File(c, sent[c])) /\ AllSent(c)
    BY <2>1 DEF WriteReq, OnDisk, Drawn, WholeReceived
  <2>3. /\ UNCHANGED <<cst, sent>> /\ data' = data
        /\ \A j \in JobIds : reqs'[j] = reqs[j] \/ (j = wjob[c] /\ reqs'[j] = Full(c))
    BY <2>1 DEF WriteReq, Rewritten, Types, SpoolType
  <2> QED BY <2>1, <2>2, <2>3 DEF WholeOnDisk, AllSent
<1>12. CASE \E c \in Clients : UndoReq(c)
  <2>1. PICK c \in Clients : UndoReq(c)
    BY <1>12
  <2>2. wjob[c] \in JobIds /\ \A d \in Clients : Doubled(d) \/ reqs[wjob[c]] # Full(d)
    BY <2>1, NotWritten DEF UndoReq
  <2>3. UNCHANGED <<cst, sent>> /\ data' = data /\ \A j \in JobIds : reqs'[j] = IF j = wjob[c] THEN NoReq ELSE reqs[j]
    BY <2>1 DEF UndoReq, Types, SpoolType
  <2> QED BY <2>1, <2>2, <2>3 DEF WholeOnDisk, AllSent
<1>13. CASE \E c \in Clients : UndoData(c)
  <2>1. PICK c \in Clients : UndoData(c)
    BY <1>13
  <2>2. wjob[c] \in JobIds /\ \A d \in Clients : Doubled(d) \/ reqs[wjob[c]] # Full(d)
    BY <2>1, NotWritten DEF UndoData
  <2>3. UNCHANGED <<cst, sent>> /\ reqs' = reqs /\ \A j \in JobIds : j # wjob[c] => data'[j] = data[j]
    BY <2>1 DEF UndoData, Types, SpoolType
  <2> QED BY <2>1, <2>2, <2>3 DEF WholeOnDisk, AllSent
<1>14. CASE UnlinkData
  <2>1. UNCHANGED <<cst, sent>> /\ reqs' = reqs /\ \A i \in JobIds : data'[i] = data[i] \/ data'[i] = NoFile
    BY <1>14 DEF UnlinkData, Types, SpoolType
  <2> QED BY <2>1 DEF WholeOnDisk, AllSent
<1>15. CASE UnlinkReq
  <2>1. UNCHANGED <<cst, sent>> /\ data' = data /\ \A i \in JobIds : reqs'[i] = reqs[i] \/ reqs'[i] = NoReq
    BY <1>15 DEF UnlinkReq, Types, SpoolType
  <2> QED BY <2>1 DEF WholeOnDisk, AllSent
<1> HIDE DEF IInv, Whole
<1> QED
  BY <1>1, <1>2, <1>3, <1>4, <1>5, <1>6, <1>7, <1>8, <1>9, <1>10, <1>11, <1>12,
       <1>13, <1>14, <1>15 DEF Next, vars, Build, Printer, Worker, Command, Quiet,
       Start, BuildSignal, BuildDone, Sighup, EditConfig, BuildAdd, ReadHeader,
       HeaderFails, get_newjobno, CreatDataFails, WritePieceFails, EndOfData,
       CreatReqFails, WriteReqFails, Respond, add_job, Signal, Wait, remove_job,
       update_jobno, CheckConfig, init_printer, Cancel, Open, Send, SendFails,
       StatusOk, StatusFails, replace_job, WakeUp

\* What is printed is a whole document.
LEMMA WholeOnPaperStep ==
  ASSUME IInv, Whole, [Next]_vars
  PROVE  WholeOnPaper'
<1>0. \A c \in Clients : Doubled(c) => Doubled(c)'
  BY DoubledKept DEF IInv
<1> USE Consts, <1>0 DEF IInv, WholeOnPaper, AllSent, Whole, Types, CommandType,
     Progress, Go, PGo, Reply, wakeup, Running, spool, main, config, pthr, workr,
     client, pframe
<1>1. CASE UNCHANGED <<paper, cst, sent>>
  BY <1>1, PaperJob
<1>2. CASE Stop
  BY <1>2, PaperJob DEF Stop
<1>3. CASE \E c \in Clients : Accept(c)
  BY <1>3, PaperJob DEF Accept
<1>4. CASE \E c \in Clients : SendHeader(c)
  BY <1>4, PaperJob DEF SendHeader
<1>5. CASE \E c \in Clients : SendPiece(c)
  BY <1>5, PaperJob DEF SendPiece
<1>6. CASE \E c \in Clients : ClientDies(c)
  BY <1>6, PaperJob DEF ClientDies
<1>7. CASE Send
  <2>1. pjob # NoJob /\ (Doubled(pjob.owner) \/ data[pjob.id] # NoFile)
    BY <1>7 DEF Send, PrinterType, PBusy, AtPrinter
  <2>2. /\ pjob.id \in JobIds /\ pjob.owner \in Clients
        /\ Doubled(pjob.owner) \/ reqs[pjob.id] = Full(pjob.owner)
    BY <2>1, AtHand DEF JobSound
  <2>3. PICK f \in OpenFile : paper' = paper \cup {[job |-> pjob, file |-> f, conf |-> printer]}
    BY <1>7 DEF Send
  <2>4. ASSUME ~Doubled(pjob.owner)
        PROVE  f = File(pjob.owner, sent[pjob.owner]) /\ AllSent(pjob.owner)
    <3>1. f = data[pjob.id]
      BY <2>1, <2>4 DEF OpenFile
    <3>2. data[pjob.id].owner = pjob.owner
      BY <2>1, <2>2, <2>4 DEF Written
    <3> QED BY <2>2, <2>4, <3>1, <3>2 DEF WholeOnDisk
  <2> DEFINE y == [job |-> pjob, file |-> f, conf |-> printer]
  <2>5. y.job = pjob /\ y.file = f
    OBVIOUS
  <2>6. paper' = paper \cup {y} /\ UNCHANGED <<cst, sent>>
    BY <1>7, <2>3 DEF Send
  <2> HIDE DEF y
  <2> QED BY <2>2, <2>4, <2>5, <2>6, PaperJob
<1> HIDE DEF IInv, WholeOnPaper, AllSent, Whole, Types, CommandType, Progress
<1> QED
  BY <1>1, <1>2, <1>3, <1>4, <1>5, <1>6, <1>7, SMTT(30) DEF Next, vars, Build, Printer,
       Worker, Command, Quiet, Start, BuildSignal, BuildDone, Sighup, EditConfig,
       BuildTorn, BuildAdd, ReadHeader, HeaderFails, get_newjobno, CreatData,
       CreatDataFails, ReadPiece, WritePieceFails, EndOfData, CreatReq,
       CreatReqFails, WriteReq, WriteReqFails, UndoReq, UndoData, Respond, add_job,
       Signal, Wait, remove_job, update_jobno, CheckConfig, init_printer, Cancel,
       Open, SendFails, StatusOk, StatusFails, UnlinkData, UnlinkReq, replace_job,
       WakeUp

-----------------------------------------------------------------------------
(* The order of the jobs: what the spooler does to its jobs is what        *)
(* PrintQueue promises.                                                    *)

\* Jobs that share their number go on doing so; no step but drawing a number adds to them.
LEMMA SpoiledStep ==
  ASSUME IInv, [Next]_vars
  PROVE  Spoiled \subseteq Spoiled' /\ (wjob' = wjob => Spoiled' = Spoiled)
<1>1. \A c \in Clients : Doubled(c) => Doubled(c)'
  BY DoubledKept DEF IInv
<1>2. \A c \in Clients : Doubled(c) => wjob'[c] = wjob[c]
  <2>1. CASE wjob' = wjob
    BY <2>1
  <2>2. CASE \E c \in Clients : get_newjobno(c)
    BY <2>2 DEF get_newjobno, Go, Doubled, IInv, Types, WorkerType, Progress
  <2> QED BY <2>1, <2>2, DrawnStep DEF IInv
<1>3. wjob' = wjob => Spoiled' = Spoiled
  BY DEF Spoiled, Doubled, Job
<1>4. Spoiled \subseteq Spoiled'
  BY <1>1, <1>2 DEF Spoiled
<1> QED BY <1>3, <1>4

\* Every step adds a job at the end, prints the first, drops a first job that was printed or
\* shares its number, forgets all, or does none of it.
LEMMA QueueStep ==
  ASSUME IInv, [Next]_vars
  PROVE  [Q!QNext]_<<Pending, Printed, Spoiled>>
<1> USE DEF IInv, Types, Go, PGo, Reply, wakeup, Running, spool, main, config, pthr,
     workr, client, pframe
<1>1. CASE UNCHANGED <<pjob, queue, paper>>
  <2>1. Pending' = Pending /\ Printed' = Printed
    BY <1>1, PendingKept DEF Printed
  <2> QED BY <2>1, SpoiledStep DEF Q!QNext, Q!Spoil
<1>2. CASE \E j \in JobIds : BuildAdd(j)
  <2>1. PICK j \in JobIds : BuildAdd(j)
    BY <1>2
  <2>2. reqs[j].owner \in Clients
    BY <2>1 DEF BuildAdd, NoReq, Torn, Full, SpoolType
  <2>3. PICK jb \in Jobs : jb = Job(j, reqs[j].owner)
    BY <2>2, Records
  <2>4. Pending' = Append(Pending, jb)
    BY <2>1, <2>3, PendingAdded DEF BuildAdd
  <2>5. Printed' = Printed /\ Spoiled' = Spoiled
    BY <2>1, SpoiledStep DEF BuildAdd, Printed
  <2> QED BY <2>4, <2>5 DEF Q!QNext, Q!Add
<1>3. CASE Stop
  <2>1. Pending' = <<>> /\ Printed' = Printed /\ Spoiled' = Spoiled
    BY <1>3, SpoiledStep DEF Stop, Pending, Printed
  <2> QED BY <2>1 DEF Q!QNext, Q!Forget
<1>4. CASE \E c \in Clients : add_job(c)
  <2>1. PICK c \in Clients : add_job(c)
    BY <1>4
  <2>2. wjob[c] \in JobIds
    BY <2>1, Consts DEF add_job, WorkerType, MainType, Progress, Drawn, JobIds
  <2>3. PICK jb \in Jobs : jb = Job(wjob[c], c)
    BY <2>2, Records
  <2>4. Pending' = Append(Pending, jb)
    BY <2>1, <2>3, PendingAdded DEF add_job
  <2>5. Printed' = Printed /\ Spoiled' = Spoiled
    BY <2>1, SpoiledStep DEF add_job, Printed
  <2> QED BY <2>4, <2>5 DEF Q!QNext, Q!Add
<1>5. CASE remove_job
  <2>1. Pending' = Pending
    BY <1>5, PendingKept
  <2>2. Printed' = Printed /\ Spoiled' = Spoiled
    BY <1>5, SpoiledStep DEF remove_job, Printed
  <2> QED BY <2>1, <2>2
<1>6. CASE replace_job
  <2>1. Pending' = Pending
    BY <1>6, PendingKept
  <2>2. Printed' = Printed /\ Spoiled' = Spoiled
    BY <1>6, SpoiledStep DEF replace_job, Printed
  <2> QED BY <2>1, <2>2
<1>7. CASE Cancel
  <2>1. pjob # NoJob /\ Pending # <<>> /\ Head(Pending) = pjob /\ Pending' = Tail(Pending)
    BY <1>7, PendingDropped
  <2>2. Printed' = Printed /\ Spoiled' = Spoiled
    BY <1>7, SpoiledStep DEF Cancel, Printed
  <2>3. pjob \in Printed \cup Spoiled
    <3>1. /\ pjob = Job(pjob.id, pjob.owner) /\ pjob.owner \in Clients /\ pjob.id \in JobIds
          /\ wjob[pjob.owner] = pjob.id
          /\ Doubled(pjob.owner) \/ reqs[pjob.id] = Full(pjob.owner)
      BY <2>1, AtHand DEF JobSound
    <3>2. CASE Doubled(pjob.owner)
      BY <3>1, <3>2 DEF Spoiled
    <3>3. CASE ~Doubled(pjob.owner)
      <4>1. data[pjob.id].owner # pjob.owner
        BY <1>7, <3>1, Records DEF Cancel
      <4> QED BY <3>1, <3>3, <4>1 DEF IInv, Written
    <3> QED BY <3>2, <3>3
  <2> QED BY <2>1, <2>2, <2>3 DEF Q!QNext, Q!Drop
<1>8. CASE Send
  <2>1. pjob # NoJob
    BY <1>8 DEF Send, PrinterType, PBusy
  <2>2. Pending \in Seq(Jobs) /\ Pending # <<>> /\ Head(Pending) = pjob
    BY <2>1, PendingType
  <2>3. Pending' = Pending
    BY <1>8, PendingKept DEF Send
  <2>4. PICK x : paper' = paper \cup {x} /\ x.job = pjob
    <3>1. PICK f \in OpenFile : paper' = paper \cup {[job |-> pjob, file |-> f, conf |-> printer]}
      BY <1>8 DEF Send
    <3>2. [job |-> pjob, file |-> f, conf |-> printer].job = pjob
      OBVIOUS
    <3> QED BY <3>1, <3>2
  <2>5. Printed' = Printed \cup {Head(Pending)}
    BY <2>2, <2>4 DEF Printed
  <2>6. Spoiled' = Spoiled
    BY <1>8, SpoiledStep DEF Send
  <2> QED BY <2>2, <2>3, <2>5, <2>6 DEF Q!QNext, Q!PrintHead
<1>9. CASE UnlinkReq
  <2>1. pjob # NoJob /\ Pending # <<>> /\ Head(Pending) = pjob /\ Pending' = Tail(Pending)
    BY <1>9, PendingDropped
  <2>2. Printed' = Printed /\ Spoiled' = Spoiled
    BY <1>9, SpoiledStep DEF UnlinkReq, Printed
  <2>3. pjob \in Printed
    BY <1>9 DEF UnlinkReq, AtPrinter
  <2> QED BY <2>1, <2>2, <2>3 DEF Q!QNext, Q!Drop
<1> HIDE DEF IInv, Types
<1> QED
  BY <1>1, <1>2, <1>3, <1>4, <1>5, <1>6, <1>7, <1>8, <1>9, SMTT(30) DEF Next, vars, Build,
       Printer, Worker, Command, Quiet, Start, BuildSignal, BuildDone, Sighup,
       EditConfig, BuildTorn, Accept, SendHeader, SendPiece, ClientDies, ReadHeader,
       HeaderFails, get_newjobno, CreatData, CreatDataFails, ReadPiece,
       WritePieceFails, EndOfData, CreatReq, CreatReqFails, WriteReq, WriteReqFails,
       UndoReq, UndoData, Respond, Signal, Wait, update_jobno, CheckConfig,
       init_printer, Open, SendFails, StatusOk, StatusFails, UnlinkData, WakeUp

-----------------------------------------------------------------------------
(* The invariant holds.                                                    *)

\* Initially the spool is empty, nothing runs and nothing was printed.
LEMMA InitIInv ==
  ASSUME Init
  PROVE  IInv /\ Whole
<1> USE Consts DEF Init
<1>1. queue = <<>> /\ pjob = NoJob /\ Pending = <<>> /\ paper = {} /\ Printed = {}
  BY DEF Pending, Printed
<1>2. SpoolType /\ PaperType
  BY DEF SpoolType, PaperType
<1>3. MainType /\ PrinterType
  BY DEF MainType, PrinterType, PrinterPCs, PBusy
<1>4. ConfigType /\ CommandType /\ ReplyType
  <2>1. 0 \in 0 .. Pieces /\ 0 \in 0 .. (MaxJob + 1) /\ 0 \in 0 .. MaxConf /\ 0 \in 0 .. 0
    OBVIOUS
  <2>2. ConfigType
    BY <2>1 DEF ConfigType
  <2>3. CommandType
    BY <2>1 DEF CommandType
  <2>4. ReplyType
    BY <2>1 DEF ReplyType, Unanswered
  <2> QED BY <2>2, <2>3, <2>4
<1>5. WorkerType
  BY DEF WorkerType, WorkerPCs
<1>6. PaperOwned /\ AtPrinter
  BY <1>1 DEF PaperOwned, AtPrinter
<1>7. PendingSound /\ PendingApart
  BY <1>1 DEF PendingSound, PendingApart
<1>8. SpoolOwned /\ Written
  BY Records DEF SpoolOwned, Written
<1>9. ASSUME NEW c \in Clients
      PROVE  Progress(c) /\ Numbers(c) /\ OnDisk(c) /\ Answered(c) /\ Refused(c) /\ Emptied(c)
  BY DEF Progress, Numbers, Below, Doubled, OnDisk, Answered, Refused, Emptied, Drawn, Unanswered, Rejected, JobIds
<1>10. Whole
  BY <1>1, Records DEF Whole, WholeReceived, WholeOnDisk, WholeOnPaper
<1> QED BY <1>2, <1>3, <1>4, <1>5, <1>6, <1>7, <1>8, <1>9, <1>10 DEF IInv, Types

\* Every step of the spooler keeps the invariant.
LEMMA StepIInv ==
  ASSUME IInv, [Next]_vars
  PROVE  IInv'
<1> USE DEF IInv
<1>1. Types'
  <2>1. SpoolType' /\ WorkerType'
    BY SpoolTypeStep, WorkerTypeStep
  <2>2. MainType' /\ PrinterType'
    BY MainTypeStep, PrinterTypeStep
  <2>3. ConfigType' /\ CommandType'
    BY ConfigTypeStep, CommandTypeStep DEF Types
  <2>4. ReplyType' /\ PaperType'
    BY ReplyTypeStep, PaperTypeStep
  <2> QED BY <2>1, <2>2, <2>3, <2>4 DEF Types
<1>2. \A c \in Clients : Progress(c)'
  BY ProgressStep
<1>3. SpoolOwned' /\ \A c \in Clients : Numbers(c)'
  BY SpoolOwnedStep, NumbersStep
<1>4. PendingSound' /\ PendingApart'
  BY PendingSoundStep, PendingApartStep
<1>5. PaperOwned' /\ Written' /\ AtPrinter'
  BY PaperOwnedStep, WrittenStep, AtPrinterStep
<1>6. \A c \in Clients : OnDisk(c)'
  BY OnDiskStep
<1>7. \A c \in Clients : Answered(c)' /\ Refused(c)' /\ Emptied(c)'
  BY AnsweredStep, RefusedStep, EmptiedStep
<1> QED BY <1>1, <1>2, <1>3, <1>4, <1>5, <1>6, <1>7

\* And without silence it keeps the documents whole.
LEMMA WholeStep ==
  ASSUME IInv, Whole, NoSilence, [Next]_vars
  PROVE  Whole'
BY WholeReceivedStep, WholeOnDiskStep, WholeOnPaperStep DEF Whole

\* The inductive invariant is an invariant.
THEOREM Invariance ==
  Spec => []IInv
<1>1. Init => IInv
  BY InitIInv
<1>2. IInv /\ [Next]_vars => IInv'
  BY StepIInv
<1> QED BY <1>1, <1>2, PTL DEF Spec

-----------------------------------------------------------------------------
(* What the invariant says.                                                *)

\* Every variable has its type.
LEMMA TypesOK ==
  ASSUME Types
  PROVE  PrintdTypeOK
<1> USE Consts DEF Types
<1>1. reqs \in [JobIds -> [owner : Clients \cup {None}, n : {0, 1}]]
  <2>1. {NoReq, Torn} \cup {Full(c) : c \in Clients} \subseteq [owner : Clients \cup {None}, n : {0, 1}]
    BY DEF NoReq, Torn, Full
  <2> QED BY <2>1 DEF SpoolType
<1>2. conf \in 0 .. MaxConf /\ hup \in 0 .. MaxConf /\ printer \in 0 .. MaxConf
  BY DEF ConfigType
<1>3. wjob \in [Clients -> JobIds \cup {0}]
  BY DEF WorkerType, JobIds
<1>4. jobfile \in 0 .. (MaxJob + 1) /\ data \in [JobIds -> Files \cup {NoFile}]
  BY DEF SpoolType
<1>5. /\ up \in {"down", "building", "signal", "serving"} /\ todo \subseteq JobIds
      /\ stops \in 0 .. MaxStops /\ nextjob \in 1 .. (MaxJob + 1)
  BY DEF MainType
<1>6. queue \in Seq(Jobs) /\ ppc \in PrinterPCs /\ pjob \in Jobs \cup {NoJob}
  BY DEF PrinterType
<1>7. wpc \in [Clients -> WorkerPCs] /\ got \in [Clients -> 0 .. Pieces] /\ reread \in BOOLEAN
  BY DEF WorkerType, ConfigType
<1>8. /\ cst \in [Clients -> {"new", "connected", "sending", "sent", "dead"}]
      /\ sent \in [Clients -> 0 .. Pieces]
      /\ reply \in [Clients -> 0 .. (MaxJob + 1)]
      /\ paper \subseteq [job : Jobs, file : Files, conf : 0 .. MaxConf]
  BY DEF CommandType, ReplyType, PaperType
<1> HIDE DEF Types
<1> QED BY <1>1, <1>2, <1>3, <1>4, <1>5, <1>6, <1>7, <1>8 DEF PrintdTypeOK

\* Numbers are shared only when a stop left them unsaved.
LEMMA NumbersApart ==
  ASSUME IInv
  PROVE  OneJobPerNumber
<1>1. \A i, k \in 1 .. Len(Pending) : Pending[i].owner = Pending[k].owner => i = k
  BY DEF IInv, PendingApart
<1>2. \A c \in Clients : Doubled(c) => wjob[c] \in unsaved
  BY DEF IInv, Numbers
<1>3. \A c, d \in Clients : Drawn(c) /\ Drawn(d) /\ wjob[c] = wjob[d] => c = d
  BY DEF IInv, Numbers
<1> QED BY <1>1, <1>2, <1>3 DEF OneJobPerNumber

\* Pending jobs and their documents are in the spool.
LEMMA PendingOnDisk ==
  ASSUME IInv
  PROVE  JobsOnDisk
<1>1. ASSUME NEW i \in 1 .. Len(Pending), ~Doubled(Pending[i].owner)
      PROVE  /\ reqs[Pending[i].id] = Full(Pending[i].owner)
             /\ \/ data[Pending[i].id].owner = Pending[i].owner
                \/ data[Pending[i].id] = NoFile /\ Pending[i] \in Printed
  <2>1. PICK jb \in Jobs : jb = Pending[i] /\ JobSound(jb)
    BY PendingJob DEF IInv, PendingSound
  <2>2. /\ reqs[jb.id] = Full(jb.owner) /\ jb.id \in JobIds /\ jb.owner \in Clients
        /\ jb = Job(jb.id, jb.owner)
    BY <1>1, <2>1, Records DEF JobSound
  <2> QED BY <1>1, <2>1, <2>2 DEF IInv, Written
<1> QED BY <1>1 DEF JobsOnDisk, PendingJobs

\* Acknowledged jobs are printed or in the spool.
LEMMA AnsweredOnDisk ==
  ASSUME IInv
  PROVE  AcceptedKept
<1>1. ASSUME NEW c \in Clients, reply[c] \in JobIds, ~Doubled(c)
      PROVE  Job(reply[c], c) \in Printed \/ (reqs[reply[c]] = Full(c) /\ data[reply[c]].owner = c)
  BY <1>1 DEF IInv, Answered, Written
<1> QED BY <1>1 DEF AcceptedKept

\* Rejected jobs are neither pending nor printed.
LEMMA RefusedOut ==
  ASSUME IInv
  PROVE  RejectedNotPrinted
<1>1. ASSUME NEW c \in Clients, reply[c] = Rejected, NEW jb \in PendingJobs, jb.owner = c
      PROVE  FALSE
  <2>1. PICK i \in 1 .. Len(Pending) : jb = Pending[i]
    BY <1>1 DEF PendingJobs
  <2>2. JobSound(Pending[i])
    BY <2>1 DEF IInv, PendingSound
  <2> QED BY <1>1, <2>1, <2>2 DEF JobSound
<1>2. ASSUME NEW c \in Clients, reply[c] = Rejected, NEW jb \in Printed, jb.owner = c
      PROVE  FALSE
  BY <1>2 DEF IInv, Refused, Printed
<1> QED BY <1>1, <1>2 DEF RejectedNotPrinted

\* A number just drawn has no control file, unless it was given before.
LEMMA FreshNumbers ==
  ASSUME IInv
  PROVE  unsaved = {} => JobNumberFresh
BY DEF IInv, Numbers, OnDisk, JobNumberFresh

\* Before the first stop a rejected job is gone.
LEMMA RefusedGone ==
  ASSUME IInv, stops = 0
  PROVE  RejectedGone
BY DEF IInv, Emptied, RejectedGone

\* Whole documents are what PrintedWhole asks for.
LEMMA WholePrinted ==
  ASSUME IInv, Whole
  PROVE  PrintedWhole
<1>1. ASSUME NEW x \in paper, ~Doubled(x.job.owner)
      PROVE  /\ x.file = File(x.job.owner, sent[x.job.owner])
             /\ x.file.n = Pieces \/ cst[x.job.owner] = "dead"
  <2>1. x.file = File(x.job.owner, sent[x.job.owner]) /\ AllSent(x.job.owner) /\ x.job.owner \in Clients
    BY <1>1, PaperJob DEF Whole, WholeOnPaper, IInv
  <2>2. x.file.n = sent[x.job.owner]
    BY <2>1 DEF File
  <2> QED BY <2>1, <2>2 DEF AllSent, IInv, Progress
<1> QED BY <1>1 DEF PrintedWhole

-----------------------------------------------------------------------------
(* The theorems.                                                           *)

\* Every variable keeps its type.
THEOREM TypeCorrect ==
  Spec => []PrintdTypeOK
<1>1. IInv => PrintdTypeOK
  BY TypesOK DEF IInv
<1> QED BY <1>1, Invariance, PTL

\* A number is given to a second client only when the daemon was stopped while the job
\* file did not cover it, never while the first client's thread is at work on it; and no
\* job is queued twice.
THEOREM NumbersUnique ==
  Spec => []OneJobPerNumber
<1>1. IInv => OneJobPerNumber
  BY NumbersApart
<1> QED BY <1>1, Invariance, PTL

\* Wherever the daemon is stopped: a pending job whose number is its own is in the spool,
\* an acknowledged one is printed or in the spool, a rejected one is neither queued nor
\* printed; and as long as no stop left a number unsaved, the one drawn for a new job is
\* not that of a job in the spool.
THEOREM JobsKept ==
  Spec => [](JobsOnDisk /\ AcceptedKept /\ RejectedNotPrinted /\ (unsaved = {} => JobNumberFresh))
<1>1. IInv => JobsOnDisk /\ AcceptedKept /\ RejectedNotPrinted /\ (unsaved = {} => JobNumberFresh)
  BY PendingOnDisk, AnsweredOnDisk, RefusedOut, FreshNumbers
<1> QED BY <1>1, Invariance, PTL

\* As long as the daemon has not stopped, a rejected job leaves nothing in the spool.
THEOREM RejectedCleared ==
  Spec => [](stops = 0 => RejectedGone)
<1>1. IInv => (stops = 0 => RejectedGone)
  BY RefusedGone
<1> QED BY <1>1, Invariance, PTL

\* When clients do not keep silent for as long as tread waits, what is printed of a job
\* whose number is its own is the document as its owner sent it, whole unless the print
\* command was killed.
THEOREM WholePrints ==
  ASSUME ~SlowClients
  PROVE  Spec => []PrintedWhole
<1>1. Init => IInv /\ Whole
  BY InitIInv
<1>2. IInv /\ Whole /\ [Next]_vars => (IInv /\ Whole)'
  <2>1. NoSilence
    BY DEF NoSilence, EndOfData
  <2> QED BY <2>1, StepIInv, WholeStep
<1>3. IInv /\ Whole => PrintedWhole
  BY WholePrinted
<1> QED BY <1>1, <1>2, <1>3, PTL DEF Spec

\* The spooler implements PrintQueue: jobs are printed in the order in which they were
\* queued, and none is dropped before it was printed unless another shares its number.
THEOREM Refinement ==
  Spec => PrintsInOrder
<1>1. Init => Q!QInit
  BY DEF Init, Q!QInit, Pending, Printed, Spoiled, Doubled
<1>2. IInv /\ [Next]_vars => [Q!QNext]_<<Pending, Printed, Spoiled>>
  BY QueueStep
<1> QED BY <1>1, <1>2, Invariance, PTL DEF Spec, PrintsInOrder, Q!QSpec

-----------------------------------------------------------------------------
(* The parts of the run.                                                   *)

\* The invariant of the run.
MCInv ==
  /\ IInv
  /\ part # "slow" => Whole
  /\ part # "restart" => stops = 0

\* The run starts in its invariant and keeps it; its steps are steps of the spooler.
LEMMA MCInvariance ==
  /\ MCInit => MCInv
  /\ MCInv /\ [MCNext]_<<part, vars>> => MCInv' /\ [Next]_vars
<1>1. MCInit => MCInv
  BY InitIInv DEF MCInit, MCInv, Init
<1>2. ASSUME MCInv, [MCNext]_<<part, vars>>
      PROVE  MCInv' /\ [Next]_vars
  <2>1. part' = part /\ [Next]_vars
    BY <1>2 DEF MCNext
  <2>2. IInv'
    BY <1>2, <2>1, StepIInv DEF MCInv
  <2>3. part # "restart" => stops' = stops
    BY <1>2 DEF MCNext, MCInv, vars
  <2>4. ASSUME part # "slow"
        PROVE  NoSilence
    <3>1. CASE MCNext
      <4> SUFFICES ASSUME NEW c \in Clients, EndOfData(c) PROVE cst[c] # "sending"
        BY DEF NoSilence
      <4>1. wpc \in [Clients -> WorkerPCs] /\ up = "serving"
        BY <1>2 DEF MCInv, IInv, Types, WorkerType, Progress, EndOfData, Go
      <4>2. wpc[c] = "read" /\ wpc'[c] = "creat_req" /\ up' = up
        BY <4>1 DEF EndOfData, Go, main
      <4> QED BY <2>4, <3>1, <4>1, <4>2 DEF MCNext, Prompt
    <3>2. CASE UNCHANGED <<part, vars>>
      BY <1>2, <3>2 DEF NoSilence, EndOfData, Go, MCInv, IInv, Types, WorkerType, vars
    <3> QED BY <1>2, <3>1, <3>2
  <2>5. part # "slow" => Whole'
    BY <1>2, <2>1, <2>4, WholeStep DEF MCInv
  <2> QED BY <1>2, <2>1, <2>2, <2>3, <2>5 DEF MCInv
<1> QED BY <1>1, <1>2

\* Each part of the run is a spooler as Printd describes it.
THEOREM RunIsPrintd == MCSpec => Init /\ [][Next]_vars
<1>1. MCInit => Init
  BY DEF MCInit
<1> QED BY <1>1, MCInvariance, PTL DEF MCSpec

\* A job whose number no other client was given is in the spool from its acknowledgement
\* until it is printed, wherever the daemon is stopped; what is printed is its owner's
\* document, and a rejected job is never printed and leaves nothing behind.
THEOREM SpoolIsKept == MCSpec => []SpoolKept
<1>1. MCInv => SpoolKept
  BY PendingOnDisk, AnsweredOnDisk, RefusedOut, RefusedGone, WholePrinted
     DEF MCInv, SpoolKept
<1> QED BY <1>1, MCInvariance, PTL DEF MCSpec
=============================================================================
