------------------------------- MODULE Printd -------------------------------
(***************************************************************************)
(* The print spooler of apue/apue.2e/ipp: the daemon printd.c with one     *)
(* thread per client, a printer thread, a signal thread and the main       *)
(* thread, its spool directory, and the print command that submits a file  *)
(* (print.c).                                                              *)
(*                                                                         *)
(* A document is a number of pieces that arrive one read at a time; a file *)
(* of the spool is the document it belongs to and how much of it is there. *)
(* Every step is one access to the spool, to a socket or to what joblock   *)
(* or configlock protects.  Files survive the end of the daemon, the rest  *)
(* does not.  It may end at any point: by SIGTERM, which cancels the       *)
(* client threads wherever they are (kill_workers) and exits, by an error  *)
(* of its own (log_sys, log_quit), or by a crash.                          *)
(***************************************************************************)
EXTENDS Naturals, Sequences

CONSTANTS
  Clients,      \* runs of the print command, each with one document
  Pieces,       \* how many reads a document takes
  MaxJob,       \* largest job number (bounds the model)
  MaxStops,     \* how often the daemon may stop (bounds the model)
  MaxConf,      \* how often the configuration file may change
  SlowClients,  \* TRUE: a client may send nothing for as long as tread waits
  ClientsDie,   \* TRUE: a print command may be killed
  DiskFull,     \* TRUE: creat and write in the spool may fail
  None          \* no file; no client

ASSUME PrintdAssumption ==
  /\ Pieces \in Nat \ {0} /\ MaxJob \in Nat \ {0}
  /\ MaxStops \in Nat /\ MaxConf \in Nat
  /\ {SlowClients, ClientsDie, DiskFull} \subseteq BOOLEAN
  /\ None \notin Clients

JobIds == 1 .. MaxJob
Unanswered == 0            \* values of reply other than a job number
Rejected == MaxJob + 1

VARIABLES
  jobfile,   \* SPOOLDIR/jobno: the number in it, 0 when empty
  data,      \* SPOOLDIR/data: the document file of each job
  reqs,      \* SPOOLDIR/reqs: the control file of each job
  up,        \* main thread: down, building, signal, serving
  todo,      \* directory entries build_qonstart has not read yet
  stops,     \* how often the daemon has stopped
  unsaved,   \* history: the numbers given out that the job file did not cover
             \* when the daemon stopped
  nextjob,   \* nextjob
  queue,     \* the list from jobhead to jobtail
  reread,    \* reread
  conf,      \* version of the configuration file
  hup,       \* version at the last SIGHUP the signal thread handled
  printer,   \* version the address in use was read from
  ppc,       \* printer thread: its control point
  pjob,      \* printer thread: jp
  wpc,       \* client threads: control points
  wjob,      \* client threads: jobid
  got,       \* client threads: pieces read
  cst,       \* print commands: new, connected, sending, sent, dead
  sent,      \* print commands: pieces written to the socket
  reply,     \* what the daemon wrote back: a job number or Rejected
  paper      \* what the printer has printed

spool  == <<jobfile, data, reqs>>
main   == <<up, todo, stops, unsaved>>
config == <<reread, conf, hup, printer>>
pthr   == <<ppc, pjob>>
workr  == <<wpc, wjob, got>>
client == <<cst, sent>>
vars == <<jobfile, data, reqs, up, todo, stops, unsaved, nextjob, queue, reread, conf, hup, printer,
          ppc, pjob, wpc, wjob, got, cst, sent, reply, paper>>

Job(j, c) == [id |-> j, owner |-> c]
Jobs == [id : JobIds, owner : Clients]
NoJob == [id |-> 0, owner |-> None]
File(c, n) == [owner |-> c, n |-> n]
Files == [owner : Clients, n : 0 .. Pieces]
NoFile == [owner |-> None, n |-> 0]
NoReq == [owner |-> None, n |-> 0]    \* no control file
Torn  == [owner |-> None, n |-> 1]    \* created, the request not yet written
Full(c) == [owner |-> c, n |-> 1]     \* it holds the request of c

Init ==
  /\ jobfile = 0
  /\ data = [j \in JobIds |-> NoFile]
  /\ reqs = [j \in JobIds |-> NoReq]
  /\ up = "down" /\ todo = {} /\ stops = 0 /\ unsaved = {}
  /\ nextjob = 1 /\ queue = <<>>
  /\ reread = FALSE /\ conf = 0 /\ hup = 0 /\ printer = 0
  /\ ppc = "none" /\ pjob = NoJob
  /\ wpc = [c \in Clients |-> "none"]
  /\ wjob = [c \in Clients |-> 0]
  /\ got = [c \in Clients |-> 0]
  /\ cst = [c \in Clients |-> "new"]
  /\ sent = [c \in Clients |-> 0]
  /\ reply = [c \in Clients |-> Unanswered]
  /\ paper = {}

Running == up # "down"

-----------------------------------------------------------------------------
(* Main thread.                                                            *)

\* init_request, init_printer, and the threads are created.
Start ==
  /\ up = "down"
  /\ up' = "building"
  /\ todo' = {j \in JobIds : reqs[j] # NoReq}
  /\ nextjob' = IF jobfile = 0 THEN 1 ELSE jobfile
  /\ printer' = conf /\ hup' = conf
  /\ ppc' = "get"
  /\ UNCHANGED <<spool, stops, unsaved, queue, reread, conf, pjob, workr, client, reply, paper>>

wakeup == ppc' = IF ppc = "wait" THEN "get" ELSE ppc   \* pthread_cond_signal

\* Mutant of BuildTorn: the length read is not compared.
BuildTornAny(j) ==
  /\ up = "building" /\ j \in todo
  /\ reqs' = [reqs EXCEPT ![j] = NoReq]
  /\ data' = [data EXCEPT ![j] = NoFile]
  /\ todo' = todo \ {j}
  /\ UNCHANGED <<jobfile, up, stops, unsaved, nextjob, queue, config, pthr, workr, client, reply, paper>>

\* build_qonstart: a torn control file goes, then its data (one step here: no
\* other thread looks at them); any other is a job.
BuildTorn(j) ==
  /\ up = "building" /\ j \in todo
  /\ reqs[j] = Torn
  /\ reqs' = [reqs EXCEPT ![j] = NoReq]
  /\ data' = [data EXCEPT ![j] = NoFile]
  /\ todo' = todo \ {j}
  /\ UNCHANGED <<jobfile, up, stops, unsaved, nextjob, queue, config, pthr, workr, client, reply, paper>>

BuildAdd(j) ==
  /\ up = "building" /\ j \in todo
  /\ reqs[j].owner # None
  /\ queue' = Append(queue, Job(j, reqs[j].owner))
  /\ todo' = todo \ {j}
  /\ up' = "signal"
  /\ UNCHANGED <<spool, stops, unsaved, nextjob, config, pthr, workr, client, reply, paper>>

BuildSignal ==
  /\ up = "signal"
  /\ up' = "building"
  /\ wakeup
  /\ UNCHANGED <<spool, todo, stops, unsaved, nextjob, queue, config, pjob, workr, client, reply, paper>>

BuildDone ==
  /\ up = "building" /\ todo = {}
  /\ up' = "serving"
  /\ UNCHANGED <<spool, todo, stops, unsaved, nextjob, queue, config, pthr, workr, client, reply, paper>>

\* accept and pthread_create.
Accept(c) ==
  /\ up = "serving"
  /\ cst[c] = "new"
  /\ cst' = [cst EXCEPT ![c] = "connected"]
  /\ wpc' = [wpc EXCEPT ![c] = "header"]
  /\ UNCHANGED <<spool, main, nextjob, queue, config, pthr, wjob, got, sent, reply, paper>>

\* SIGTERM, an error or a crash: the files stay, every connection is broken.
Stop ==
  /\ Running
  /\ stops < MaxStops
  /\ unsaved' = unsaved \cup {j \in JobIds : jobfile <= j /\ j < nextjob}
  /\ up' = "down" /\ todo' = {} /\ stops' = stops + 1
  /\ queue' = <<>> /\ reread' = FALSE
  /\ ppc' = "none" /\ pjob' = NoJob
  /\ wpc' = [c \in Clients |-> "none"]
  /\ cst' = [c \in Clients |-> IF cst[c] = "new" THEN "new" ELSE "dead"]
  /\ UNCHANGED <<spool, nextjob, conf, hup, printer, wjob, got, sent, reply, paper>>

-----------------------------------------------------------------------------
(* print.c: submit_file.                                                   *)

SendHeader(c) ==
  /\ cst[c] = "connected"
  /\ cst' = [cst EXCEPT ![c] = "sending"]
  /\ UNCHANGED <<spool, main, nextjob, queue, config, pthr, workr, sent, reply, paper>>

SendPiece(c) ==
  /\ cst[c] = "sending"
  /\ sent' = [sent EXCEPT ![c] = @ + 1]
  /\ cst' = [cst EXCEPT ![c] = IF sent[c] + 1 = Pieces THEN "sent" ELSE "sending"]
  /\ UNCHANGED <<spool, main, nextjob, queue, config, pthr, workr, reply, paper>>

ClientDies(c) ==
  /\ ClientsDie
  /\ cst[c] \in {"connected", "sending", "sent"}
  /\ cst' = [cst EXCEPT ![c] = "dead"]
  /\ UNCHANGED <<spool, main, nextjob, queue, config, pthr, workr, sent, reply, paper>>

-----------------------------------------------------------------------------
(* client_thread.                                                          *)

Go(c, from, to) == wpc[c] = from /\ wpc' = [wpc EXCEPT ![c] = to]
Reply(c, r) == reply' = [reply EXCEPT ![c] = r]

\* treadn of the request returns all of it.
ReadHeader(c) ==
  /\ Go(c, "header", "newjob")
  /\ cst[c] \in {"sending", "sent"}
  /\ UNCHANGED <<spool, main, nextjob, queue, config, pthr, wjob, got, client, reply, paper>>

\* treadn fails, times out or finds the connection closed.
HeaderFails(c) ==
  /\ Go(c, "header", "none")
  /\ cst[c] = "dead" \/ (SlowClients /\ cst[c] = "connected")
  /\ Reply(c, Rejected)
  /\ UNCHANGED <<spool, main, nextjob, queue, config, pthr, wjob, got, client, paper>>

\* Mutant of get_newjobno: the number is read and not advanced.
NewjobnoStale(c) ==
  /\ nextjob <= MaxJob
  /\ Go(c, "newjob", "creat")
  /\ wjob' = [wjob EXCEPT ![c] = nextjob]
  /\ UNCHANGED <<spool, main, nextjob, queue, config, pthr, got, client, reply, paper>>

get_newjobno(c) ==
  /\ nextjob <= MaxJob
  /\ Go(c, "newjob", "creat")
  /\ wjob' = [wjob EXCEPT ![c] = nextjob]
  /\ nextjob' = nextjob + 1
  /\ UNCHANGED <<spool, main, queue, config, pthr, got, client, reply, paper>>

\* creat truncates what is there.
CreatData(c) ==
  /\ Go(c, "creat", "read")
  /\ data' = [data EXCEPT ![wjob[c]] = File(c, 0)]
  /\ UNCHANGED <<jobfile, reqs, main, nextjob, queue, config, pthr, wjob, got, client, reply, paper>>

CreatDataFails(c) ==
  /\ DiskFull
  /\ Go(c, "creat", "none")
  /\ Reply(c, Rejected)
  /\ UNCHANGED <<spool, main, nextjob, queue, config, pthr, wjob, got, client, paper>>

\* What is under a name after a thread wrote to the file it once created there:
\* the printer thread may have unlinked it for a job of the same number.
Rewritten(f, g) == IF f \in {NoFile, NoReq} THEN f ELSE g

\* Mutant of ReadPiece: one read too many.
ReadPieceTooMany(c) ==
  /\ wpc[c] = "read"
  /\ got[c] <= sent[c]
  /\ got' = [got EXCEPT ![c] = @ + 1]
  /\ data' = [data EXCEPT ![wjob[c]] = Rewritten(@, File(c, got[c] + 1))]
  /\ UNCHANGED <<jobfile, reqs, main, nextjob, queue, config, pthr, wpc, wjob, client, reply, paper>>

\* tread returns data, which is written to the file.
ReadPiece(c) ==
  /\ wpc[c] = "read"
  /\ got[c] < sent[c]
  /\ got' = [got EXCEPT ![c] = @ + 1]
  /\ data' = [data EXCEPT ![wjob[c]] = Rewritten(@, File(c, got[c] + 1))]
  /\ UNCHANGED <<jobfile, reqs, main, nextjob, queue, config, pthr, wpc, wjob, client, reply, paper>>

WritePieceFails(c) ==
  /\ DiskFull
  /\ got[c] < sent[c]
  /\ Go(c, "read", "undo_data")
  /\ Reply(c, Rejected)
  /\ UNCHANGED <<spool, main, nextjob, queue, config, pthr, wjob, got, client, paper>>

\* tread returns 0 or -1: the client is gone, or sent nothing for 20 seconds,
\* which is how a document ends (print keeps its side of the socket open).
EndOfData(c) ==
  /\ Go(c, "read", "creat_req")
  /\ got[c] = sent[c]
  /\ cst[c] \in {"sent", "dead"} \/ (SlowClients /\ cst[c] = "sending")
  /\ UNCHANGED <<spool, main, nextjob, queue, config, pthr, wjob, got, client, reply, paper>>

CreatReq(c) ==
  /\ Go(c, "creat_req", "write_req")
  /\ reqs' = [reqs EXCEPT ![wjob[c]] = Torn]
  /\ UNCHANGED <<jobfile, data, main, nextjob, queue, config, pthr, wjob, got, client, reply, paper>>

CreatReqFails(c) ==
  /\ DiskFull
  /\ Go(c, "creat_req", "undo_data")
  /\ Reply(c, Rejected)
  /\ UNCHANGED <<spool, main, nextjob, queue, config, pthr, wjob, got, client, paper>>

WriteReq(c) ==
  /\ Go(c, "write_req", "respond")
  /\ reqs' = [reqs EXCEPT ![wjob[c]] = Rewritten(@, Full(c))]
  /\ UNCHANGED <<jobfile, data, main, nextjob, queue, config, pthr, wjob, got, client, reply, paper>>

WriteReqFails(c) ==
  /\ DiskFull
  /\ Go(c, "write_req", "undo_req")
  /\ Reply(c, Rejected)
  /\ UNCHANGED <<spool, main, nextjob, queue, config, pthr, wjob, got, client, paper>>

UndoReq(c) ==
  /\ Go(c, "undo_req", "undo_data")
  /\ reqs' = [reqs EXCEPT ![wjob[c]] = NoReq]
  /\ UNCHANGED <<jobfile, data, main, nextjob, queue, config, pthr, wjob, got, client, reply, paper>>

UndoData(c) ==
  /\ Go(c, "undo_data", "none")
  /\ data' = [data EXCEPT ![wjob[c]] = NoFile]
  /\ UNCHANGED <<jobfile, reqs, main, nextjob, queue, config, pthr, wjob, got, client, reply, paper>>

Respond(c) ==
  /\ Go(c, "respond", "add_job")
  /\ Reply(c, wjob[c])
  /\ UNCHANGED <<spool, main, nextjob, queue, config, pthr, wjob, got, client, paper>>

\* add_job: the list changes under joblock, the signal follows the unlock.
add_job(c) ==
  /\ Go(c, "add_job", "signal")
  /\ queue' = Append(queue, Job(wjob[c], c))
  /\ UNCHANGED <<spool, main, nextjob, config, pthr, wjob, got, client, reply, paper>>

\* Mutant of Signal: the printer thread is not signalled.
SignalLost(c) ==
  /\ Go(c, "signal", "none")
  /\ UNCHANGED <<spool, main, nextjob, queue, config, pthr, wjob, got, client, reply, paper>>

Signal(c) ==
  /\ Go(c, "signal", "none")
  /\ wakeup
  /\ UNCHANGED <<spool, main, nextjob, queue, config, pjob, wjob, got, client, reply, paper>>

-----------------------------------------------------------------------------
(* printer_thread.                                                         *)

PGo(from, to) == ppc = from /\ ppc' = to
pframe == <<main, nextjob, workr, client, reply>>

\* pthread_cond_wait: test and wait are one step, joblock is held.
Wait ==
  /\ PGo("get", "wait")
  /\ queue = <<>>
  /\ UNCHANGED <<spool, queue, config, pjob, paper, pframe>>

remove_job ==
  /\ PGo("get", "update")
  /\ queue # <<>>
  /\ pjob' = Head(queue)
  /\ queue' = Tail(queue)
  /\ UNCHANGED <<spool, config, paper, pframe>>

\* nextjob is read without joblock.
update_jobno ==
  /\ PGo("update", "config")
  /\ jobfile' = nextjob
  /\ UNCHANGED <<data, reqs, queue, config, pjob, paper, pframe>>

CheckConfig ==
  /\ PGo("config", IF reread THEN "init" ELSE "open")
  /\ reread' = FALSE
  /\ UNCHANGED <<spool, queue, conf, hup, printer, pjob, paper, pframe>>

init_printer ==
  /\ PGo("init", "open")
  /\ printer' = conf
  /\ UNCHANGED <<spool, queue, reread, conf, hup, pjob, paper, pframe>>

\* The document cannot be opened: the job is canceled.
Cancel ==
  /\ PGo("open", "get")
  /\ data[pjob.id] = NoFile
  /\ pjob' = NoJob
  /\ UNCHANGED <<spool, queue, config, paper, pframe>>

Open ==
  /\ PGo("open", "send")
  /\ data[pjob.id] # NoFile
  /\ UNCHANGED <<spool, queue, config, pjob, paper, pframe>>

\* The file the printer thread has open.  A thread that was given the number of the
\* job again may have unlinked it meanwhile, when it rejected its own.
OpenFile ==
  IF data[pjob.id] # NoFile THEN {data[pjob.id]}
  ELSE {File(c, got[c]) : c \in {d \in Clients : wjob[d] = pjob.id /\ reply[d] = Rejected}}

\* The document goes to the printer, which prints it.
Send ==
  /\ PGo("send", "status")
  /\ \E f \in OpenFile : paper' = paper \cup {[job |-> pjob, file |-> f, conf |-> printer]}
  /\ UNCHANGED <<spool, queue, config, pjob, pframe>>

\* No socket, no connection, a short write: nothing printed.
SendFails ==
  /\ PGo("send", "defer")
  /\ UNCHANGED <<spool, queue, config, pjob, paper, pframe>>

\* printer_status: success, or an error, a timeout, an answer for another job.
StatusOk ==
  /\ PGo("status", "unlink_data")
  /\ UNCHANGED <<spool, queue, config, pjob, paper, pframe>>

StatusFails ==
  /\ PGo("status", "defer")
  /\ UNCHANGED <<spool, queue, config, pjob, paper, pframe>>

UnlinkData ==
  /\ PGo("unlink_data", "unlink_req")
  /\ data' = [data EXCEPT ![pjob.id] = NoFile]
  /\ UNCHANGED <<jobfile, reqs, queue, config, pjob, paper, pframe>>

UnlinkReq ==
  /\ PGo("unlink_req", "get")
  /\ reqs' = [reqs EXCEPT ![pjob.id] = NoReq]
  /\ pjob' = NoJob
  /\ UNCHANGED <<jobfile, data, queue, config, paper, pframe>>

\* Mutants of replace_job: the job goes to the tail of the list, or nowhere.
ReplaceAtTail ==
  /\ PGo("defer", "sleep")
  /\ queue' = Append(queue, pjob)
  /\ pjob' = NoJob
  /\ UNCHANGED <<spool, config, paper, pframe>>

ReplaceNowhere ==
  /\ PGo("defer", "sleep")
  /\ pjob' = NoJob
  /\ UNCHANGED <<spool, queue, config, paper, pframe>>

\* replace_job, at the head of the list; then sleep(60).
replace_job ==
  /\ PGo("defer", "sleep")
  /\ queue' = <<pjob>> \o queue
  /\ pjob' = NoJob
  /\ UNCHANGED <<spool, config, paper, pframe>>

WakeUp ==
  /\ PGo("sleep", "get")
  /\ UNCHANGED <<spool, queue, config, pjob, paper, pframe>>

-----------------------------------------------------------------------------
(* signal_thread, and the administrator who edits the configuration file.  *)

Sighup ==
  /\ Running
  /\ hup # conf
  /\ reread' = TRUE /\ hup' = conf
  /\ UNCHANGED <<spool, main, nextjob, queue, conf, printer, pthr, workr, client, reply, paper>>

EditConfig ==
  /\ conf < MaxConf
  /\ conf' = conf + 1
  /\ UNCHANGED <<spool, main, nextjob, queue, reread, hup, printer, pthr, workr, client, reply, paper>>

-----------------------------------------------------------------------------
Worker(c) ==
  \/ ReadHeader(c) \/ HeaderFails(c) \/ get_newjobno(c)
  \/ CreatData(c) \/ CreatDataFails(c) \/ ReadPiece(c) \/ WritePieceFails(c) \/ EndOfData(c)
  \/ CreatReq(c) \/ CreatReqFails(c) \/ WriteReq(c) \/ WriteReqFails(c)
  \/ UndoReq(c) \/ UndoData(c) \/ Respond(c) \/ add_job(c) \/ Signal(c)

Command(c) == SendHeader(c) \/ SendPiece(c)

Printer ==
  \/ Wait \/ remove_job \/ update_jobno \/ CheckConfig \/ init_printer
  \/ Cancel \/ Open \/ Send \/ SendFails \/ StatusOk \/ StatusFails
  \/ UnlinkData \/ UnlinkReq \/ replace_job \/ WakeUp

Build == (\E j \in JobIds : BuildTorn(j) \/ BuildAdd(j)) \/ BuildSignal \/ BuildDone

\* Nobody has asked for anything: main is in select, the printer thread in
\* pthread_cond_wait, the signal thread in sigwait.
Quiet ==
  /\ up = "serving" /\ ppc = "wait" /\ queue = <<>>
  /\ \A c \in Clients : cst[c] # "new" /\ wpc[c] = "none"
  /\ UNCHANGED vars

Next ==
  \/ Quiet \/ Start \/ Build \/ Stop \/ Printer \/ Sighup \/ EditConfig
  \/ \E c \in Clients : Accept(c) \/ Command(c) \/ ClientDies(c) \/ Worker(c)

Spec == Init /\ [][Next]_vars

\* The daemon's threads run, clients that were accepted go on sending, and a
\* printer that keeps being asked takes and acknowledges a document in the end.
Fairness ==
  /\ WF_vars(Start) /\ WF_vars(Build) /\ WF_vars(Printer)
  /\ SF_vars(Send) /\ SF_vars(StatusOk)
  /\ \A c \in Clients : WF_vars(Worker(c)) /\ WF_vars(Command(c)) /\ WF_vars(Accept(c))
-----------------------------------------------------------------------------
(* What must hold.                                                         *)
WorkerPCs == {"none", "header", "newjob", "creat", "read", "creat_req", "write_req",
              "undo_req", "undo_data", "respond", "add_job", "signal"}
PrinterPCs == {"none", "get", "wait", "update", "config", "init", "open", "send", "status",
               "unlink_data", "unlink_req", "defer", "sleep"}

\* Types of the variables.
PrintdTypeOK ==
  /\ jobfile \in 0 .. (MaxJob + 1)
  /\ data \in [JobIds -> Files \cup {NoFile}]
  /\ reqs \in [JobIds -> [owner : Clients \cup {None}, n : {0, 1}]]
  /\ up \in {"down", "building", "signal", "serving"}
  /\ todo \subseteq JobIds /\ stops \in 0 .. MaxStops
  /\ nextjob \in 1 .. (MaxJob + 1)
  /\ queue \in Seq(Jobs)
  /\ reread \in BOOLEAN
  /\ conf \in 0 .. MaxConf /\ hup \in 0 .. MaxConf /\ printer \in 0 .. MaxConf
  /\ ppc \in PrinterPCs /\ pjob \in Jobs \cup {NoJob}
  /\ wpc \in [Clients -> WorkerPCs]
  /\ wjob \in [Clients -> JobIds \cup {0}]
  /\ got \in [Clients -> 0 .. Pieces]
  /\ cst \in [Clients -> {"new", "connected", "sending", "sent", "dead"}]
  /\ sent \in [Clients -> 0 .. Pieces]
  /\ reply \in [Clients -> 0 .. (MaxJob + 1)]
  /\ paper \subseteq [job : Jobs, file : Files, conf : 0 .. MaxConf]

-----------------------------------------------------------------------------
(* Jobs.                                                                   *)

\* The jobs still to be printed, the one the printer thread works on first.
Pending == (IF pjob = NoJob THEN <<>> ELSE <<pjob>>) \o queue
PendingJobs == {Pending[i] : i \in 1 .. Len(Pending)}

Printed == {x.job : x \in paper}

\* A client thread that has drawn a job number and not yet queued the job.
Drawn(c) == wpc[c] \in {"creat", "read", "creat_req", "write_req", "undo_req",
                        "undo_data", "respond", "add_job"}

\* The number of the job was given to another client too.
Doubled(c) == wjob[c] # 0 /\ \E d \in Clients \ {c} : wjob[d] = wjob[c]

\* A number is given twice only when the daemon stopped while the job file did not
\* cover it, and never within one life of the daemon; and no job is queued twice.
OneJobPerNumber ==
  /\ \A c \in Clients : Doubled(c) => wjob[c] \in unsaved
  /\ \A c, d \in Clients : Drawn(c) /\ Drawn(d) /\ wjob[c] = wjob[d] => c = d
  /\ \A i, k \in 1 .. Len(Pending) : Pending[i].owner = Pending[k].owner => i = k

\* Every pending job has its control file in the spool and, unless it has been
\* printed already, its own document: the printer thread cancels no job that
\* was never printed.
JobsOnDisk ==
  \A jb \in PendingJobs : ~Doubled(jb.owner) =>
    /\ reqs[jb.id] = Full(jb.owner)
    /\ data[jb.id].owner = jb.owner \/ (data[jb.id] = NoFile /\ jb \in Printed)

\* A job whose number a client was given is printed or still in the spool,
\* wherever the daemon was stopped and started in between.
AcceptedKept ==
  \A c \in Clients : reply[c] \in JobIds /\ ~Doubled(c) =>
    \/ Job(reply[c], c) \in Printed
    \/ reqs[reply[c]] = Full(c) /\ data[reply[c]].owner = c

\* What is printed under a job is its owner's document, all of it, or as much as
\* the print command had sent when it was killed.
PrintedWhole ==
  \A x \in paper : ~Doubled(x.job.owner) =>
    /\ x.file = File(x.job.owner, sent[x.job.owner])
    /\ x.file.n = Pieces \/ cst[x.job.owner] = "dead"

\* A client thread that rejected its job has taken everything it had put into
\* the spool out again when it exits.
RejectedGone ==
  \A c \in Clients : reply[c] = Rejected /\ wpc[c] = "none" /\ wjob[c] # 0 =>
    data[wjob[c]] = NoFile /\ reqs[wjob[c]] = NoReq

\* A job that was rejected is neither queued nor printed, whatever of it a stop
\* of the daemon left in the spool.
RejectedNotPrinted ==
  \A c \in Clients : reply[c] = Rejected => \A jb \in PendingJobs \cup Printed : jb.owner # c

\* A number drawn for a new job is not that of a job waiting in the spool
\* ("Get the next job number").
JobNumberFresh == \A c \in Clients : wpc[c] = "creat" => reqs[wjob[c]] = NoReq

-----------------------------------------------------------------------------
(* Threads.                                                                *)

\* The printer thread never sleeps on jobwait while there is a job, except for
\* the moment until the thread that queued it signals.
NoWakeupLost ==
  ppc = "wait" /\ queue # <<>> => up = "signal" \/ \E c \in Clients : wpc[c] = "signal"

\* Between two SIGHUPs the printer in use is not older than the first of them
\* asked for, but for the moment the printer thread reads the new one.
ConfigFresh == Running /\ ~reread /\ ppc # "init" => printer >= hup

\* Every acknowledged job is printed in the end, unless its number is given again.
AllPrinted ==
  \A c \in Clients :
    reply[c] \in JobIds ~> Doubled(c) \/ \E x \in paper : x.job.owner = c

\* Jobs are printed one at a time, in the order in which they were queued, and
\* none is dropped before it was printed, unless its number was given twice.
Spoiled == {Job(wjob[c], c) : c \in {d \in Clients : Doubled(d)}}
Q == INSTANCE PrintQueue WITH pending <- Pending, printed <- Printed, spoiled <- Spoiled
PrintsInOrder == Q!QSpec

\* Together: a signal to a thread that is about to sleep, and one to the daemon, is
\* acted upon.
NoSignalLost == NoWakeupLost /\ ConfigFresh
=============================================================================
