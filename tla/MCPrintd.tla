------------------------------ MODULE MCPrintd ------------------------------
(***************************************************************************)
(* The print spooler for TLC, three times in one run.  In "serve" the      *)
(* daemon never stops: print commands are killed, the disk fills up and    *)
(* the configuration changes.  In "slow" it does not stop either, and      *)
(* clients may keep silent for as long as tread waits.  In "restart" it    *)
(* stops and starts, wherever its threads are and whatever the job file    *)
(* holds.                                                                  *)
(***************************************************************************)
EXTENDS Printd

VARIABLE part

\* tread is not kept waiting: a thread goes on without an answer, or takes what it has
\* for the whole document, only when the client has sent everything or is dead.
Prompt ==
  \A c \in Clients :
    wpc[c] \in {"header", "read"} /\ wpc'[c] \in {"none", "creat_req"} /\ up' # "down" =>
      cst[c] \in {"sent", "dead"}

NobodyDies == \A c \in Clients : cst'[c] = "dead" => cst[c] = "dead" \/ up' = "down"

\* A job whose number no other client was given is in the spool from its
\* acknowledgement until it is printed, wherever the daemon was stopped and started in
\* between; what is printed is its owner's document and all of it (or what a killed
\* print command had sent, or one that was silent for too long); and a job that was
\* rejected is never printed and, if the daemon goes on, leaves nothing behind.
SpoolKept ==
  /\ JobsOnDisk /\ AcceptedKept /\ RejectedNotPrinted
  /\ part # "slow" => PrintedWhole
  /\ part # "restart" => RejectedGone

MCInit == part \in {"serve", "slow", "restart"} /\ Init
MCNext ==
  /\ UNCHANGED part
  /\ Next
  /\ part # "slow" => Prompt
  /\ part # "restart" => stops' = 0
  /\ part # "serve" => conf' = 0 /\ NobodyDies
MCSpec == MCInit /\ [][MCNext]_<<part, vars>> /\ Fairness
=============================================================================
