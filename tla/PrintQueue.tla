----------------------------- MODULE PrintQueue -----------------------------
(***************************************************************************)
(* What the print spooler promises: jobs are printed one at a time and in  *)
(* the order in which they were queued, each at least once before it is    *)
(* dropped.  When the daemon stops the order is forgotten.  A job that     *)
(* shares its number with another may be dropped unprinted; once it shares *)
(* it, it does so for ever.                                                *)
(***************************************************************************)
EXTENDS Sequences

CONSTANT Jobs

VARIABLES
  pending,   \* the jobs to print, in order
  printed,   \* the jobs that have been printed
  spoiled    \* the jobs that share their number

QInit == pending = <<>> /\ printed = {} /\ spoiled = {}

Add(j)    == pending' = Append(pending, j) /\ UNCHANGED <<printed, spoiled>>
PrintHead == /\ pending # <<>>
             /\ printed' = printed \cup {Head(pending)}
             /\ UNCHANGED <<pending, spoiled>>
Drop      == /\ pending # <<>> /\ Head(pending) \in printed \cup spoiled
             /\ pending' = Tail(pending)
             /\ UNCHANGED <<printed, spoiled>>
Forget    == pending' = <<>> /\ UNCHANGED <<printed, spoiled>>
Spoil     == spoiled \subseteq spoiled' /\ UNCHANGED <<pending, printed>>

QNext == (\E j \in Jobs : Add(j)) \/ PrintHead \/ Drop \/ Forget \/ Spoil

QSpec == QInit /\ [][QNext]_<<pending, printed, spoiled>>
=============================================================================
