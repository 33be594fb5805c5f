------------------------------ MODULE PrintQueue ------------------------------
(***************************************************************************)
(* The queue of badges to print.  The registration desk adds jobs, with a  *)
(* fee for a reprint, and takes them back; printers that show a web page   *)
(* take the next job under a lock on its row; printer clients of the API   *)
(* fetch every pending job without one, and report errors and printed      *)
(* jobs.                                                                   *)
(***************************************************************************)
EXTENDS Integers, FiniteSetsExt

CONSTANTS
  Printed,         \* the attendees whose badges are printed
  MaxJobs,         \* bound: jobs ever made
  RegDesks,        \* bound: handlers of the registration desk in flight
  Printers,        \* the pages that ask for the next badge of one printer
  Clients,         \* the clients of the API
  MaxQueueKills    \* bound: handlers killed

PrintJobs == 1 .. MaxJobs
NoJob == 0

ASSUME QueueAssumption ==
  /\ MaxJobs \in Nat /\ MaxQueueKills \in Nat
  /\ NoJob \notin Printed

VARIABLES
  job,         \* job[j]: the row of print job j
  fee,         \* fee[j]: the receipt items of its fee
  regDesk,     \* regDesk[d]: what handler d has read and is to write
  printer,     \* printer[p]: the job whose row the handler of page p holds
  client,      \* client[k]: the jobs that a request of client k read as pending
  handedOut,   \* history: how often each job was given to a page
  overlapped,  \* history: two handlers acted on one attendee or job at once
  queueKills

queueVars == <<job, fee, regDesk, printer, client, handedOut, overlapped, queueKills>>

(* `of` is NoJob for a row that does not exist yet.                        *)
Job == [ of      : Printed \cup {NoJob},
         hasFee  : BOOLEAN,
         ready   : BOOLEAN,
         queued  : BOOLEAN,
         printed : BOOLEAN,
         invalid : {"no", "desk", "api"} ]

NoRowYet == [of |-> NoJob, hasFee |-> FALSE, ready |-> FALSE,
             queued |-> FALSE, printed |-> FALSE, invalid |-> "no"]

(* The item that charges the fee, and the number of those that credit it.  *)
Fee == [item : {"none", "open", "closed"}, credits : Nat]

FreeDesk == [step |-> "idle"]

(* A handler of the desk between what it has read and what it writes.      *)
DeskStates ==
  {FreeDesk} \cup [step : {"add"}, of : Printed, hasFee : BOOLEAN]
             \cup [step : {"item", "invalidate"}, job : PrintJobs]

QueueTypeOK ==
  /\ job \in [PrintJobs -> Job]
  /\ fee \in [PrintJobs -> Fee]
  /\ regDesk \in [RegDesks -> DeskStates]
  /\ printer \in [Printers -> PrintJobs \cup {NoJob}]
  /\ client \in [Clients -> SUBSET PrintJobs]
  /\ handedOut \in [PrintJobs -> Nat]
  /\ overlapped \in BOOLEAN /\ queueKills \in 0 .. MaxQueueKills

QueueInit ==
  /\ job = [j \in PrintJobs |-> NoRowYet]
  /\ fee = [j \in PrintJobs |-> [item |-> "none", credits |-> 0]]
  /\ regDesk = [d \in RegDesks |-> FreeDesk]
  /\ printer = [p \in Printers |-> NoJob]
  /\ client = [k \in Clients |-> {}]
  /\ handedOut = [j \in PrintJobs |-> 0]
  /\ overlapped = FALSE /\ queueKills = 0

-----------------------------------------------------------------------------
(* Reading                                                                 *)

Open(j) == job[j].of # NoJob /\ ~job[j].printed /\ job[j].invalid = "no"

OpenJobs(a) == {j \in PrintJobs : Open(j) /\ job[j].of = a}

TimesPrinted(a) == Cardinality({j \in PrintJobs : job[j].of = a /\ job[j].printed})

Pending(j) == Open(j) /\ job[j].ready

(* A row that a page holds may be read, but not written by others.         *)
Unheld(j) == \A p \in Printers : printer[p] # j

SetDesk(d, v) == regDesk' = [regDesk EXCEPT ![d] = v]

-----------------------------------------------------------------------------
(* The registration desk                                                   *)

(* A badge that was printed before is reprinted for a fee, or for free     *)
(* with a reason.                                                          *)
CheckNewJob(d, a, hasFee) ==
  /\ regDesk[d] = FreeDesk
  /\ OpenJobs(a) = {}
  /\ hasFee => TimesPrinted(a) > 0
  /\ SetDesk(d, [step |-> "add", of |-> a, hasFee |-> hasFee])
  /\ UNCHANGED <<job, fee, printer, client, handedOut, overlapped, queueKills>>

ReadyAtFirst(hasFee) == ~hasFee

(* add_to_print_queue commits the job, its caller the item of the fee.     *)
AddJob(d) ==
  /\ regDesk[d].step = "add"
  /\ \E j \in PrintJobs :
       /\ job[j] = NoRowYet /\ \A i \in PrintJobs : i < j => job[i] # NoRowYet
       /\ job' = [job EXCEPT ![j] = [NoRowYet EXCEPT !.of = regDesk[d].of,
                                                     !.hasFee = regDesk[d].hasFee,
                                                     !.ready = ReadyAtFirst(regDesk[d].hasFee)]]
       /\ SetDesk(d, IF regDesk[d].hasFee THEN [step |-> "item", job |-> j] ELSE FreeDesk)
  /\ overlapped' = (overlapped \/ OpenJobs(regDesk[d].of) # {})
  /\ UNCHANGED <<fee, printer, client, handedOut, queueKills>>

AddFeeItem(d) ==
  /\ regDesk[d].step = "item"
  /\ fee' = [fee EXCEPT ![regDesk[d].job].item = "open"]
  /\ overlapped' = (overlapped \/ job[regDesk[d].job].invalid # "no")
  /\ SetDesk(d, FreeDesk)
  /\ UNCHANGED <<job, printer, client, handedOut, queueKills>>

(* The payment of the item makes the job ready, whatever became of it.     *)
CloseFeeItem(j) ==
  /\ fee[j].item = "open" /\ Unheld(j)
  /\ fee' = [fee EXCEPT ![j].item = "closed"]
  /\ job' = [job EXCEPT ![j].ready = TRUE]
  /\ UNCHANGED <<regDesk, printer, client, handedOut, overlapped, queueKills>>

MarkAsUnsent(j) ==
  /\ job[j].queued /\ Unheld(j)
  /\ job' = [job EXCEPT ![j].queued = FALSE]
  /\ UNCHANGED <<fee, regDesk, printer, client, handedOut, overlapped, queueKills>>

MarkAsPrinted(j) ==
  /\ job[j].of # NoJob /\ ~job[j].printed /\ Unheld(j)
  /\ job' = [job EXCEPT ![j].printed = TRUE]
  /\ UNCHANGED <<fee, regDesk, printer, client, handedOut, overlapped, queueKills>>

(* Faulty: a job without a fee is credited too.                            *)
CreditAlways(j) == 1

Credit(j) == IF job[j].hasFee THEN 1 ELSE 0

CheckInvalid(d, j) ==
  /\ regDesk[d] = FreeDesk
  /\ job[j].of # NoJob /\ job[j].invalid = "no"
  /\ SetDesk(d, [step |-> "invalidate", job |-> j])
  /\ UNCHANGED <<job, fee, printer, client, handedOut, overlapped, queueKills>>

WriteInvalid(d) ==
  /\ regDesk[d].step = "invalidate"
  /\ Unheld(regDesk[d].job)
  /\ LET j == regDesk[d].job
     IN  /\ job' = [job EXCEPT ![j].invalid = "desk"]
         /\ fee' = [fee EXCEPT ![j].credits = @ + Credit(j)]
         /\ overlapped' = (overlapped \/ job[j].invalid # "no"
                             \/ \E e \in RegDesks : regDesk[e].step = "item" /\ regDesk[e].job = j)
  /\ SetDesk(d, FreeDesk)
  /\ UNCHANGED <<printer, client, handedOut, queueKills>>

KillRegDesk(d) ==
  /\ regDesk[d] # FreeDesk /\ queueKills < MaxQueueKills
  /\ SetDesk(d, FreeDesk)
  /\ queueKills' = queueKills + 1
  /\ UNCHANGED <<job, fee, printer, client, handedOut, overlapped>>

-----------------------------------------------------------------------------
(* The pages                                                               *)

(* Faulty: without FOR UPDATE.                                             *)
SelectableUnlocked(j) == Pending(j)

(* SELECT ... FOR UPDATE: a row that another page holds is waited for, and *)
(* looked at again once that page has committed.                           *)
Selectable(j) == Pending(j) /\ Unheld(j)

GetNextBadgeToPrint(p) ==
  /\ printer[p] = NoJob
  /\ \E j \in PrintJobs : Selectable(j) /\ printer' = [printer EXCEPT ![p] = j]
  /\ UNCHANGED <<job, fee, regDesk, client, handedOut, overlapped, queueKills>>

PrintNextBadge(p) ==
  /\ printer[p] # NoJob
  /\ job' = [job EXCEPT ![printer[p]].queued = TRUE, ![printer[p]].printed = TRUE]
  /\ handedOut' = [handedOut EXCEPT ![printer[p]] = @ + 1]
  /\ printer' = [printer EXCEPT ![p] = NoJob]
  /\ UNCHANGED <<fee, regDesk, client, overlapped, queueKills>>

-----------------------------------------------------------------------------
(* The API                                                                 *)

(* With `restart`, the jobs sent to a printer before are fetched again.    *)
GetPending(k, restart) ==
  /\ client[k] = {}
  /\ LET js == {j \in PrintJobs : Pending(j) /\ (restart \/ ~job[j].queued)}
     IN  js # {} /\ client' = [client EXCEPT ![k] = js]
  /\ UNCHANGED <<job, fee, regDesk, printer, handedOut, overlapped, queueKills>>

(* One commit for each job.                                                *)
MarkAsSent(k, j) ==
  /\ j \in client[k] /\ Unheld(j)
  /\ job' = [job EXCEPT ![j].queued = TRUE]
  /\ client' = [client EXCEPT ![k] = @ \ {j}]
  /\ UNCHANGED <<fee, regDesk, printer, handedOut, overlapped, queueKills>>

(* add_error, and clear_jobs with `invalidate`: the fee is not credited.   *)
AddError(j) ==
  /\ job[j].of # NoJob /\ job[j].invalid = "no" /\ Unheld(j)
  /\ job' = [job EXCEPT ![j].invalid = "api"]
  /\ UNCHANGED <<fee, regDesk, printer, client, handedOut, overlapped, queueKills>>

(* mark_complete takes any job that is not printed, clear_jobs the pending *)
(* ones.                                                                   *)
MarkComplete(j) ==
  /\ job[j].of # NoJob /\ ~job[j].printed /\ Unheld(j)
  /\ job' = [job EXCEPT ![j].printed = TRUE]
  /\ UNCHANGED <<fee, regDesk, printer, client, handedOut, overlapped, queueKills>>

-----------------------------------------------------------------------------
QueueNext ==
  \/ \E d \in RegDesks :
       \/ \E a \in Printed, hasFee \in BOOLEAN : CheckNewJob(d, a, hasFee)
       \/ AddJob(d) \/ AddFeeItem(d)
       \/ \E j \in PrintJobs : CheckInvalid(d, j)
       \/ WriteInvalid(d)
       \/ KillRegDesk(d)
  \/ \E j \in PrintJobs :
       \/ CloseFeeItem(j) \/ MarkAsUnsent(j) \/ MarkAsPrinted(j)
       \/ AddError(j) \/ MarkComplete(j)
  \/ \E p \in Printers : GetNextBadgeToPrint(p) \/ PrintNextBadge(p)
  \/ \E k \in Clients :
       \/ \E restart \in BOOLEAN : GetPending(k, restart)
       \/ \E j \in PrintJobs : MarkAsSent(k, j)

QueueSpec == QueueInit /\ [][QueueNext]_queueVars

-----------------------------------------------------------------------------
(* Properties                                                              *)

(* Two pages of one printer never print the same job, and none prints a    *)
(* badge whose reprint fee was not paid (get_next_badge_to_print).         *)
HandedOutOncePaid ==
  \A j \in PrintJobs :
    handedOut[j] > 0 => /\ handedOut[j] = 1
                        /\ job[j].hasFee => fee[j].item = "closed"

(* The fee of a job is charged once, and given back once if the desk takes *)
(* the job back, unless handlers overlapped on the job, one was killed, or *)
(* the job was made invalid through the API (mark_as_invalid).             *)
FeeMatchesJob ==
  ~overlapped /\ queueKills = 0
    => \A j \in PrintJobs :
         job[j].of # NoJob /\ job[j].invalid # "api" =>
           /\ fee[j].item # "none" =>  job[j].hasFee
           /\ fee[j].credits = IF job[j].hasFee /\ job[j].invalid = "desk" THEN 1 ELSE 0
           /\ job[j].hasFee /\ fee[j].item = "none" =>
                \E d \in RegDesks : regDesk[d] = [step |-> "item", job |-> j]
===============================================================================
