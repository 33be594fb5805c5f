-------------------------------- MODULE Emails --------------------------------
(***************************************************************************)
(* The automated emails about one kind of model.  Every quarter of an hour *)
(* a task goes through them; runs of several processes may overlap.  A run *)
(* takes an advisory lock for each email, on a connection of its own that  *)
(* goes back to the pool of its process afterwards: the lock lasts until   *)
(* that connection is really closed.                                       *)
(***************************************************************************)
EXTENDS Naturals, FiniteSets

CONSTANTS
  EmailIds,       \* the emails that are active
  Recipients,     \* the rows of the model
  Processes,      \* the processes of the Celery worker, each with one task at a time
  Connections,    \* their database connections
  NoConnection,
  PoolOf,         \* PoolOf[p]: the connections of process p
  MaxEmailKills   \* bound: processes killed

ASSUME EmailAssumption ==
  /\ NoConnection \notin Connections
  /\ PoolOf \in [Processes -> SUBSET Connections \ {{}}]
  /\ \A p, q \in Processes : p # q => PoolOf[p] \cap PoolOf[q] = {}
  /\ MaxEmailKills \in Nat

Mails == EmailIds \X Recipients

VARIABLES
  approved,     \* the emails an admin has approved, or that need no approval
  due,          \* the mails whose filter is true of the row
  recorded,     \* the mails with a row of the table of sent ones
  mailed,       \* history: mailed[m]: how often Amazon SES took mail m
  lockedBy,     \* lockedBy[e]: the connection that holds the lock of email e
  run,          \* run[p]: the run of the task in process p
  emailKills

emailVars == <<approved, due, recorded, mailed, lockedBy, run, emailKills>>

(* A run works on the approvals and rows that it loaded when it began.     *)
Run == [ stage    : {"idle", "next", "send", "record"},
         guard    : Connections \cup {NoConnection},
         approved : SUBSET EmailIds,
         due      : SUBSET Mails,
         emails   : SUBSET EmailIds,
         mails    : SUBSET Mails,
         mail     : SUBSET Mails ]

NoRun == [ stage |-> "idle", guard |-> NoConnection, approved |-> {}, due |-> {},
           emails |-> {}, mails |-> {}, mail |-> {} ]

EmailTypeOK ==
  /\ approved \subseteq EmailIds /\ due \subseteq Mails /\ recorded \subseteq Mails
  /\ mailed \in [Mails -> Nat]
  /\ lockedBy \in [EmailIds -> Connections \cup {NoConnection}]
  /\ run \in [Processes -> Run]
  /\ emailKills \in 0 .. MaxEmailKills

EmailInit ==
  /\ approved = {} /\ due = {} /\ recorded = {}
  /\ mailed = [m \in Mails |-> 0]
  /\ lockedBy = [e \in EmailIds |-> NoConnection]
  /\ run = [p \in Processes |-> NoRun]
  /\ emailKills = 0

-----------------------------------------------------------------------------
(* Admins, and whatever changes the rows                                   *)

Approve(e) ==
  /\ approved' = approved \cup {e}
  /\ UNCHANGED <<due, recorded, mailed, lockedBy, run, emailKills>>

Unapprove(e) ==
  /\ approved' = approved \ {e}
  /\ UNCHANGED <<due, recorded, mailed, lockedBy, run, emailKills>>

RowChanges(m) ==
  /\ due' = IF m \in due THEN due \ {m} ELSE due \cup {m}
  /\ UNCHANGED <<approved, recorded, mailed, lockedBy, run, emailKills>>

-----------------------------------------------------------------------------
(* send_automated_emails                                                   *)

SetRun(p, r) == run' = [run EXCEPT ![p] = r]

StartRun(p) ==
  /\ run[p].stage = "idle"
  /\ \E c \in PoolOf[p] :
       SetRun(p, [NoRun EXCEPT !.stage = "next", !.guard = c, !.approved = approved,
                               !.due = due, !.emails = EmailIds])
  /\ UNCHANGED <<approved, due, recorded, mailed, lockedBy, emailKills>>

(* Faulty: the email is worked on although another run has its lock.       *)
MayTakeAnyway(p, e) == TRUE

(* pg_try_advisory_lock: free, or held by this connection from before.     *)
MayTake(p, e) == lockedBy[e] \in {NoConnection, run[p].guard}

(* What is to be sent, from the record of what was sent: it is read once,  *)
(* under the lock.                                                         *)
ToSend(p, e) ==
  {m \in run[p].due \ recorded : m[1] = e /\ e \in run[p].approved}

TakeEmail(p, e) ==
  /\ run[p].stage = "next" /\ e \in run[p].emails
  /\ MayTake(p, e)
  /\ lockedBy' = [lockedBy EXCEPT ![e] = run[p].guard]
  /\ SetRun(p, [run[p] EXCEPT !.stage = IF ToSend(p, e) = {} THEN "next" ELSE "send",
                              !.emails = @ \ {e}, !.mails = ToSend(p, e)])
  /\ UNCHANGED <<approved, due, recorded, mailed, emailKills>>

(* "being worked by another thread"                                        *)
SkipEmail(p, e) ==
  /\ run[p].stage = "next" /\ e \in run[p].emails
  /\ ~MayTake(p, e)
  /\ SetRun(p, [run[p] EXCEPT !.emails = @ \ {e}])
  /\ UNCHANGED <<approved, due, recorded, mailed, lockedBy, emailKills>>

(* The run once it is done with mail m.                                    *)
DoneWith(p, m) ==
  [run[p] EXCEPT !.stage = IF run[p].mails = {m} THEN "next" ELSE "send",
                 !.mails = @ \ {m}, !.mail = {}]

SesTakes(p, m) ==
  /\ run[p].stage = "send" /\ m \in run[p].mails
  /\ mailed' = [mailed EXCEPT ![m] = @ + 1]
  /\ SetRun(p, [run[p] EXCEPT !.stage = "record", !.mail = {m}])
  /\ UNCHANGED <<approved, due, recorded, lockedBy, emailKills>>

(* Faulty: what was refused is recorded as sent.                           *)
Everything(m) == {m}

(* What send_email records of a mail that SES refused.                     *)
Refused(m) == {}

SesRefuses(p, m) ==
  /\ run[p].stage = "send" /\ m \in run[p].mails
  /\ recorded' = recorded \cup Refused(m)
  /\ SetRun(p, DoneWith(p, m))
  /\ UNCHANGED <<approved, due, mailed, lockedBy, emailKills>>

RecordEmail(p) ==
  /\ run[p].stage = "record"
  /\ recorded' = recorded \cup run[p].mail
  /\ \E m \in run[p].mail : SetRun(p, DoneWith(p, m))
  /\ UNCHANGED <<approved, due, mailed, lockedBy, emailKills>>

(* The connection goes back to the pool with the locks it holds.           *)
EndRun(p) ==
  /\ run[p].stage = "next" /\ run[p].emails = {}
  /\ SetRun(p, NoRun)
  /\ UNCHANGED <<approved, due, recorded, mailed, lockedBy, emailKills>>

-----------------------------------------------------------------------------
Released(C) ==
  lockedBy' = [e \in EmailIds |-> IF lockedBy[e] \in C THEN NoConnection ELSE lockedBy[e]]

(* The pool closes a connection that is old enough.                        *)
Recycle(c) ==
  /\ \A p \in Processes : run[p].guard # c
  /\ \E e \in EmailIds : lockedBy[e] = c
  /\ Released({c})
  /\ UNCHANGED <<approved, due, recorded, mailed, run, emailKills>>

KillProcess(p) ==
  /\ run[p].stage # "idle" /\ emailKills < MaxEmailKills
  /\ Released(PoolOf[p])
  /\ SetRun(p, NoRun)
  /\ emailKills' = emailKills + 1
  /\ UNCHANGED <<approved, due, recorded, mailed>>

-----------------------------------------------------------------------------
RunStep(p) ==
  \/ \E e \in EmailIds : TakeEmail(p, e) \/ SkipEmail(p, e)
  \/ \E m \in Mails : SesTakes(p, m) \/ SesRefuses(p, m)
  \/ RecordEmail(p) \/ EndRun(p)

EmailNext ==
  \/ \E e \in EmailIds : Approve(e) \/ Unapprove(e)
  \/ \E m \in Mails : RowChanges(m)
  \/ \E p \in Processes : StartRun(p) \/ RunStep(p) \/ KillProcess(p)
  \/ \E c \in Connections : Recycle(c)

(* The task is scheduled again and again, a run goes on to its end, the    *)
(* pools recycle their connections, and SES does not refuse for ever.      *)
EmailFairness ==
  /\ WF_emailVars(\E p \in Processes : StartRun(p))
  /\ \A p \in Processes :
       /\ WF_emailVars(RunStep(p))
       /\ \A m \in Mails : SF_emailVars(SesTakes(p, m))
  /\ \A c \in Connections : WF_emailVars(Recycle(c))

EmailSpec == EmailInit /\ [][EmailNext]_emailVars /\ EmailFairness

-----------------------------------------------------------------------------
(* Properties                                                              *)

(* Nobody gets an email twice, even if runs overlap, locks are left behind *)
(* in pools, SES refuses or rows change, apart from one more time for each *)
(* process killed between SES and the record (send_automated_emails).      *)
SentOnce == \A m \in Mails : mailed[m] <= 1 + emailKills

(* Whoever is to get an approved email gets it, although runs leave their  *)
(* locks behind and work on approvals and rows that may be old by then     *)
(* (send_automated_emails, send_email).                                    *)
ApprovedIsSent ==
  \A m \in Mails : <>[](m[1] \in approved /\ m \in due) => <>(mailed[m] > 0)
===============================================================================
