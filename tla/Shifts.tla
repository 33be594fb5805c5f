-------------------------------- MODULE Shifts --------------------------------
(***************************************************************************)
(* Volunteers and the shifts they work.  A volunteer signs up, or an admin *)
(* assigns them: the handler reads the job and the shifts of the volunteer,*)
(* checks the free slots, the overlap and the hours in a row, and commits  *)
(* a shift.  Shifts are dropped, and jobs are edited and deleted, whoever  *)
(* works them.                                                             *)
(***************************************************************************)
EXTENDS Integers, FiniteSetsExt

CONSTANTS
  Volunteers,
  Jobs,
  FirstDetails,    \* FirstDetails[j]: how job j was made
  OtherDetails,    \* OtherDetails[j]: what an admin may change it to
  MaxShifts,       \* bound: shifts at a time
  ShiftDesks       \* bound: handlers in flight

(* A limit of 0 is none; 0 slots keep a job off the list, but do not stop  *)
(* an assignment.                                                          *)
Details == [start : Nat, duration : Nat \ {0}, dept : STRING, slots : Nat,
            extra15 : BOOLEAN, limit : Nat]

ASSUME ShiftAssumption ==
  /\ FirstDetails \in [Jobs -> Details] /\ OtherDetails \in [Jobs -> SUBSET Details]
  /\ MaxShifts \in Nat

ShiftIds == 1 .. MaxShifts

VARIABLES
  details,     \* details[j]: the row of job j
  jobs,        \* the jobs that are not deleted
  shift,       \* shift[i]: who works which job
  assigning,   \* assigning[d]: the assignment that handler d has checked
  edited,      \* history: the jobs that were edited with shifts on them
  rushed       \* history: an assignment was written that no longer passes the checks

shiftVars == <<details, jobs, shift, assigning, edited, rushed>>

NoShift == <<>>

ShiftTypeOK ==
  /\ details \in [Jobs -> Details]
  /\ jobs \subseteq Jobs /\ edited \subseteq Jobs /\ rushed \in BOOLEAN
  /\ shift \in [ShiftIds -> (Volunteers \X Jobs) \cup {NoShift}]
  /\ assigning \in [ShiftDesks -> (Volunteers \X Jobs) \cup {NoShift}]

ShiftInit ==
  /\ details = FirstDetails
  /\ jobs = Jobs
  /\ shift = [i \in ShiftIds |-> NoShift]
  /\ assigning = [d \in ShiftDesks |-> NoShift]
  /\ edited = {} /\ rushed = FALSE

-----------------------------------------------------------------------------
(* The checks of an assignment                                             *)

End(j) == details[j].start + details[j].duration

Minutes(j) == details[j].start .. End(j) - 1

SlotsTaken(j) == Cardinality({i \in ShiftIds : shift[i] # NoShift /\ shift[i][2] = j})

JobsOf(v) == {j \in jobs : \E i \in ShiftIds : shift[i] = <<v, j>>}

ShiftMinutes(v) == UNION {Minutes(j) : j \in JobsOf(v)}

AtMinute(v, m) == {j \in JobsOf(v) : m \in Minutes(j)}

HasSlot(j) == details[j].slots = 0 \/ SlotsTaken(j) < details[j].slots

(* Between two departments a job with extra15 may not be followed at once. *)
NoOverlap(v, j) ==
  /\ Minutes(j) \cap ShiftMinutes(v) = {}
  /\ \A k \in AtMinute(v, details[j].start - 1) :
       ~details[k].extra15 \/ details[k].dept = details[j].dept
  /\ \A k \in AtMinute(v, End(j)) :
       ~details[j].extra15 \/ details[k].dept = details[j].dept

(* The minutes worked without a break just before and just after the job.  *)
Before(v, j) == {m \in ShiftMinutes(v) : m < details[j].start
                                         /\ m .. details[j].start - 1 \subseteq ShiftMinutes(v)}

(* Faulty: only what comes before a job is counted.                        *)
AfterIgnored(v, j) == {}

After(v, j) == {m \in ShiftMinutes(v) : m >= End(j) /\ End(j) .. m \subseteq ShiftMinutes(v)}

Limits(v, j) ==
  {details[k].limit : k \in {j} \cup UNION {AtMinute(v, m) : m \in Before(v, j) \cup After(v, j)}}
    \ {0}

WorkingLimitOk(v, j) ==
  \A limit \in Limits(v, j) :
    details[j].duration + Cardinality(Before(v, j) \cup After(v, j)) <= limit

CanWork(v, j) == j \in jobs /\ HasSlot(j) /\ NoOverlap(v, j) /\ WorkingLimitOk(v, j)

-----------------------------------------------------------------------------
(* The handlers                                                            *)

CheckAssign(d, v, j) ==
  /\ assigning[d] = NoShift
  /\ CanWork(v, j)
  /\ assigning' = [assigning EXCEPT ![d] = <<v, j>>]
  /\ UNCHANGED <<details, jobs, shift, edited, rushed>>

FreeShifts == {i \in ShiftIds : shift[i] = NoShift}

WriteAssign(d) ==
  /\ assigning[d] # NoShift /\ FreeShifts # {}
  /\ shift' = IF assigning[d][2] \in jobs
              THEN [shift EXCEPT ![Min(FreeShifts)] = assigning[d]] ELSE shift
  /\ rushed' = (rushed \/ ~CanWork(assigning[d][1], assigning[d][2]))
  /\ assigning' = [assigning EXCEPT ![d] = NoShift]
  /\ UNCHANGED <<details, jobs, edited>>

(* drop, unassign_shift, unassign_from_job and unassign.                   *)
Drop(i) ==
  /\ shift[i] # NoShift
  /\ shift' = [shift EXCEPT ![i] = NoShift]
  /\ UNCHANGED <<details, jobs, assigning, edited, rushed>>

(* The form of a job is saved with whatever shifts there are.              *)
EditJob(j, new) ==
  /\ j \in jobs /\ details[j] # new
  /\ details' = [details EXCEPT ![j] = new]
  /\ edited' = IF SlotsTaken(j) > 0 THEN edited \cup {j} ELSE edited
  /\ UNCHANGED <<jobs, shift, assigning, rushed>>

DeleteJob(j) ==
  /\ j \in jobs
  /\ jobs' = jobs \ {j}
  /\ shift' = [i \in ShiftIds |-> IF shift[i] # NoShift /\ shift[i][2] = j THEN NoShift ELSE shift[i]]
  /\ UNCHANGED <<details, assigning, edited, rushed>>

ShiftNext ==
  \/ \E d \in ShiftDesks :
       \/ \E v \in Volunteers, j \in Jobs : CheckAssign(d, v, j)
       \/ WriteAssign(d)
  \/ \E i \in ShiftIds : Drop(i)
  \/ \E j \in Jobs :
       \/ \E new \in OtherDetails[j] : EditJob(j, new)
       \/ DeleteJob(j)

ShiftSpec == ShiftInit /\ [][ShiftNext]_shiftVars

-----------------------------------------------------------------------------
(* Properties                                                              *)

(* No volunteer works so long without a break that a job of that stretch   *)
(* forbids it, nor two jobs at once, and no job has more volunteers than   *)
(* slots, in whatever order shifts are taken, dropped and taken again;     *)
(* unless two assignments were checked side by side or a job was edited    *)
(* with shifts on it (assign, no_overlap, working_limit_ok).               *)
Stretches(v) ==
  {s \in ShiftMinutes(v) \X ShiftMinutes(v) : s[1] .. s[2] \subseteq ShiftMinutes(v)}

WithinLimits(v) ==
  \A s \in Stretches(v), j \in JobsOf(v) :
    Minutes(j) \cap s[1] .. s[2] # {} /\ details[j].limit > 0
      => s[2] - s[1] + 1 <= details[j].limit

ShiftsFit ==
  ~rushed /\ edited = {} =>
    /\ \A v \in Volunteers :
         /\ WithinLimits(v)
         /\ \A j, k \in JobsOf(v) : j # k => Minutes(j) \cap Minutes(k) = {}
    /\ \A j \in jobs : details[j].slots > 0 => SlotsTaken(j) <= details[j].slots
===============================================================================
