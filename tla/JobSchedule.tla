----------------------------- MODULE JobSchedule -----------------------------
(***************************************************************************)
(* The interval arithmetic of src/server/job-schedule.ts.  Instants are    *)
(* natural numbers (the code works in milliseconds and rejects results     *)
(* beyond JavaScript's safe integers).                                     *)
(***************************************************************************)
EXTENDS Integers

(* Mutant: an occurrence at `after` itself is returned again.              *)
OccurrenceNotBefore(anchorAt, duration, after) ==
    IF after < anchorAt THEN anchorAt
    ELSE anchorAt + ((after - anchorAt) \div duration) * duration

(* intervalOccurrenceAfter / firstJobOccurrenceAfter.                      *)
FirstJobOccurrenceAfter(anchorAt, duration, after) ==
    IF after < anchorAt THEN anchorAt
    ELSE anchorAt + ((after - anchorAt) \div duration + 1) * duration

(* advanceJobOccurrence: past both the persisted occurrence and now.       *)
AdvanceJobOccurrence(anchorAt, duration, persisted, now) ==
    FirstJobOccurrenceAfter(anchorAt, duration, IF persisted > now THEN persisted ELSE now)
=============================================================================
