---------------------------- MODULE RelativeTime ----------------------------
(***************************************************************************)
(* Time as the program compares it.  Every stored instant (run_at,         *)
(* locked_until, processing_started_at, updated_at, a context deadline) is *)
(* kept as its distance from the present: NOW() is 0, a future instant is  *)
(* positive, a past one negative.  The clock advances by making every      *)
(* stored instant one unit older.  An instant that is already older than   *)
(* any comparison in the code can notice stays where it is, so the clock   *)
(* is never bounded while the state space is finite.                       *)
(***************************************************************************)
EXTENDS Integers

\* The instant t one time unit later; instants at or before -memory are the
\* same to every reader and do not age further.
Older(t, memory) == IF t > 0 - memory THEN t - 1 ELSE t

\* The instant t seen by a reader that remembers no further back than memory.
Clamp(t, memory) == IF t < 0 - memory THEN 0 - memory ELSE t
=============================================================================
