----------------------------- MODULE LogPipe -----------------------------
(***************************************************************************)
(* What the system log promises: records are stored in the order they were *)
(* sent, none invented, none skipped; a write whose acknowledgement is     *)
(* lost is repeated, so records are stored at least once.  It says nothing *)
(* of buffers, timers or failed writes.                                    *)
(***************************************************************************)
EXTENDS Naturals, Sequences

CONSTANT Record   \* log records

VARIABLES sent,   \* every record sent so far
          done,   \* the records whose write was acknowledged
          stored  \* the rows of sys_log

Init == sent = <<>> /\ done = <<>> /\ stored = <<>>

Send == \E r \in Record : sent' = Append(sent, r) /\ UNCHANGED <<done, stored>>

\* One write stores the next records, as many as it likes; without an
\* acknowledgement they remain the next ones.
Store ==
  \E n \in (Len(done) + 1) .. Len(sent) :
    LET next == SubSeq(sent, Len(done) + 1, n) IN
    /\ stored' = stored \o next
    /\ done' = done \o next \/ done' = done
    /\ UNCHANGED sent

Next == Send \/ Store

Spec == Init /\ [][Next]_<<sent, done, stored>>

=============================================================================
