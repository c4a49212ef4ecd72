---------------------------- MODULE ParticleSink ------------------------------
(***************************************************************************)
(* What the in-memory transfer of src/include/embedded.hh promises a host, *)
(* abstractly: a generate call delivers a fixed script of callbacks on     *)
(* every rank, all ranks move through it in step, a refusal on one rank    *)
(* ends it on all, and 0 is returned only after all of it.                 *)
(*                                                                         *)
(* EmbeddedTransfer implements this specification (its Contract).          *)
(***************************************************************************)
EXTENDS Integers, Sequences

CONSTANTS
  Rank,       \* the ranks of the host
  Jobs,       \* what a call may ask for
  Script(_),  \* the callbacks a successful call for a job delivers
  Codes,      \* what a callback may return
  NoResult    \* the call has not returned yet

VARIABLES
  call,    \* number of the call
  job,     \* what it asks for
  log,     \* the callbacks delivered on each rank
  failed,  \* has one of them returned a nonzero code?
  result   \* NoResult, 0 or 1 on each rank

vars == <<call, job, log, failed, result>>

Init ==
  /\ call = 0
  /\ job \in Jobs
  /\ log = [r \in Rank |-> <<>>]
  /\ failed = [r \in Rank |-> FALSE]
  /\ result = [r \in Rank |-> NoResult]

NewCall ==
  /\ call = 0 \/ \A r \in Rank : result[r] # NoResult
  /\ call' = call + 1
  /\ job' \in Jobs
  /\ log' = [r \in Rank |-> <<>>]
  /\ failed' = [r \in Rank |-> FALSE]
  /\ result' = [r \in Rank |-> NoResult]

\* Rank r gets its next callback.  No rank is behind it, and none has
\* refused a callback r has already had.
Deliver(r) ==
  /\ result[r] = NoResult
  /\ Len(log[r]) < Len(Script(job))
  /\ \A q \in Rank :
       /\ Len(log[q]) >= Len(log[r])
       /\ failed[q] => Len(log[q]) > Len(log[r])
  /\ log' = [log EXCEPT ![r] = Append(@, Script(job)[Len(log[r]) + 1])]
  /\ \E code \in Codes : failed' = [failed EXCEPT ![r] = @ \/ code # 0]
  /\ UNCHANGED <<call, job, result>>

\* Success means that every rank had the whole script and accepted it.
Succeed(r) ==
  /\ result[r] = NoResult
  /\ \A q \in Rank : log[q] = Script(job) /\ ~failed[q]
  /\ result' = [result EXCEPT ![r] = 0]
  /\ UNCHANGED <<call, job, log, failed>>

Fail(r) ==
  /\ result[r] = NoResult
  /\ result' = [result EXCEPT ![r] = 1]
  /\ UNCHANGED <<call, job, log, failed>>

Next ==
  \/ NewCall
  \/ \E r \in Rank : Deliver(r) \/ Succeed(r) \/ Fail(r)

Spec == Init /\ [][Next]_vars
=============================================================================
