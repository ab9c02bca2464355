------------------------------- MODULE Handlers -------------------------------
(***************************************************************************)
(* HTTP handlers in flight over a database.                                *)
(*                                                                         *)
(* A handler of a NestJS service is an async function: it runs without     *)
(* interruption between two awaits, and what it awaits are Prisma calls.   *)
(* One that writes is atomic in PostgreSQL.  One that reads is a SELECT of *)
(* the rows, followed by a SELECT for each relation it includes in turn,   *)
(* which matter only where the handler uses what they return.  No handler  *)
(* opens a database transaction, so statements of different handlers       *)
(* interleave freely.  Each action of the service modules is one statement *)
(* together with the code that runs up to the next one; what the handler   *)
(* carries over to it is kept in call[c].                                  *)
(*                                                                         *)
(* A validation that fails throws before anything is written: a first step *)
(* that throws changes nothing and is no step at all.  A later statement   *)
(* that throws, because its row is gone, ends the call.                    *)
(***************************************************************************)
EXTENDS FiniteSets

CONSTANTS
  Callers,    \* requests that may be in flight together
  Faults      \* statements may fail and the process may die

ASSUME HandlersAssumption ==
  /\ IsFiniteSet(Callers) /\ Callers # {}
  /\ Faults \in BOOLEAN

VARIABLE
  call    \* per caller, the statement its handler sends next and its locals

Idle == [step |-> "idle"]

Start(c, k) == call[c] = Idle /\ call' = [call EXCEPT ![c] = k]
Goto(c, s) == call' = [call EXCEPT ![c].step = s]
End(c) == call' = [call EXCEPT ![c] = Idle]

\* A statement fails or the process dies: what was written stays, the rest is lost.
Fail(c) == Faults /\ call[c] # Idle /\ End(c)

HandlersInit == call = [c \in Callers |-> Idle]
=============================================================================
