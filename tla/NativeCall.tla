----------------------------- MODULE NativeCall -----------------------------
(***************************************************************************)
(* What PgInspect.Native promises its callers (src/src/pg_inspect.c, and   *)
(* the @spec lines of lib/pg_inspect/native.ex): a call made on a          *)
(* scheduler thread comes back with {:ok, _} or {:error, _}, and which of  *)
(* the two depends on the function called and on its argument alone, never *)
(* on the calls made before it or on what other threads are doing.         *)
(*                                                                         *)
(* The specification does not say how: PgThread.tla is the mechanism, and  *)
(* implements this one.                                                    *)
(***************************************************************************)

CONSTANTS
  Threads,    \* the operating-system threads that run NIF calls
  Kinds,      \* the functions of the NIF table
  Inputs,     \* the arguments the callers may pass
  Good,       \* Good[k] is the set of inputs function k answers {:ok, _} to
  MayRunOut   \* TRUE if malloc may return NULL

VARIABLES
  vm,         \* "up" while the operating-system process is alive
  busy,       \* busy[t]: the <<function, input>> thread t is executing, or <<>>
  answer      \* answer[t]: the tag of the last tuple returned on thread t

vars == <<vm, busy, answer>>

Init ==
  /\ vm = "up"
  /\ busy = [t \in Threads |-> <<>>]
  /\ answer = [t \in Threads |-> "none"]

(* A caller enters a NIF.  *)
Call(t, k, i) ==
  /\ vm = "up" /\ busy[t] = <<>>
  /\ busy' = [busy EXCEPT ![t] = <<k, i>>]
  /\ answer' = [answer EXCEPT ![t] = "none"]
  /\ UNCHANGED vm

(* The arguments are refused before the library is entered. *)
Refuse(t) ==
  /\ vm = "up" /\ busy[t] = <<>>
  /\ answer' = [answer EXCEPT ![t] = "error"]
  /\ UNCHANGED <<vm, busy>>

(* The call returns its tagged tuple. *)
Return(t) ==
  /\ vm = "up" /\ busy[t] # <<>>
  /\ LET k == busy[t][1]
         i == busy[t][2]
     IN  \/ answer' = [answer EXCEPT ![t] = IF i \in Good[k] THEN "ok" ELSE "error"]
         \/ MayRunOut /\ answer' = [answer EXCEPT ![t] = "error"]
  /\ busy' = [busy EXCEPT ![t] = <<>>]
  /\ UNCHANGED vm

(* The thread ends between two calls; a later one may take its place. *)
Retire(t) ==
  /\ vm = "up" /\ busy[t] = <<>>
  /\ answer' = [answer EXCEPT ![t] = "none"]
  /\ UNCHANGED <<vm, busy>>

(* Only a process that is out of memory may go down during a call. *)
Die ==
  /\ MayRunOut /\ vm = "up"
  /\ \E t \in Threads : busy[t] # <<>>
  /\ vm' = "exited"
  /\ UNCHANGED <<busy, answer>>

Next ==
  \/ \E t \in Threads :
       \/ \E k \in Kinds, i \in Inputs : Call(t, k, i)
       \/ Refuse(t) \/ Return(t) \/ Retire(t)
  \/ Die

Spec == Init /\ [][Next]_vars
=============================================================================
