------------------------------ MODULE PgThread ------------------------------
(***************************************************************************)
(* The native call path: the NIF handlers of src/src/pg_inspect.c, the     *)
(* pg_query_* entry points they call, and the part of the PostgreSQL       *)
(* runtime those run on: memory contexts (mcxt.c, aset.c), the error stack *)
(* and the exception stack (elog.c, PG_TRY), and the thread-exit hook.     *)
(*                                                                         *)
(* Scheduler threads share the malloc heap and one pthread key variable;   *)
(* everything PostgreSQL calls global is __thread here.  A memory context  *)
(* is its identity, a query its place in the set Inputs, and a result the  *)
(* set of malloc'ed objects it consists of.                                *)
(***************************************************************************)
EXTENDS Naturals, FiniteSets

CONSTANTS
  Threads,    \* threads that run NIF calls (scheduler threads of the VM)
  Contexts,   \* AllocSetContext headers malloc can hand out
  NoContext,  \* the NULL memory context
  Fresh(_),   \* Fresh(S): what malloc may return when S is not in use
  Inputs,     \* binaries passed to the NIFs
  Malformed,  \* those validate_args, mk_cstr or the protobuf check refuse
  Accepts,    \* Accepts[i]: settings of standard_conforming_strings under
              \* which the lexer and the grammar accept input i
  Unreadable, \* well-formed messages with a node the reader does not know
  KeyLimit,   \* pthread keys the process can still create (none, if 0)
  MaxFree,    \* MAX_FREE_CONTEXTS of aset.c
  StackSize,  \* ERRORDATA_STACK_SIZE of elog.c
  MayRunOut   \* TRUE if malloc may return NULL

Kinds == {"parse", "fingerprint", "scan", "normalize", "deparse"}
RawKinds == {"parse", "fingerprint"}    \* the ones that use pg_query_raw_parse
Settings == {"on", "off"}               \* of standard_conforming_strings

ASSUME ThreadAssumption ==
  /\ NoContext \notin Contexts
  /\ \A S \in SUBSET Contexts : Fresh(S) \subseteq S
  /\ Malformed \subseteq Inputs
  /\ Unreadable \subseteq Inputs
  /\ Accepts \in [Inputs -> SUBSET Settings]
  /\ KeyLimit \in Nat
  /\ MaxFree \in Nat \ {0}
  /\ StackSize \in Nat \ {0}
  /\ MayRunOut \in BOOLEAN

VARIABLES
  vm,         \* "up", or how the process ended: "exited" (exit, proc_exit),
              \* "aborted" (PANIC) or "crashed" (undefined behaviour)
  keysMade,   \* number of pthread_key_create calls that succeeded
  exitKey,    \* pg_query_thread_exit_key, shared by all threads; 0 at load
  heap,       \* contexts allocated and not yet freed
  misuse,     \* TRUE once a freed context was read or freed again
  tls,        \* thread-local state of libpg_query
  call        \* the NIF call in progress on each thread

vars == <<vm, keysMade, exitKey, heap, misuse, tls, call>>

(* Thread-local variables as the loader sets them.  free is aset.c's       *)
(* context_freelists[0], exc tells whether PG_exception_stack is set,      *)
(* depth is errordata_stack_depth + 1, and hook the value the thread       *)
(* stored under the exit key (NULL if none).                               *)
FreshTls ==
  [init |-> FALSE, top |-> NoContext, err |-> NoContext, current |-> NoContext,
   free |-> {}, scs |-> "on", exc |-> FALSE, depth |-> 0, hook |-> NoContext]

IdleCall ==
  [pc |-> "idle", kind |-> "none", input |-> "none", option |-> "on",
   ctx |-> NoContext, pieces |-> {}, failed |-> FALSE, reply |-> "none"]

Init ==
  /\ vm = "up"
  /\ keysMade = 0
  /\ exitKey = 0
  /\ heap = {}
  /\ misuse = FALSE
  /\ tls = [t \in Threads |-> FreshTls]
  /\ call = [t \in Threads |-> IdleCall]

At(t, label) == vm = "up" /\ call[t].pc = label
Goto(t, label) == call' = [call EXCEPT ![t].pc = label]

(* The process ends in the middle of the call on thread t. *)
Die(how) ==
  /\ vm' = how
  /\ UNCHANGED <<keysMade, exitKey, heap, misuse, tls, call>>

-----------------------------------------------------------------------------
(* Entering and leaving the NIF.                                           *)

(* A handler refuses its argument, or enif_alloc fails, before any library *)
(* code runs.                                                              *)
Refuse(t) ==
  /\ At(t, "idle")
  /\ Malformed # {} \/ MayRunOut
  /\ call' = [call EXCEPT ![t] = [IdleCall EXCEPT !.reply = "error"]]
  /\ UNCHANGED <<vm, keysMade, exitKey, heap, misuse, tls>>

(* The argument is validated and, for SQL text, copied into a C string; a  *)
(* protobuf is unpacked and freed once as a check.  Then the library entry *)
(* point is called with the given parser option.                           *)
Begin(t, k, i, option) ==
  /\ At(t, "idle")
  /\ i \notin Malformed
  /\ call' = [call EXCEPT ![t] =
       [IdleCall EXCEPT !.pc = IF tls[t].init THEN "enter" ELSE "init",
                        !.kind = k, !.input = i, !.option = option,
                        !.pieces = IF k = "deparse" THEN {} ELSE {"cstr"}]]
  /\ UNCHANGED <<vm, keysMade, exitKey, heap, misuse, tls>>

(* Mutant: the stderr buffer of the result is forgotten. *)
FreedButStderr(k) ==
  CASE k = "parse" -> {"error", "cstr", "tree"}
    [] k = "fingerprint" -> {"error", "cstr", "fpstr"}
    [] k = "scan" -> {"error", "cstr", "pbuf"}
    [] k = "normalize" -> {"error", "cstr", "query"}
    [] k = "deparse" -> {"error", "query"}

(* What the free function the handler calls on the result releases, with   *)
(* the C string.                                                           *)
Freed(k) ==
  {"error"} \cup
  CASE k = "parse"       -> {"cstr", "tree", "stderr"}
    [] k = "fingerprint" -> {"cstr", "fpstr", "stderr"}
    [] k = "scan"        -> {"cstr", "pbuf", "stderr"}
    [] k = "normalize"   -> {"cstr", "query"}
    [] k = "deparse"     -> {"query"}

(* The result is turned into a term and freed.  enif_make_new_binary may   *)
(* fail, which makes the answer an error.                                  *)
Reply(t) ==
  /\ At(t, "reply")
  /\ \E r \in (IF call[t].failed THEN {"error"} ELSE {"ok"})
              \cup (IF MayRunOut THEN {"error"} ELSE {}) :
       call' = [call EXCEPT ![t] =
         [IdleCall EXCEPT !.pieces = call[t].pieces \ Freed(call[t].kind),
                          !.reply = r]]
  /\ UNCHANGED <<vm, keysMade, exitKey, heap, misuse, tls>>

-----------------------------------------------------------------------------
(* pg_query_init, run by the first call on each thread.                    *)

(* MemoryContextInit makes TopMemoryContext and ErrorContext.  Without a   *)
(* handler and without an ErrorContext an error there is exit(2).          *)
InitMemory(t) ==
  /\ At(t, "init")
  /\ \/ /\ \E c \in Fresh(Contexts \ heap) :
           \E d \in Fresh(Contexts \ (heap \cup {c})) :
             /\ heap' = heap \cup {c, d}
             /\ tls' = [tls EXCEPT ![t] =
                  [@ EXCEPT !.init = TRUE, !.top = c, !.err = d, !.current = c]]
        /\ Goto(t, "key")
        /\ UNCHANGED <<vm, keysMade, exitKey, misuse>>
     \/ MayRunOut /\ Die("exited")

(* Mutant: tries again until pthread_key_create succeeds. *)
CreateKeyRetries(t) ==
  /\ At(t, "key")
  /\ IF keysMade < KeyLimit
     THEN /\ keysMade' = keysMade + 1 /\ exitKey' = keysMade + 1
          /\ Goto(t, "hook")
          /\ UNCHANGED <<vm, heap, misuse, tls>>
     ELSE UNCHANGED vars

(* Mutant: the shared variable is cleared before a key is asked for. *)
CreateKeyClears(t) ==
  /\ At(t, "key")
  /\ \/ /\ keysMade < KeyLimit
        /\ keysMade' = keysMade + 1 /\ exitKey' = keysMade + 1
     \/ /\ keysMade = KeyLimit
        /\ keysMade' = keysMade /\ exitKey' = 0
  /\ Goto(t, "hook")
  /\ UNCHANGED <<vm, heap, misuse, tls>>

(* pthread_key_create stores a new key in the shared variable.  It fails   *)
(* when the process has no key left, or no memory, and then the variable   *)
(* stays as it is: the code does not look at the result.                   *)
CreateKey(t) ==
  /\ At(t, "key")
  /\ \/ /\ keysMade < KeyLimit
        /\ keysMade' = keysMade + 1 /\ exitKey' = keysMade + 1
     \/ /\ keysMade = KeyLimit \/ MayRunOut
        /\ UNCHANGED <<keysMade, exitKey>>
  /\ Goto(t, "hook")
  /\ UNCHANGED <<vm, heap, misuse, tls>>

(* pthread_setspecific under whatever key the shared variable holds now.   *)
(* Every key 1 .. keysMade has pg_query_thread_exit as its destructor.     *)
(* While no key was ever made the variable is 0, a key of whoever made the *)
(* process's first one: the value is stored for that owner, if at all, and *)
(* no destructor of this library will see it.  Nor is it stored when       *)
(* memory has run out, a result the code does not look at either.          *)
SetHook(t) ==
  /\ At(t, "hook")
  /\ \/ tls' = [tls EXCEPT ![t].hook = IF exitKey = 0 THEN @ ELSE tls[t].top]
     \/ MayRunOut /\ UNCHANGED tls
  /\ Goto(t, "enter")
  /\ UNCHANGED <<vm, keysMade, exitKey, heap, misuse>>

-----------------------------------------------------------------------------
(* The body every pg_query_* entry point has in common.                    *)

(* Mutant: a recycled context stays in the freelist. *)
EnterContextKeepsFree(t) ==
  /\ At(t, "enter")
  /\ \E c \in IF tls[t].free # {} THEN tls[t].free ELSE Fresh(Contexts \ heap) :
       /\ tls' = [tls EXCEPT ![t].current = c]
       /\ call' = [call EXCEPT ![t].ctx = c, ![t].pc = "try"]
       /\ heap' = heap \cup {c}
  /\ UNCHANGED <<vm, keysMade, exitKey, misuse>>

(* Mutant: the freelist is never looked at. *)
EnterContextMallocs(t) ==
  /\ At(t, "enter")
  /\ \E c \in Fresh(Contexts \ heap) :
       /\ tls' = [tls EXCEPT ![t].current = c]
       /\ call' = [call EXCEPT ![t].ctx = c, ![t].pc = "try"]
       /\ heap' = heap \cup {c}
  /\ UNCHANGED <<vm, keysMade, exitKey, misuse>>

(* pg_query_enter_memory_context: a recycled context if there is one.  No  *)
(* handler is installed yet, so running out of memory here ends the        *)
(* process.                                                                *)
EnterContext(t) ==
  /\ At(t, "enter")
  /\ \/ /\ \E c \in IF tls[t].free # {} THEN tls[t].free
                    ELSE Fresh(Contexts \ heap) :
             /\ tls' = [tls EXCEPT ![t].free = @ \ {c}, ![t].current = c]
             /\ call' = [call EXCEPT ![t].ctx = c, ![t].pc = "try"]
             /\ misuse' = (misuse \/ c \in tls[t].free \ heap)
             /\ heap' = IF tls[t].free # {} THEN heap ELSE heap \cup {c}
        /\ UNCHANGED <<vm, keysMade, exitKey>>
     \/ tls[t].free = {} /\ MayRunOut /\ Die("exited")

(* PG_TRY; pg_query_raw_parse then sets the lexer's settings from its      *)
(* options, while the other entry points leave them alone.                 *)
BeginTry(t) ==
  /\ At(t, "try")
  /\ tls' = [tls EXCEPT ![t].exc = TRUE,
                        ![t].scs = IF call[t].kind \in RawKinds
                                   THEN call[t].option ELSE @]
  /\ Goto(t, "body")
  /\ UNCHANGED <<vm, keysMade, exitKey, heap, misuse>>

(* Does the work inside PG_TRY succeed?  Reading and deparsing a protobuf  *)
(* does not depend on the lexer's settings.                                *)
Works(k, i, scs) ==
  /\ IF k = "deparse" THEN "on" \in Accepts[i] ELSE scs \in Accepts[i]
  /\ k = "deparse" => i \notin Unreadable

(* malloc'ed by the work inside PG_TRY when it completes *)
Made(k) ==
  CASE k \in RawKinds -> {"stderr"}
    [] k = "scan" -> {"pbuf", "stderr"}
    [] k \in {"normalize", "deparse"} -> {"query"}

(* Mutant: returns from inside PG_TRY. *)
BodyReturns(t) ==
  /\ At(t, "body")
  /\ Works(call[t].kind, call[t].input, tls[t].scs)
  /\ call' = [call EXCEPT ![t].pc = "after",
                          ![t].pieces = @ \cup Made(call[t].kind)]
  /\ UNCHANGED <<vm, keysMade, exitKey, heap, misuse, tls>>

BodySucceeds(t) ==
  /\ At(t, "body")
  /\ Works(call[t].kind, call[t].input, tls[t].scs)
  /\ tls' = [tls EXCEPT ![t].exc = FALSE,
                        ![t].scs = IF call[t].kind \in RawKinds THEN "on" ELSE @]
  /\ call' = [call EXCEPT ![t].pc = "after",
                          ![t].pieces = @ \cup Made(call[t].kind)]
  /\ UNCHANGED <<vm, keysMade, exitKey, heap, misuse>>

(* malloc'ed inside PG_TRY and lost when the work is left by an error: the *)
(* unpacked protobuf when the reader meets a node it does not know or runs *)
(* out of memory, the tokens of a scan that runs out of memory.            *)
Abandoned(k, i) ==
  CASE k = "deparse" /\ i \in Unreadable -> {{"unpacked"}}
    [] k = "deparse" /\ i \notin Unreadable /\ MayRunOut -> {{}, {"unpacked"}}
    [] k = "scan" /\ MayRunOut -> {{}, {"tokens"}}
    [] OTHER -> {{}}

(* ereport(ERROR): errstart pushes an entry on the error stack, or PANICs  *)
(* if that is full; errfinish switches to ErrorContext and jumps to the    *)
(* handler.  Only memory runs out of a body that would otherwise succeed.  *)
BodyRaises(t) ==
  /\ At(t, "body")
  /\ ~Works(call[t].kind, call[t].input, tls[t].scs) \/ MayRunOut
  /\ IF tls[t].depth >= StackSize
     THEN Die("aborted")
     ELSE /\ tls' = [tls EXCEPT ![t].exc = FALSE,
                                ![t].depth = @ + 1,
                                ![t].current = tls[t].err]
          /\ \E lost \in Abandoned(call[t].kind, call[t].input) :
               call' = [call EXCEPT ![t].pc = "catch",
                                    ![t].pieces = @ \cup lost]
          /\ UNCHANGED <<vm, keysMade, exitKey, heap, misuse>>

(* Once the tree is walked, the handler of pg_query_normalize_ext is no    *)
(* longer the one PG_exception_stack points to (const_record_walker): an   *)
(* error then jumps into a dead frame.                                     *)
BodyJumpsAstray(t) ==
  /\ At(t, "body") /\ call[t].kind = "normalize"
  /\ Works(call[t].kind, call[t].input, tls[t].scs)
  /\ MayRunOut
  /\ Die("crashed")

(* Mutant: no FlushErrorState. *)
CatchKeepsErrorStack(t) ==
  /\ At(t, "catch")
  /\ tls' = [tls EXCEPT ![t].current = call[t].ctx]
  /\ call' = [call EXCEPT ![t].pc = "after", ![t].failed = TRUE,
                          ![t].pieces = @ \cup {"error"}]
  /\ UNCHANGED <<vm, keysMade, exitKey, heap, misuse>>

(* Mutant: result.error is not set. *)
CatchLosesError(t) ==
  /\ At(t, "catch")
  /\ tls' = [tls EXCEPT ![t].current = call[t].ctx, ![t].depth = 0]
  /\ Goto(t, "after")
  /\ UNCHANGED <<vm, keysMade, exitKey, heap, misuse>>

(* PG_CATCH: back to the call's context, copy the error, flush the error   *)
(* stack.  CopyErrorData pallocs with no handler left.  The settings       *)
(* raw_parse changed are not put back.                                     *)
Catch(t) ==
  /\ At(t, "catch")
  /\ \/ /\ tls' = [tls EXCEPT ![t].current = call[t].ctx, ![t].depth = 0]
        /\ call' = [call EXCEPT ![t].pc = "after", ![t].failed = TRUE,
                                ![t].pieces = @ \cup {"error"}]
        /\ UNCHANGED <<vm, keysMade, exitKey, heap, misuse>>
     \/ MayRunOut /\ Die("exited")

(* What follows PG_END_TRY: the tree is written as a protobuf (an empty    *)
(* one after an error) or hashed (unless there was an error).  No handler  *)
(* is installed here either.                                               *)
After(t) ==
  /\ At(t, "after")
  /\ \/ /\ call' = [call EXCEPT ![t].pc = "leave",
              ![t].pieces = @ \cup
                 CASE call[t].kind = "parse" -> {"tree"}
                   [] call[t].kind = "fingerprint" /\ ~call[t].failed -> {"fpstr"}
                   [] OTHER -> {}]
        /\ UNCHANGED <<vm, keysMade, exitKey, heap, misuse, tls>>
     \/ call[t].kind \in RawKinds /\ MayRunOut /\ Die("exited")

(* Mutant: ctx is cleared before it is deleted. *)
LeaveContextClearsFirst(t) ==
  /\ At(t, "leave")
  /\ tls' = [tls EXCEPT ![t].current = tls[t].top, ![t].free = {NoContext}]
  /\ call' = [call EXCEPT ![t].ctx = NoContext, ![t].pc = "reply"]
  /\ UNCHANGED <<vm, keysMade, exitKey, heap, misuse>>

(* Mutant: the context is freed and put in the freelist all the same. *)
LeaveContextFrees(t) ==
  /\ At(t, "leave")
  /\ tls' = [tls EXCEPT ![t].current = tls[t].top, ![t].free = {call[t].ctx}]
  /\ heap' = heap \ {call[t].ctx}
  /\ call' = [call EXCEPT ![t].ctx = NoContext, ![t].pc = "reply"]
  /\ UNCHANGED <<vm, keysMade, exitKey, misuse>>

(* pg_query_exit_memory_context: the context goes to the thread's freelist *)
(* (AllocSetDelete), which is emptied first if it is full.                 *)
LeaveContext(t) ==
  /\ At(t, "leave")
  /\ LET full == Cardinality(tls[t].free) >= MaxFree
     IN  /\ tls' = [tls EXCEPT ![t].current = tls[t].top,
                      ![t].free = (IF full THEN {} ELSE @) \cup {call[t].ctx}]
         /\ heap' = IF full THEN heap \ tls[t].free ELSE heap
         /\ misuse' = (misuse \/ call[t].ctx \notin heap
                              \/ (full /\ ~(tls[t].free \subseteq heap)))
  /\ call' = [call EXCEPT ![t].ctx = NoContext, ![t].pc = "reply"]
  /\ UNCHANGED <<vm, keysMade, exitKey>>

-----------------------------------------------------------------------------
(* The end of a thread, and the thread that takes its slot.                *)

(* Mutant: the freelist is not emptied. *)
FreeTopKeepsFreelist(t, c) ==
  /\ misuse' = (misuse \/ c \notin heap)
  /\ heap' = heap \ {c, tls[t].err}

(* pg_query_free_top_memory_context(c): ErrorContext, the freelist, then c *)
(* itself, which AllocSetDelete has put in the freelist just before.       *)
FreeTop(t, c) ==
  /\ misuse' = (misuse \/ c \notin heap \/ ~(tls[t].free \subseteq heap))
  /\ heap' = heap \ ({c, tls[t].err} \cup tls[t].free)

(* The destructor runs if the thread stored a context under a live key.    *)
ThreadExit(t) ==
  /\ At(t, "idle")
  /\ IF tls[t].hook = NoContext
     THEN UNCHANGED <<heap, misuse>>
     ELSE FreeTop(t, tls[t].hook)
  /\ tls' = [tls EXCEPT ![t] = FreshTls]
  /\ call' = [call EXCEPT ![t] = [IdleCall EXCEPT !.pc = "gone"]]
  /\ UNCHANGED <<vm, keysMade, exitKey>>

ThreadStart(t) ==
  /\ At(t, "gone")
  /\ Goto(t, "idle")
  /\ UNCHANGED <<vm, keysMade, exitKey, heap, misuse, tls>>

-----------------------------------------------------------------------------
(* The steps the library and the runtime take on their own once called.    *)
LibraryStep(t) ==
  \/ InitMemory(t) \/ CreateKey(t) \/ SetHook(t)
  \/ EnterContext(t) \/ BeginTry(t) \/ BodySucceeds(t) \/ BodyRaises(t)
  \/ BodyJumpsAstray(t) \/ Catch(t) \/ After(t) \/ LeaveContext(t)
  \/ Reply(t)

(* The NIFs call the entry points that take no options. *)
Next ==
  \E t \in Threads :
    \/ \E k \in Kinds, i \in Inputs : Begin(t, k, i, "on")
    \/ Refuse(t)
    \/ LibraryStep(t)
    \/ ThreadExit(t) \/ ThreadStart(t)

Spec == Init /\ [][Next]_vars
FairSpec == Spec /\ \A t \in Threads : WF_vars(LibraryStep(t))

-----------------------------------------------------------------------------
(* Properties.                                                             *)

Pieces == {"cstr", "error", "stderr", "tree", "fpstr", "pbuf", "query",
           "unpacked", "tokens"}
Labels == {"idle", "init", "key", "hook", "enter", "try", "body", "catch",
           "after", "leave", "reply", "gone"}

TlsType ==
  [init : BOOLEAN, top : Contexts \cup {NoContext},
   err : Contexts \cup {NoContext}, current : Contexts \cup {NoContext},
   free : SUBSET Contexts, scs : Settings, exc : BOOLEAN,
   depth : 0 .. StackSize, hook : Contexts \cup {NoContext}]

CallType ==
  [pc : Labels, kind : Kinds \cup {"none"}, input : Inputs \cup {"none"},
   option : Settings, ctx : Contexts \cup {NoContext}, pieces : SUBSET Pieces,
   failed : BOOLEAN, reply : {"none", "ok", "error"}]

(* The types of the variables. *)
TypeOK ==
  /\ vm \in {"up", "exited", "aborted", "crashed"}
  /\ keysMade \in 0 .. KeyLimit
  /\ exitKey \in 0 .. KeyLimit
  /\ heap \subseteq Contexts
  /\ misuse \in BOOLEAN
  /\ tls \in [Threads -> TlsType]
  /\ call \in [Threads -> CallType]

(* The contexts thread t will free or reuse one day. *)
Owned(t) ==
  ({tls[t].top, tls[t].err, call[t].ctx} \cup tls[t].free) \ {NoContext}

(* Contexts that no thread will ever free or reuse. *)
Forgotten == heap \ UNION {Owned(t) : t \in Threads}

(* No step but the end of a thread makes a context forgotten, and the end  *)
(* of a thread only when no exit hook is stored for it, because there was  *)
(* never a key to store it under or no memory to store it in.  In every    *)
(* other case all a thread holds at its end is freed: its top contexts and *)
(* the recycled ones, whichever key of whichever thread the hook was       *)
(* stored under, and however its calls ended (pg_query.c:23-71).           *)
NoContextLost ==
  [][\/ Forgotten' \subseteq Forgotten
     \/ /\ KeyLimit = 0 \/ MayRunOut
        /\ \E t \in Threads :
             /\ call[t].pc = "idle" /\ call'[t].pc = "gone"
             /\ tls[t].hook = NoContext
             /\ Forgotten' \subseteq Forgotten \cup Owned(t)]_vars

(* No two threads, and no two roles within a thread, share a context: a    *)
(* context taken from the freelist has left it, and the call's context is  *)
(* neither TopMemoryContext nor ErrorContext (mcxt.c, aset.c:427-452).     *)
ContextsUnshared ==
  /\ \A t, u \in Threads : t # u => Owned(t) \cap Owned(u) = {}
  /\ \A t \in Threads :
       /\ tls[t].top # NoContext => tls[t].top # tls[t].err
       /\ call[t].ctx # NoContext =>
            call[t].ctx \notin {tls[t].top, tls[t].err} \cup tls[t].free
       /\ {tls[t].top, tls[t].err} \cap tls[t].free = {}

(* No context is freed twice or used after it is freed, and none that a    *)
(* thread still points to has been freed.                                  *)
NoMisuse == ~misuse /\ \A t \in Threads : Owned(t) \subseteq heap

(* A thread never holds more than TopMemoryContext, ErrorContext and one   *)
(* context for its calls, however many calls it has made and however they  *)
(* ended (pg_query.c:78-100, aset.c:646-686).                              *)
AtMostThreeContexts == \A t \in Threads : Cardinality(Owned(t)) <= 3

(* A call starts from the same thread state whatever became of the calls   *)
(* before it: no handler installed, an empty error stack, the default      *)
(* lexer settings, TopMemoryContext current (the assertion of              *)
(* pg_query.c:84).                                                         *)
CallsStartClean ==
  \A t \in Threads : call[t].pc \in {"idle", "enter"} =>
    /\ ~tls[t].exc /\ tls[t].depth = 0 /\ tls[t].scs = "on"
    /\ tls[t].current = tls[t].top /\ call[t].ctx = NoContext

(* A parse error is never promoted to PANIC by an error stack that fills   *)
(* up over many failing calls (elog.c:789-794).                            *)
NeverPanics == vm # "aborted"

(* When the handler returns it has freed everything the library malloc'ed  *)
(* for it.  What an error in the middle of a deparse or of an out-of-      *)
(* memory scan loses is the exception (pg_query_readfuncs_protobuf.c:150,  *)
(* pg_query_scan.c:79).                                                    *)
ResultsFreed ==
  \A t \in Threads : call[t].pc = "idle" =>
    /\ call[t].pieces \subseteq {"unpacked", "tokens"}
    /\ call[t].pieces # {} => call[t].reply = "error"

(* A call that has started returns, unless the process dies first.         *)
CallsReturn ==
  \A t \in Threads :
    call[t].pc \notin {"idle", "gone"} ~> (call[t].pc = "idle" \/ vm # "up")

-----------------------------------------------------------------------------
(* This specification implements NativeCall: the tag a call returns is     *)
(* decided by its function and its argument alone.                         *)
Abstract == INSTANCE NativeCall WITH
  Good <- [k \in Kinds |-> {i \in Inputs \ Malformed : Works(k, i, "on")}],
  vm <- IF vm = "up" THEN "up" ELSE "exited",
  busy <- [t \in Threads |-> IF call[t].pc \in {"idle", "gone"} THEN <<>>
                             ELSE <<call[t].kind, call[t].input>>],
  answer <- [t \in Threads |-> call[t].reply]

ImplementsNativeCall == Abstract!Spec
=============================================================================
